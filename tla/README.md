# TLA+ models of Red Hat Developer Hub (rhdh)

rhdh is a distribution of Backstage. It adds three things to the upstream parts: an
installer that puts dynamic plugins on a volume before the backend starts, a backend
that loads and authenticates, and a frontend that assembles itself at run time from the
plugins' configuration. Upstream Backstage, Scalprum and the plugins are external to
this project; where they matter they are modelled from how rhdh's code uses them.

Paths below are relative to the repository.

## 1. Inventory

| Part | State | Operations | Interacts with |
|---|---|---|---|
| **Installer lock** `docker/install-dynamic-plugins.py:211-242` | lock file on the volume; exit callback and signal handler of each process | `create_lock`, `wait_for_lock_release`, `remove_lock`, SIGTERM, SIGKILL | other Pods on the same volume; the operator who clears a stale lock |
| **Installer reconciliation** same file, `main` from line 244 | plugin directories with hash and digest files, the generated `app-config.dynamic-plugins.yaml` | scan, decide per plugin, download, verify, replace, merge, sweep | npm registry, OCI registry, the configuration's owner, the next run |
| **Configuration merge** same file, `merge`, `maybeMergeConfig` | the global configuration being built | merge one fragment or raise | the installer's loop |
| **Group ownership** `packages/backend/src/transitiveGroupOwnershipResolver.ts` | set of processed groups of one sign-in | direct groups, recursive parents | software catalog, which changes between requests |
| **Frontend bootstrap** `ScalprumRoot`, `DynamicRoot`, `extractDynamicConfig`, `initializeRemotePlugins`, scalprum backend | configuration, listed plugins, plugin store, app, component registry | load the configuration, list, process manifests, get modules, create the app, publish the registry, load `AppBase` | scalprum backend, browser, React's effects |
| **Main sidebar** `extractDynamicConfigFrontend.ts`, `Root.tsx` | tree of menu items, shared by all renders | overlay items, build the tree, render, strip RBAC | plugins' entries, permission backend |
| **Sign-in** `packages/backend/src/modules/{authProvidersModule,resolverUtils,rhdhSignInResolvers}.ts`, `packages/app/src/components/SignInPage/SignInPage.tsx` | registered providers; one chain of resolvers per sign-in | register, authenticate, try resolvers in turn, look up, resolve ownership, issue a token | identity providers, catalog, group ownership, auth's database |
| **Licensed users** `plugins/licensed-users-info-backend` | token life read at start, the rows of one request | list users with last sign-in and profile | auth's database, catalog, permissions |
| **Entity page** `catalog/EntityPage/*`, `extractDynamicConfigFrontend.ts` (conditions) | tabs, cards, open dialogs of the context menu | merge tabs, evaluate rules and conditions, open and close | mount points of the plugins, catalog |
| **Dynamic plugins info** `plugins/dynamic-plugins-info*` | query of the table, its answers | list, sort, search, page | backend's plugin list |
| **Learning paths** `useLearningPathData.ts`, its client and page | data, error, loading | request, fall back to a file, render | proxy |
| **End-to-end test drivers** `e2e-tests/playwright/utils/authentication-providers/{rhdh-deployment,msgraph-helper}.ts`, `kube-client.ts` and the specs that use them | configuration held in memory, followed log, local process; Azure objects shared by jobs | clear, create, update, deploy, wait, follow, check, restart, kill, clean up | Kubernetes and the operator, a local process, Azure, other CI jobs, Playwright's retries |
| **App shell** `AppBase.tsx`, `ApplicationProvider.tsx`, `ApplicationListener.tsx`, `ApplicationHeaders.tsx` | which error boundaries show their fallback | open a page, an error of a provider or page (of a listener or header: its own boundary only) | plugins' mount points and routes, React |
| Backend wiring, plugin-utils | none | declarative | Backstage |
| Plugin copying `dynamic-plugins/_utils/copy-plugins.js` | destination directory | concurrent rm and cp | image build |
| CI pipelines, browser tests, wrappers, images | | | |

What is hard in this code, and what makes each part correct:

* **Lock.** `remove_lock` is registered before the lock is taken, so the end of a
  *waiting* process deletes somebody else's lock; between seeing no file and creating
  one another process may come first; SIGKILL leaves the file. Correct: one process at
  work at a time, and nobody waits for ever.
* **Reconciliation.** The volume is the only memory from run to run, and a run may end
  between any two changes of it. What a later run reads as "installed" (a hash file) has
  to mean installed; `plugin_path_by_hash` is read once and used for deletion at the end.
  Correct: nothing half installed is taken for installed, verified content is what is
  kept, and once runs succeed undisturbed the volume converges to the configuration.
* **Merge.** Order of the fragments, which matters when one has an empty mapping (as those of
  `dynamic-plugins.default.yaml` do) and another a value; clashes at any depth. Correct: nothing is lost or made up,
  and a value is never replaced by another.
* **Group ownership.** Awaits between reads of a changing catalog; cyclic hierarchies.
  Correct: complete, justified, terminating.
* **Bootstrap.** Many requests that end in any order, any of which fails; an effect that
  may start the loading twice; one rejected promise leaves a loading screen. Correct:
  failures stay with their plugin, one app, and the page appears.
* **Sidebar.** The fields of one item come from several plugins; Root edits the tree it
  shares with later renders. Correct: each item where it is configured to be, in order,
  and nothing but RBAC taken out.
* **Sign-in.** Page and backend read the same configuration through tables and defaults of
  their own; every error in a default chain is "try the next", while a declared chain goes on
  only when no user was found; each lookup is an await during which users and groups change,
  and the backend may be restarted with a sign-in under way. Correct: who is signed in is who
  the identity provider says, decided by the first resolver that works; who is refused is
  refused for a reason; every sign-in ends.
* **Licensed users.** The time of a sign-in is not stored: it is computed from the expiry of
  the token and the token life configured *now*; profiles are joined by a key that drops the
  namespace, from a catalog read after the table. Correct: time and profile are the user's own.
* **Entity page.** An override replaces a whole tab, a tab's rule and its cards' conditions are
  evaluated apart and with different contexts, conditions throw; the context menu writes an
  array it has read at the last render. Correct: no empty tab, no card without its tab, no
  click lost.
* **App shell.** Providers nest, each in a boundary around all that is within it; an error mounts
  what is within anew, which may throw for the context that is now gone; the boundary cannot tell
  the provider's error from one of a page. Correct: a provider that throws costs itself and what
  needs it.
* **Plugin table, learning paths.** Answers that come in any order and fail; a comparison that
  is no order; an effect that depends on three values that change one by one. Correct: what is
  shown is the page of the query it answers; the page stops loading.
* **Test drivers.** They decide from conditions, replica counts and log lines whether the
  backend under test is the one they configured; controllers lag, pods that end are still
  listed, processes outlive their shell, jobs read and write one list in Azure. Correct: what
  a test checks is what it configured, nothing is left behind, every spec file ends.

`PROJECT.json` lists every hazard with its line and the properties that would catch it.

## 2. Plan

Done, in this order: `MutualExclusion`, `InstallLock`, `PluginConfig`, `PluginInstall`,
`ConfigMerge`, `GroupOwnership`, `SidebarMenu`, `FrontendBootstrap`; proofs about
`InstallLock`, `PluginInstall` and `GroupOwnership`. Then `AuthProviders`, `LicensedUsers` and
`SignIn`, which composes them with `GroupOwnership`; `EntityPage`, `DynamicPluginsTable`,
`LearningPaths`, `AppShell` and `AppPages`, which composes them with `SidebarMenu`; `Cluster`,
`TestWorker`, `RHDHDeployment`, `KubeClient`, `MSClient` and `E2ETests`, which composes them.

Then the proofs about what successful runs of the installer lead to, the test drivers, the
bootstrap, the sign-in, the pages and the merge of configurations.

Next:

1. `InstallService`: `InstallLock` composed with `PluginInstall`, two Pods with two
   configurations on one volume, to show which of the installer's properties hang on the
   lock.
2. `CopyPlugins`.
3. Proofs about these two.

Abstract specifications: `MutualExclusion` for the lock (done); for `InstallService` an
atomic "the volume becomes what the configuration says"; for the bootstrap "loading,
then shown with a set of components".

## 3. Modules and the code they model

**`MutualExclusion`** What the comment of `create_lock` promises: at most one process
inside, and none stays inside for ever. Implemented by `InstallLock` under the refinement
mapping `Exclusion` (`inside` is the set of working instances until the first SIGTERM
reaches an instance without the lock; from there on it is empty).

**`InstallLock`** `phase[i]` is the place of instance *i* in `main()`: callbacks registered
(lines 240, 241), `create_lock` (242), the polling loop, the rest of `main`, the exit
callback. `volume` holds the lock file. SIGTERM has a different effect before
(`SigTermEnds`) and after (`SigTermExits`) its handler is installed. `OperatorDelete` is
the remedy of `docs/dynamic-plugins/installing-plugins.md:143`, the file it deletes a
constant. `owner` and `hits` are history.
The shell wrapper, which does not forward signals, is not a part of it: a SIGTERM to
the container is then only the SIGKILL that follows, and that is an action.

**`PluginConfig`** How `main` computes `allPlugins` from the includes and the main list,
the hash (of an entry without its `pluginConfig`: two hashes are equal
exactly if these records are), `pullPolicy`, `forceDownload`.

**`PluginInstall`** One action per stretch of `main` between two changes of the volume, so
that a `Kill` falls between any two of them: decide (`SkipDisabled`, `SkipInstalled`,
`CompareDigest`, `ForceDownload`, `Download`), `Fetch` with verification, `Clear`
(`rmtree`), `Extract`, the digest and hash files opened and written, `MergeFragment`, the
global file opened and written, `Sweep` one directory at a time. A directory is a
record of hash file, digest and version of its content (`Partial` while files are missing;
it also stands for an empty directory between deletion and extraction). `EditConfig`
and `Publish` change the configuration and the registries, `Abort` is any exception.
`settled`, `mishaps` and `aborts` are history.
Left out: the archive file and a leftover of it, the archive's own structure,
`SKIP_INTEGRITY_CHECK`, values of `pullPolicy` other than the two of its enumeration
(they raise), errors that `rmtree` ignores.

**`ConfigMerge`** A YAML value is a node, a leaf or a mapping of keys to nodes, nested no deeper than `Depth`.
`merge` is a function of source and destination that calls itself; `MergedKey` is the body of
its loop, an exception the value `Raised`. Mappings may be empty at any depth, as those of
`dynamic-plugins.default.yaml` are (lines 181, 188, 399, 1105, 1112). The reference, `Tree`, is the set of leaves and
mappings with their paths. `Together` is the union of such sets, in which an empty mapping gives way to whatever else there is.
`Clash` goes through the fragments in their order, since the order matters: a value after `{}` is a
`Conflict`, and `{}` after a value asks for nothing.

**`GroupOwnership`** The recursion of `resolveParentGroups` as an explicit stack of calls, each with the
groups it still loops over and the ones it has found; `processedGroups` is shared. Every
await is a step, between two of which `ChangeCatalog` may happen. Lists are sets, taken
in any order. `always` and `ever` are history: the relations present throughout, and at
some time.

**`SidebarMenu`** `Items` is what `extractMenuItems` pushes, `Overlay` the spread in
`buildTree`, `Siblings` its filter, push and sort. `Extract` puts the tree where all
renders share it, `RenderAgain` is Root's reaction to a reply of the permission backend,
`RenderThrows` the read of `menuItemArray[0]` of an empty array. `ItemMap` overlays one item after
the other (`Spread` is the spread of two objects), `GoesFirst` is `compareMenuItems`, `ThreeLevels` what Root
renders of a tree: the top level and two below it. Names that look like integers
(JavaScript puts them first), the path `/` (whose name is empty), open submenus and the
menu items with a component of their own are left out.

**`FrontendBootstrap`** `ScalprumRoot` (configuration, list of plugins, each may fail),
`run[r]` for each call of `initializeRemoteModules` with the modules it waits for, and the app and
registry that `Finish` sets. `ExtractDynamicConfig` fills in the defaults,
`RequiredModules` is the list as the code has it, `There` the lookup
`allPlugins[scope]?.[module]?.[importName]` with remote modules before static ones.
`Listing` is the scalprum backend's. `BindAppRoutes` is what `bindAppRoutes.ts` passes to Backstage;
a route it does not find is passed on as undefined (`found` is FALSE). `ShownSettings` are the
settings of auth providers whose API belongs to a plugin of the app. `EntryFields` are the types of
`extractDynamicConfig.ts`, with the fields that matter. `faults` is history. Conditions of mount
points are `EntityPage`'s.

**`AuthProviders`** `config` is what page and backend read. `RegisterProviders` is `init` of the
auth module, `DefaultResolvers` and `ResolverFactories` are the tables of `resolverUtils.ts` and
`rhdhSignInResolvers.ts`, `CreateProviderRouters` is what the auth plugin does with them.
`PageProvider` and `OffersGuest` are the page's side. A resolver is the claim it takes, whether
the ID token has to agree, and the field of the user entity it looks for.

**`LicensedUsers`** `userInfo` is auth's table, a record per ref, and `rows` what a request has read of it;
`ReadBackstageTokenExpiration` and its clamp are the plugin's, `TokenLife` is auth's own,
external. `GetUsers`, `GetListUsers` and `JoinProfiles` are the awaits of `GET /users`.
`MsPerSecond` stands for 1000 and the limits for 600, 86400 and 3600.

**`SignIn`** A sign-in from the page to the token: `phase` is the await it is at, `chain` the resolvers
and `tried` how many have thrown. `Throws` is what an error does to a default and to a declared chain.
`UserFound` starts the resolution of `GroupOwnership`, whose steps `ResolveOwnership` takes;
`Issue` records the user for `LicensedUsers`. `RefreshUsers`, `ChangeGroups` and `Restart` happen
between awaits. Steps that neither read nor write what the resolution of groups works on are taken
before or after it (`Apart`): they commute with it. `fault`, `stopped`, `ever0` and `always0`
are history.

**`StableSort`** External: what JavaScript's `filter` and its stable `sort` return, by what they promise. The elements of a
list at some of its places, in an order of the places (`Arranged`, `Taken`, `Picked`); the sidebar, the tabs and the table
all sort through it.

**`EntityPage`** `MergedTabs` is `mergeTabs` with its stable sort, `TabRules` the default rules, the
`...Content` operators the static cards, `ConfigIf` and `Outcome` are `configIfToCallable` and
`conditionsArrayMapper` with what a throwing test does to each quantifier. A function test that
looks up an API throws where it is called without a context, as the tabs' visibility does.
`openStates` is the context menu's state, `rendered` the one its handlers close over.

**`DynamicPluginsTable`** `Ask` is the table's next query, `Answered` `fetchData` for one query in
flight; the sort's comparison is `GoesBefore` as written, which looks at one of two Booleans only. `SortOrder` is the
order that a stable sort makes of it: of equal Booleans those that go to the front are reversed.

**`LearningPaths`** The state of `useAsync`, of the fallback's promise and of the hook, and the effect that runs when a
dependency has changed.

**`AppShell`** `out` are the providers whose boundary (`ErrorBoundary` of `ApplicationProvider.tsx`) shows its
fallback, which renders the children without the provider. `Catch` is an error at some depth: the
innermost boundary around it takes it and mounts what is within anew; what throws there goes to the next one
outwards. Listeners and headers are beside the providers, each in its own boundary, and left out. `Earliest` says where that ends, without its steps. Boundaries are React's, external. `threw`, `pageThrew` and
`starved` are history.

**`AppPages`** One of these pages, the sidebar or the shell is looked at; they share nothing that changes.

**`Cluster`** External: namespace, objects, operator, Deployment with a controller that is
behind, conditions, pods that read their configuration at start.

**`TestWorker`** The place of a Playwright worker, loops that poll, a failed test, the new worker of a retry.

**`RHDHDeployment`** Every await of the class in the order of the specs that use it: clearing and creating the namespace,
objects or files, the Backstage resource, the three waits, the followed log, the check, the next test's
configuration. `servers` are local processes: a shell and the group under it, which end apart.
`activeWait` is the call nobody awaits. `excused` is history: the cases the driver cannot tell from a finished rollout. A request may break off (`Throws`), a wait
may be interrupted (`Interrupted`).

**`KubeClient`** The three specs that change the cluster through it: title and restart, namespace deletion under a watch,
route for the metrics. The Deployment's controller is external; it makes no more than `MaxPods` pods at a time, those that end
included. `KubeThrows` and `KubeInterrupted` are again requests and waits.

**`MSClient`** The requests of concurrent jobs to one app registration and one security group; `stale`
marks a list another job has written since it was read, `overwritten` the jobs whose URL came or went with such a
list. A request that breaks off may have been done all the same (`BrokenOff`): a URL is registered or gone, a rule
there, without an answer.

**`E2ETests`** One of the drivers runs; the others rest.

The `MC` modules only define constants; `_proofs` modules hold the theorems.

## 4. Runs

| Run | Instance | Shows |
|---|---|---|
| `lock_exclusion` | 3 instances, 2 starts each | the refinement, `WorkersBounded`, `WaiterProgress` |
| `lock_comment` (violated) | same | `Mutex`, what the comment says, fails: a SIGTERM to a waiting instance deletes the lock of the one at work |
| `lock_remedy` (violated) | same, the operator deletes the file the document names | the waiter waits for ever: the file has another name |
| `install_reconcile` | 7 configurations, 5 sources of up to 2 versions, 1 abort | what the volume holds during and after runs |
| `install_header` (violated) | same, no abort | one successful run does not always leave each enabled plugin: the sweep deletes it |
| `config_merge` | up to 3 fragments of two keys, nested once (`Depth` 2, the least that nests), two values, empty mappings at both levels | result and clash agree with the reference |
| `sign_in` | 10 configurations, 3 people, 3 groups and another entity in 3 catalogs, 2 sign-ins or restarts, 1 change of users | right user, refusals with a reason, complete and justified ownership, the list of licensed users, every sign-in ends |
| `app_pages` | the built-in entries and up to 4 of 6 plugins in every order; 9 entities, 3 sets of overrides, cards of every kind of condition; 4 lists of up to 6 plugins with 3 queries; every failure of the learning paths' requests; up to 3 providers, with every need of an earlier one, 3 further routes | placement, order, effect of a denied permission; no empty tab and no card without its tab; clicks kept; the right part of the table; loading ends; an error costs a provider and what needs it |
| `e2e_tests` | 2 workers, 1 reconfiguring test, loops of 2 polls; 3 pods; 3 CI jobs | checks are of what was configured, restarts apply, redirect URLs kept, nothing left behind, every spec ends |
| `sidebar_removed` (violated) | up to 2 plugins | with the admin item removed a denied permission crashes the page |
| `frontend_boot` | 3 configurations, 3 installations, 2 calls | isolation of failures, no undefined component, one app, page shown |
| `frontend_addons` (violated) | same | a documented techdocs addon in a module of its own is never loaded |

Why the bounds are enough. *Lock:* a violation of exclusion needs an owner, an instance
whose end deletes the lock and a third that enters; two starts let each come back after
a kill. *Installer:* two versions are enough for "the same or another", one abort for
every crash point, since its effect on the next two runs is what the settled properties
ask about; the seven configurations contain an entry that changes without its
archive, a new tag in the same directory, a clash, an override from the main list, a
disabled package, and the files `main` refuses. *Merge:* two fragments clash or not, a
third meets their union; two levels suffice for a mapping, empty or not, against a value at both ends and in both orders.
*Sign-in:* the groups are a cycle, two parents for one group, an entity that is no group, and a
group that is gone; the configurations are every outcome of registration (up, an unknown id, no
resolver, a resolver the factory lacks), a default chain of two and a declared one, a proxy, the guest entry, a page that names `guest`, no
environment; the profiles agree with their tokens, disagree in the first claim, in the second, or name
nobody. A second sign-in or restart meets what the first has written; one change of users falls into any
await. `TokenExpMin` and `TokenExpMax` are 2 and 4 so that one expiry is under them and one over.
*Entity page:* two cards at a point (one decides, one throws or hides) and overrides that reorder,
remove, move and add. *Table:* with pages of two, totals below, at and above one page and a last page that is
not full; three queries overtake one another. *Shell:* three providers of which the third may need
either, both or none of the others, or one that needs its successor; pages with and without a boundary. *Tests:* two polls are "not yet" and "in time or too late";
a second worker meets what the first left, and a test that reconfigures follows the first deployment; of
three jobs two collide and a third is undisturbed; of three pods one serves, one starts and one ends.
*Sidebar:* an item's fields come from at most three entries, and removal is a fourth.
*Bootstrap:* a static plugin, one with several modules, one with
a sign-in page, one that throws; two runs are enough for one to overtake the other.
`MaxRuns` stands for the changes of the effect's dependencies before there is a registry.

`CHECK_DEADLOCK FALSE` is used where the system may stop: instances that have used up
their starts, merges that are finished, a page that is shown or has crashed, sign-ins, queries and
tests that have used up their bound.

### Fairness

* `InstallLock`: each instance that runs continues (`Progress`), what an operator can
  clear is cleared. This asks that `main` ends; its subprocesses have no timeouts, so a registry
  that never answers would hold the lock, and that case is outside the assumption.
  No fairness on signals or starts.
* `SignIn`: the event loop runs what it can and each request to the catalog is answered or
  fails (`SignInStep`, the ownership resolution included). None on users, on changes of the catalog or on restarts.
* `LearningPaths`: its two requests are answered or fail, and React runs a pending effect.
* `E2ETests`: every request of a worker is answered or throws, a loop that polls goes on to its timeout, a signalled
  process ends, the server closes a watch, each job goes on. None on the cluster's controllers: a rollout may never
  finish, and the driver's timeout is what ends the wait. None on the interruption of a wait either: the promise for the
  deletion of a namespace has to be settled by its watch.
* `FrontendBootstrap`: each request is answered or rejected, and React runs a pending
  effect. No fairness on a second run. A single module that never settles holds the page; the code has
  no timeout.

## 5. Findings

1. A SIGTERM to an instance that waits removes the lock of the one at work (`lock_comment`).
2. The remedy in the documentation deletes a file of another name (`lock_remedy`).
3. An npm plugin whose entry changes but whose archive does not is extracted and then
   deleted by the sweep of the same run; the next run installs it (`install_header`; `SettledInstalls` is
   what does hold).
4. Removing the admin item as documented crashes the page of users without the RBAC
   permission (`sidebar_removed`).
5. Modules named only by techdocs addons are never loaded (`frontend_addons`).

Met while modelling and part of the models, without a run of their own:

* `docs/auth.md:24` names `saml` among the providers; the page offers it, the backend has no
  factory for it, and `init` throws for it, so no other provider is registered either.
* The page reads `auth.environment` with `getString`, which throws when it is absent; the backend takes
  `development` then.
* The `signInResolverFactories` of `oauth2Proxy` do not contain the resolver that is its default, so a
  configuration that names it ends the backend.
* Licensed users of every namespace are joined under `user:default/<name>`: users of other namespaces get no
  profile, and a namesake's may be shown.
* A changed `auth.backstageTokenExpiration` shifts the last sign-in of everyone who signed in before it.
* Sorting the plugin table by *Preinstalled* throws as soon as one plugin is not preinstalled.
* A tab's conditions are called without the API context that its cards' conditions get.
* An answer of `null` for the learning paths is neither value nor error: the page goes on loading.
* Of two clicks in the context menu between two renders one is lost.
* `merge` depends on the order of the plugins: `{a: {}}` and then `{a: x}` raises, the other way round the empty mapping is
  passed over. The empty mappings that the repository ships are where plugins of one name (`gitlab`, `ldapOrg`) put their settings.
* In `KubeClient.restartDeployment`, zero available replicas are taken for zero pods.
* A page without a boundary of its own that throws takes the innermost provider out for all pages, and
  each further error the next one; the last leaves the page blank.
* The documentation names `techdocsPlugin.externalRoutes` among the static targets of route bindings
  (`frontend-plugin-wiring.md:257`); `bindAppRoutes.ts:32` does not know it, and such a binding is left
  out without a word. A target that is there is bound to `undefined` where the other plugin is not.
* The settings of an auth provider are hidden when its API is one of the configured `apiFactories`: only
  the APIs of plugins are looked through (`SettingsPages.tsx:37`).
* The error for a local page that still answers after a kill is thrown inside the `try` that expects one.

### What the properties except

Where the code has a defect that nothing in the repository promises to be absent, the property excepts it by name, and
shows that nothing else goes wrong. The exceptions are the code's own behaviour, and would be findings if a document or a test said
otherwise:

| Property | Exception | Where |
|---|---|---|
| `DigestHonest`, `SettledFresh` | a tag that moves between the copy of the content and the question for its digest | `install-dynamic-plugins.py:400` |
| `OnlyRbacStripped` | a stripped item does not come back when the permission is granted | `Root.tsx:400` |
| `CheckedCurrent`, `CheckedIngested` | conditions written before the controller saw the change (`Behind`), or after it gave up on the new pod (`Stuck`) | `rhdh-deployment.ts:383` |
| `RestartApplies` | a 0 that is read while a pod stays: it was not available just then, or the request to scale was lost | `kube-client.ts:155` |
| `RedirectKept`, `LeftClean` | a job whose own URL came or went with another job's overtaken list | `msgraph-helper.ts:335` |
| `LeftClean` | a rule that is there though the request for it failed; a job that died or failed in the hook that cleans up | `msgraph-helper.ts:541` |
| `ListedRight` | a token life that was another when the user signed in; namesakes in two namespaces | `readBackstageTokenExpiration.ts:38`, `catalogStore.ts:33` |
| `MenuKept` | two changes between two renders | `ContextMenuAwareEntityLayout.tsx:36` |
| `CardsShown` | conditions that look up an API hide a tab whose card would be shown | `DynamicEntityTab.tsx:54` |
| `TableRight` | the error that replaces the table when it is sorted by *Preinstalled* | `DynamicPluginsTable.tsx:107` |

## 6. Proofs

The theorems hold for every value of the constants that meets the named assumptions of the modules, which
every run evaluates. They say what the program's inputs are, and nothing about what it does with them:

* `InstallLock`: `InstancesAssumption` (finitely many), `MaxStartsAssumption`.
* `PluginInstall`: `EntriesAssumption` (entries name a package with a source, and `allPlugins`, a dict, has one
  entry for a package), `PlacesAssumption` (every package and version has a directory, an image's plugin the one
  in its name), `BoundsAssumption`.
* `ConfigMerge`: `NodesAssumption` (the base configuration's keys and value occur, configurations have some greatest
  depth), `FragmentsAssumption` (fragments are mappings).
* `GroupOwnership`: `RefsAssumption` (finitely many), `RelationsAssumption`, `CatalogsAssumption`.
* `FrontendBootstrap`: `ConfigsAssumption` (entries have the fields of the types in `extractDynamicConfig.ts`, a
  menu item is that of a route of its plugin), `StaticAssumption`, `BareAssumption`, `PluginApisAssumption`,
  `MaxRunsAssumption` (the effect runs).
* `AuthProviders`, `SignIn`, `LicensedUsers`: `AuthConfigsAssumption` (shape of the configuration),
  `UnsetAssumption` (no provider is called like a missing key), `ProfilesAssumption`, `PeopleAssumption`
  (finitely many), `ExpiryAssumption` (the default token life lies in the range it is clamped to).
* `E2ETests`: `DriverBoundsAssumption`, `WorkerBoundsAssumption`, `PodBoundsAssumption` (there may be a pod),
  `FirstPriorityAssumption`.
* `SidebarMenu`: `FrontendsAssumption`, `ItemsAssumption` (items have names and integer priorities; the path `/` has no
  item).
* `EntityPage`: `EntitiesAssumption`, `TabSetsAssumption` (overrides have a path, each path at most once,
  a mount point and an integer priority), `MountPointsAssumption` (cards have a condition with a list of tests).
* `DynamicPluginsTable`: `NamesAssumption` (finitely many names, each loaded and preinstalled once at most, versions that
  are not empty, a page that holds a row).
* `AppShell`: `ShellsAssumption` (what is mounted has an id, no two providers the same, and names what it needs).

**`InstallLock_proofs`** `IInv` adds two facts to `TypeOK`. `OwnerHolds`: an owner means that the
file is there and its owner is past `create_lock`. `RemovalsPaidFor`: the instances past the lock
or about to delete it (`Section`) number at most one for a living owner and one for each
SIGTERM counted in `hits`. `WorkersBounded` is not inductive alone: an instance that
exits is going to delete a lock, whoever's it is, and thereby lets another one in, so
those have to be counted too. Proved: `TypeCorrect`,
`WorkersBoundedAlways`, `MutexUntilHit`, and `ImplementsExclusion` (safety part of the
refinement: each step is an `Enter`, a `Leave` or a stutter).

**`PluginInstall_proofs`** `IInv` is `TypeOK` with `FetchOK` (from the fetch to the hash
file the entry at hand stays the same, and what was fetched for it is what its integrity
hash identifies), `TargetOK` (how far the replacement of the directory has come at each
place of the run) and the three properties. `HashedComplete` is not inductive without
`TargetOK`: that a hash file is written only into a complete directory rests on what the
run has done before. Proved: `TypeCorrect`,
`HashedCompleteAlways`, `IntegrityAlways`, `DigestHonestAlways`. The last three have the exceptions their statements
name: a killed `rmtree`, a tag moved between copy and second look.

The second half of the module is about what successful runs lead to, on top of that invariant. `TodoOK`: a run works
through the entries of one configuration, each of them once. `ConfigOK`: the configuration in memory holds the
fragments of the entries handled so far and no other keys. `PlaceOK`: a hash is found only in a directory of its entry's, and
`plugin_path_by_hash` lists none of an entry that is handled. `CleanOK`: every directory is an enabled
plugin's, or listed to be swept, or the one at work; two directories never share a hash. `FreshOK`: a handled image that is pulled every time has the
published content. `SettleOK`: what each enabled plugin can count on at the end of this run, for one
that is handled (`HandledOK`), one that is not yet (`WaitingOK`) and the one at work; it ties the
directories of one run to the sweep of the next. `QuietOK`: from the second successful run on nothing is fetched,
and the sweep takes nothing of an enabled plugin.
Proved: `GlobalFileAlways`, `SettledCleanAlways`, `SettledFreshAlways`, `SettledInstallsAlways`, `OnlyOnceAlways`
(an action property). None is inductive alone: the settled properties speak of two whole runs.

**`ConfigMerge_proofs`** A recursive function has a value only where one is shown to exist: `LevelsExist`, `TreesExist` and
`MergesExist` do so for nodes of each depth from those of the depth below (`AllDepths`, by the least
counterexample). `Merging` is the contract of `merge`, for every mapping and every destination, empty or not: it raises
exactly if the source redefines an entry of the destination (`Redefines`), and otherwise returns a mapping whose entries are those of both
together. `KeyMerged` shows it for one key of the loop, from the contract one level down, `MergesMeetContract` for all depths.
`EntriesOf` and `ClashOf` carry it from one merge to the fragments so far: `Together` may be applied at each step or once at the end, and a
configuration that raised stays raised (`OneMore`). Proved: `UnionOfFragmentsAlways`, `RaisesIffClashAlways`, for any number and
order of fragments and any depth.

**`GroupOwnership_proofs`** The theorems are about the resolution alone, from any direct groups and any
catalog; `sign_in` checks the same invariants within whole sign-ins. `IInv` relates the stack to the processed set. `NothingLost`: every
relation from a processed group leads to a processed one or to one that a call
on the stack still has to look at. `NothingInvented`: what is on the stack or processed lies in every set that holds
the direct groups and is closed under the relations ever seen. `FoundOK`: the calls have
found between them exactly what was processed. `DepthOK`: every call but the innermost
has a processed group to itself. Proved: `TypeCorrect`, `CompleteAlways`, `JustifiedAlways`,
`DepthBoundedAlways`.

**`FrontendBootstrap_proofs`** `Inv` is `KnownConfig`, `Progress` (the phases of loading), `LoadedOK` (what each
call has loaded is exported and listed, and every required module without a fault is loaded or waited for), `AppOK`
(the app holds what its call had resolved, its bindings, and the first sign-in page that works) and `RegistryOK`. A call
that has finished keeps nothing of its state, so `AppOK` has to say of the app itself what it was
made from. Faults are never forgotten, so less is asked as more are met (`FaultsGrow`). Proved: `IsolatedAlways`,
`OnlyOfferedAlways`, `FirstWorkingSignInAlways`, `AppKeptAlways` (an action property).

**`SignIn_proofs`** `SignInInv` is `BackendOK` (what is registered has a resolver the factory knows), `LicensedInv`
(times and rows), `SessionInv` with `SessionOK` (the page's provider is configured, known together with all others and not disabled; the
chain has its own resolvers and, in a backend that is up, is the one `Chain` gives now) and `IInv` of the group resolution, which is at its start whenever no sign-in is at it
(`RestOK`). Within `SessionInv`, `AttemptOK` is the part that carries the argument: every resolver tried
so far does not work, and the one at work looks for the claim it was asked for. A resolver works when the
catalog had the same one user for it all through the sign-in, so users who come and go leave no
resolver working that did not before (`WorksShrinks`), and what has been passed over stays rightly passed over.
Proved: `SessionOKAlways`, `RightUserAlways`, `RefusedWithReasonAlways`, `ListedRightAlways`, `OwnershipAlways`; the
theorems about the group resolution hold there for any number of sign-ins one after the other.

**`E2ETests_proofs`** The drivers rest but for one (`PlaceOK`), and each has an invariant of its own. `MSInv`: a list that nobody has overtaken since it was
read (`stale` says which) is the current one; a URL that no overtaken list has touched is there only from its job's own write to
the end of the hook after the tests, and during the tests it is; a rule is there only while its creation is awaited or a cleanup
function will delete it. A request that breaks off has the effects of one that is answered, or none. `RestartInv`: from
the scaling down on, every pod that is there to stay has the new title. `ClusterInv`: what the
conditions say of the pods they were computed from. `DeploymentInv`: `ServersOK` and `LocalOK` for
local processes (the one waited for is the newest, a process that has ingested is alone), `RemoteOK` for the
cluster (once the driver has seen the rollout finished the template is what it wrote, unless `excused`
holds a reason). Proved, for any number of jobs, tests, retries, polls and pods: `RedirectKeptAlways`,
`LeftCleanAlways`, `RestartAppliesAlways`, `CheckedCurrentAlways`, `CheckedIngestedAlways`.

**`AppPages_proofs`** The pages share nothing, so each has an invariant of its own, kept by the steps of all the others.
`ArrangedFacts` is the lemma most of it rests on: what `StableSort` makes of finitely many places and a strict total
order lists every place once and in that order. It needs that a place has as many predecessors as its number says, which is a
count and no induction over the list.

* Menu: `MenuInv`, the handlers work on the wanted states unless something was changed since the last render.
* Shell: `ShellInv`, unless a page without a boundary has thrown or lacked a context the shell stands, and no provider is out that could
  be spared (`Spared`). The boundary that ends up with an error is the one of the earliest arrangement that stands; one
  that stands down to some depth stands as a whole with the spared providers, and only them, within (`Candidate`), so the
  earliest leaves none of them out (`EarliestSpares`).
* Entity page: overrides and cards do not change (`PageInv`), and `CardsShown` is about one state. A condition that is met without the API
  context is met with it (`MetWithContext`), and the other way round unless it looks up an API (`MetWithoutContext`);
  a tab that is shown by its rule, or as one that is always there, has static content (`RuledContent`).
* Sidebar: `ItemMapFacts` gives the recursive function of `ItemMap` its value at each number, by a least number at which
  it had another one. `MergedFrom` says what the map holds after so many items: each name once, in the order of
  first mention, each field with the last value said of it. `SidebarInv` says of the top level and of each
  item's children that they are exactly the names that belong there, once and in order (`Listed`), less the RBAC item when
  it was stripped; `ChainsDown` turns lists of children into the chains that are rendered.
* Table: `TableInv`, all queries that are waited for or shown fit what is loaded (`QueryFits`: the first page, or one that the
  matches reach), which is why `fetchData` may ignore the page when all rows fit on one. `SortOrders`: unless
  the sort throws, the comparison makes a strict total order of the rows which respects the query, though of two Booleans it
  looks at one. `FoundOrdered` then has the matching rows in order and `FetchedPage` their part that is the page;
  the property counts rows, and `CountedByPlaces` counts them by their places.

Proved, for any plugins, items, entities, overrides, cards, providers, loaded lists and orders of answers:
`MenuKeptAlways`, `ShellHoldsAlways`, `CardsShownAlways`, `PlacedAlways`, `OrderedAlways`, `OnlyRbacStrippedAlways`,
`TableRightAlways`.

### What the proofs found

* `RefusedWithReason` was false for a page that names `guest` (`signInPage: guest`), which then offers GitHub like a
  page that names none; no configuration of the run had one. Property and run have it now.
* `SettledClean` does not hold for packages of a local path that is packed on every run: each version has a directory
  of its own under one hash, and `plugin_path_by_hash` knows only one of them. `Repacked` excepts them.
* `SettledInstalls` and `OnlyOnce` need that no two enabled plugins share a directory (`OwnPlaces`): otherwise one
  replaces the other in each run.
* That a plugin of a local path stays as it is during a run was not said: it is a part of the container image.
* That the bootstrap's effect runs at all (`MaxRuns` is not 0) was not said.
* `GoesBefore` compared the values of `internal` as numbers; the code takes the branch for Booleans, as for `enabled`.
* That sidebar items have names was not said: the path `/` gives an empty one, which as a parent counts for none.

### Only model-checked

* All liveness, and the implementation of the abstract mutual exclusion's fairness: out of the prover's reach.

## 7. Not modelled

The parts marked so in `PROJECT.json`: the backend's wiring,
`plugin-utils` and the wrappers, which keep no state and decide nothing; plugin copying, a
build step apart from the running system (planned; two packages whose names map to one destination would be
removed and copied at once); CI pipelines, shell scripts around `oc` and `helm`, and
browser tests, which are sequences of clicks and assertions.

Left out of parts that are modelled:

* licensed users: `/users/quantity`, `/health`, the CSV form, parsing of dates;
* sign-in: the authenticators' exchanges with identity providers, and refreshing a session;
* entity page: layout of cards and the mount points `context`;
* frontend: the contents of icons, themes and API factories, and which of two for one name wins; the
  settings of the built-in auth providers;
* shell: listeners and headers, columns of the catalog, `ConfigUpdater`, the contents of `App.tsx`;
* sidebar: open submenus, names that look like integers, the path `/`;
* plugin table: an older answer shown after a newer one is the table component's affair (external); the
  properties speak of the answer that is shown and the query it answers;
* test drivers: the page objects, assertions on the UI, creation and deletion of users and groups in
  identity providers, contents of configuration beyond what tests tell apart;
* installer: the archive's structure, `SKIP_INTEGRITY_CHECK`.
