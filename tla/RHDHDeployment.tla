--------------------------- MODULE RHDHDeployment ---------------------------
(***************************************************************************)
(* The driver of the authentication-provider tests: class RHDHDeployment   *)
(* of e2e-tests, called in the order of the four specs that use it. One    *)
(* Playwright worker runs a spec: it clears the namespace, creates the     *)
(* objects, deploys and waits, and for each test changes the configuration *)
(* and waits again. A worker whose hooks or tests fail gives way to a new  *)
(* one. The same driver runs rhdh as a local process.                      *)
(*                                                                         *)
(* Every await is a step. A loop with a timeout polls at most MaxPolls     *)
(* times.                                                                  *)
(***************************************************************************)
EXTENDS Cluster, TestWorker

CONSTANTS
  Resolvers,    \* the resolvers that the tests configure
  MaxTests      \* the tests of a spec that change the configuration

ASSUME DriverBoundsAssumption == MaxTests \in Nat

VARIABLES
  local,            \* isRunningLocal
  login,            \* the identity provider of the spec
  tests,            \* how many tests have changed the configuration
  appConfig, pluginsConfig, rbacConfig, secretData,   \* what the driver holds
  activeWait,       \* the call of waitForNamespaceActive that nobody awaits
  followed,         \* the pod or process whose log is followed
  files,            \* local: what has been written for the next start
  servers,          \* local: the processes started, living or not
  runningProcess,   \* local: the one the driver knows, or 0
  excused           \* history: why the backend may not be the one asked for

configVars == <<appConfig, pluginsConfig, rbacConfig, secretData>>
localVars == <<files, servers, runningProcess>>
flowVars == <<local, login, tests>>
driverVars == <<flowVars, configVars, activeWait, followed, localVars, excused>>
deploymentVars == <<driverVars, clusterVars>>

Logins == {"oidc", "ldap", "microsoft", "github"}

\* The section of auth.providers that a login uses.
AuthOf(l) == IF l = "ldap" THEN "oidc" ELSE l

NoResolver == "default"

-----------------------------------------------------------------------------
(* The configuration that the driver edits in memory.                      *)

NoAuth == [p \in {} |-> NoResolver]

BaseAppConfig == [ingestion |-> "none", auth |-> NoAuth, signInPage |-> "none",
                  rootDirectory |-> FALSE]

SetAppConfigProperty(path, value) == [appConfig EXCEPT ![path] = value]

\* auth.providers.<p> becomes the object given, whatever was in it.
SetProvider(config, p) == [config EXCEPT !.auth = Put(@, p, NoResolver)]

EnableLogin(ingestion, p) ==
  [SetProvider(appConfig, p) EXCEPT !.ingestion = ingestion, !.signInPage = p]

EnableOIDCLoginWithIngestion == EnableLogin("keycloakOrg", "oidc")

EnableLDAPLoginWithIngestion == EnableLogin("ldapOrg", "oidc")

EnableMicrosoftLoginWithIngestion == EnableLogin("microsoftGraphOrg", "microsoft")

EnableGithubLoginWithIngestion == EnableLogin("githubOrg", "github")

LoginEnabled ==
  CASE login = "oidc" -> EnableOIDCLoginWithIngestion
    [] login = "ldap" -> EnableLDAPLoginWithIngestion
    [] login = "microsoft" -> EnableMicrosoftLoginWithIngestion
    [] login = "github" -> EnableGithubLoginWithIngestion

\* setDynamicPluginEnabled(plugin, true): set in the entry, or a new entry.
SetDynamicPluginEnabled(plugin) == pluginsConfig \cup {plugin}

SetResolver(config, r) == [config EXCEPT !.auth = Put(@, AuthOf(login), r)]

\* What the objects hold once the driver has written all of them.
Wanted ==
  [n \in ObjectNames |-> CASE n = AppConfig -> appConfig
                          [] n = DynamicPlugins -> pluginsConfig
                          [] n = RbacPolicy -> rbacConfig
                          [] n = Secret -> secretData]

-----------------------------------------------------------------------------
DriverInit ==
  /\ local \in BOOLEAN /\ login \in Logins
  /\ tests = 0
  /\ appConfig = BaseAppConfig /\ pluginsConfig = {} /\ rbacConfig = "base" /\ secretData = 0
  /\ activeWait = "no" /\ followed = 0
  /\ files = NoObjects /\ servers = NoPods /\ runningProcess = 0
  /\ excused = {}

DeploymentInit == ClusterInit /\ DriverInit

(* A request is refused or breaks off, and the exception ends the test.    *)
Fail == FailTo("afterAll")

LoadBaseConfig == appConfig' = BaseAppConfig

LoadDynamicPluginsConfig == pluginsConfig' = {}

LoadRbacConfig == rbacConfig' = "base"

LoadAllConfigs ==
  /\ Goto("load", "deleteNamespace")
  /\ LoadBaseConfig /\ LoadDynamicPluginsConfig /\ LoadRbacConfig
  /\ UNCHANGED <<flowVars, secretData, activeWait, followed, localVars, excused, clusterVars>>

DeleteNamespaceIfExists ==
  /\ pc = "deleteNamespace"
  /\ IF local \/ namespace = "none"
     THEN Goto("deleteNamespace", "createNamespace") /\ UNCHANGED namespace
     ELSE Goto("deleteNamespace", "namespaceGone") /\ namespace' = "terminating"
  /\ UNCHANGED <<flowVars, configVars, activeWait, followed, localVars, excused,
                 objects, crd, cr, template, revision, observed, conditions, pods>>

PollNamespaceGone ==
  /\ pc = "namespaceGone"
  /\ IF namespace = "none" THEN Goto("namespaceGone", "createNamespace")
     ELSE PollAgain \/ (TimedOut /\ Fail)
  /\ UNCHANGED <<flowVars, configVars, activeWait, followed, localVars, excused, clusterVars>>

(* The specs do not await the wait for the namespace. A 409 is as good as  *)
(* a new namespace.                                                        *)
CreateNamespace ==
  /\ Goto("createNamespace", "createAppConfig")
  /\ namespace' = IF ~local /\ namespace = "none" THEN "new" ELSE namespace
  /\ activeWait' = IF local THEN "no" ELSE "polling"
  /\ UNCHANGED <<flowVars, configVars, followed, localVars, excused,
                 objects, crd, cr, template, revision, observed, conditions, pods>>

\* Its timeout is an exception that nobody catches: Playwright fails the test.
WaitForNamespaceActive ==
  /\ activeWait = "polling" /\ pc \notin {"over", "done"}
  /\ \/ namespace = "active" /\ activeWait' = "active" /\ UNCHANGED workerVars
     \/ namespace # "active" /\ activeWait' = "failed" /\ Fail
  /\ UNCHANGED <<flowVars, configVars, followed, localVars, excused, clusterVars>>

-----------------------------------------------------------------------------
(* Config maps and the secret, or the files of a local run.                *)

WriteFile(name, value) ==
  /\ files' = Put(files, name, value)
  /\ UNCHANGED <<objects, servers, runningProcess>>

(* A namespace that ends takes no object, and an object that is there is   *)
(* a conflict.                                                             *)
CreateObject(name, value) ==
  /\ namespace \in {"new", "active"} /\ name \notin DOMAIN objects
  /\ objects' = Put(objects, name, value)
  /\ UNCHANGED localVars

UpdateObject(name, value) ==
  /\ namespace \in {"new", "active"} /\ name \in DOMAIN objects
  /\ objects' = [objects EXCEPT ![name] = value]
  /\ UNCHANGED localVars

WroteObjects ==
  UNCHANGED <<flowVars, pluginsConfig, rbacConfig, activeWait, followed, excused,
              namespace, crd, cr, template, revision, observed, conditions, pods>>

CreateAppConfig ==
  /\ Goto("createAppConfig", "createPlugins")
  /\ IF local THEN WriteFile(AppConfig, appConfig) ELSE CreateObject(AppConfig, appConfig)
  /\ UNCHANGED <<appConfig, secretData>> /\ WroteObjects

(* The local branch also sets the plugins' directory and writes the        *)
(* application's configuration a second time.                              *)
CreateDynamicPluginsConfig ==
  /\ Goto("createPlugins", "createRbac")
  /\ IF local
     THEN LET config == SetAppConfigProperty("rootDirectory", TRUE) IN
          /\ appConfig' = config
          /\ files' = Put(Put(files, AppConfig, config), DynamicPlugins, pluginsConfig)
          /\ UNCHANGED <<objects, servers, runningProcess>>
     ELSE CreateObject(DynamicPlugins, pluginsConfig) /\ UNCHANGED appConfig
  /\ UNCHANGED secretData /\ WroteObjects

CreateRbacConfig ==
  /\ Goto("createRbac", "createSecret")
  /\ IF local THEN WriteFile(RbacPolicy, rbacConfig) ELSE CreateObject(RbacPolicy, rbacConfig)
  /\ UNCHANGED <<appConfig, secretData>> /\ WroteObjects

CreateAllConfigs == CreateAppConfig \/ CreateDynamicPluginsConfig \/ CreateRbacConfig

(* A local process finds the secret in its environment.                    *)
AddSecretData(value) ==
  /\ secretData' = value
  /\ local => WriteFile(Secret, value)

\* A new token for each worker.
GenerateStaticToken == AddSecretData(worker)

CreateSecret ==
  /\ Goto("createSecret", "enableLogin")
  /\ GenerateStaticToken
  /\ ~local => CreateObject(Secret, secretData')
  /\ UNCHANGED appConfig /\ WroteObjects

\* The spec of ldap sets a resolver before the first start.
EnableLoginStep ==
  /\ Goto("enableLogin", "updateAppConfig")
  /\ \E r \in Resolvers : appConfig' = IF login = "ldap" THEN SetResolver(LoginEnabled, r)
                                       ELSE LoginEnabled
  /\ pluginsConfig' = SetDynamicPluginEnabled(login)
  /\ UNCHANGED <<flowVars, rbacConfig, secretData, activeWait, followed, localVars, excused,
                 clusterVars>>

UpdateAppConfig ==
  /\ Goto("updateAppConfig", "updatePlugins")
  /\ IF local THEN WriteFile(AppConfig, appConfig) ELSE UpdateObject(AppConfig, appConfig)
  /\ UNCHANGED <<appConfig, secretData>> /\ WroteObjects

UpdateDynamicPluginsConfig ==
  /\ Goto("updatePlugins", "updateRbac")
  /\ IF local THEN WriteFile(DynamicPlugins, pluginsConfig)
     ELSE UpdateObject(DynamicPlugins, pluginsConfig)
  /\ UNCHANGED <<appConfig, secretData>> /\ WroteObjects

\* The last of updateAllConfigs: the first time a start follows it, then a restart.
UpdateRbacConfig ==
  /\ \/ tests = 0 /\ Goto("updateRbac", IF local THEN "spawn" ELSE "awaitCRD")
     \/ tests > 0 /\ Goto("updateRbac", IF local THEN "kill" ELSE "waitReady")
  /\ IF local THEN WriteFile(RbacPolicy, rbacConfig) ELSE UpdateObject(RbacPolicy, rbacConfig)
  /\ UNCHANGED <<appConfig, secretData>> /\ WroteObjects

UpdateAllConfigs == UpdateAppConfig \/ UpdateDynamicPluginsConfig \/ UpdateRbacConfig

-----------------------------------------------------------------------------
(* createBackstageDeployment and the waits.                                *)

EnsureBackstageCRIsAvailable ==
  /\ pc = "awaitCRD"
  /\ IF crd THEN Goto("awaitCRD", "applyCR") ELSE PollAgain \/ (TimedOut /\ Fail)
  /\ UNCHANGED <<flowVars, configVars, activeWait, followed, localVars, excused, clusterVars>>

ApplyCustomResource ==
  /\ Goto("applyCR", "waitReady")
  /\ namespace = "active" /\ ~cr /\ cr' = TRUE
  /\ UNCHANGED <<flowVars, configVars, activeWait, followed, localVars, excused,
                 namespace, objects, crd, template, revision, observed, conditions, pods>>

\* Mutant: a rollout under way is ready.
ReadyAvailable == Deployed /\ "Available" \in conditions

\* The conditions of the only Deployment; its replicas are the resource's.
Ready == Deployed /\ "Available" \in conditions /\ "Progressing" \notin conditions

WaitForDeploymentReady ==
  /\ pc = "waitReady"
  /\ IF local \/ Ready
     THEN /\ Goto("waitReady", "follow")
          /\ excused' = IF local THEN excused
                        ELSE {e \in {"behind", "stuck"} : \/ e = "behind" /\ Behind
                                                          \/ e = "stuck" /\ Stuck}
     ELSE (PollAgain \/ (TimedOut /\ Fail)) /\ UNCHANGED excused
  /\ UNCHANGED <<flowVars, configVars, activeWait, followed, localVars, clusterVars>>

\* Mutant: a pod that is being deleted is followed too.
ActivePodsAll == Listed

\* The running pods of the API's list without those that are being deleted.
ActivePods == {r \in Listed : pods[r].phase # "terminating"}

\* The first active pod, in no order the API promises.
FollowPodLogs == followed' \in ActivePods

FollowLocalLogs == followed' = runningProcess

FollowLogs ==
  /\ Goto("follow", "synced")
  /\ IF local THEN FollowLocalLogs ELSE FollowPodLogs
  /\ UNCHANGED <<flowVars, configVars, activeWait, localVars, excused, clusterVars>>

Logged ==
  IF local THEN followed \in DOMAIN servers /\ servers[followed].ingested
  ELSE followed \in DOMAIN pods /\ pods[followed].ingested

(* The last line of the log and all that follow are searched; a pod that   *)
(* ends takes its log with it.                                             *)
WaitForSynced ==
  /\ pc = "synced"
  /\ IF Logged THEN Goto("synced", "check") ELSE PollAgain \/ (TimedOut /\ Fail)
  /\ UNCHANGED <<flowVars, configVars, activeWait, followed, localVars, excused, clusterVars>>

-----------------------------------------------------------------------------
(* The local process: a shell, the process group under it, and the port.   *)

Alive(n) == servers[n].shell \/ servers[n].children

\* The process that has the port: the first one whose children live.
PortOwners == {n \in DOMAIN servers :
                 servers[n].children /\ \A k \in DOMAIN servers : k < n => ~servers[k].children}

OnlyLocal ==
  UNCHANGED <<flowVars, configVars, activeWait, followed, files, clusterVars>>

Spawn ==
  /\ Goto("spawn", "waitReady")
  /\ LET n == Cardinality(DOMAIN servers) + 1 IN
     /\ servers' = Put(servers, n, [config |-> files, shell |-> TRUE, children |-> TRUE,
                                     signalled |-> FALSE, ingested |-> FALSE])
     /\ runningProcess' = n
  /\ excused' = {}
  /\ OnlyLocal

CreateBackstageDeployment == EnsureBackstageCRIsAvailable \/ ApplyCustomResource \/ Spawn

\* The hook of the ldap spec does not kill the process.
Kills == login # "ldap"

(* restartLocalDeployment, and the afterAll hook: the group is signalled,  *)
(* which throws when there is nothing left of it.                          *)
KillRunningProcess ==
  /\ pc = "kill" \/ (pc = "afterAll" /\ Kills)
  /\ runningProcess # 0
  /\ IF Alive(runningProcess)
     THEN /\ servers' = [servers EXCEPT ![runningProcess].signalled = TRUE]
          /\ Leave(IF pc = "kill" THEN "exit" ELSE "lastExit")
     ELSE FailTo(IF pc = "kill" THEN "afterAll" ELSE "over") /\ UNCHANGED servers
  /\ UNCHANGED <<runningProcess, excused>> /\ OnlyLocal

(* The exit of the shell. That the page should be gone then is looked at,  *)
(* but the error for a page that still answers is thrown inside the try    *)
(* whose catch expects one, and is lost.                                   *)
ProcessExited ==
  /\ pc \in {"exit", "lastExit"} /\ ~servers[runningProcess].shell
  /\ runningProcess' = 0
  /\ Leave(IF pc = "exit" THEN "spawn" ELSE "over")
  /\ UNCHANGED <<servers, excused>> /\ OnlyLocal

NothingToKill ==
  /\ \/ pc = "kill" /\ runningProcess = 0
     \/ pc = "afterAll" /\ (runningProcess = 0 \/ ~Kills)
  /\ Leave(IF pc = "kill" THEN "spawn" ELSE "over")
  /\ UNCHANGED <<servers, runningProcess, excused>> /\ OnlyLocal

RestartLocalDeployment == KillRunningProcess \/ ProcessExited \/ NothingToKill

ServerStep(n, server) ==
  /\ servers' = [servers EXCEPT ![n] = server]
  /\ UNCHANGED <<flowVars, workerVars, configVars, activeWait, followed, files, runningProcess,
                 excused, clusterVars>>

ShellExits(n) ==
  servers[n].signalled /\ servers[n].shell /\ ServerStep(n, [servers[n] EXCEPT !.shell = FALSE])

ChildrenExit(n) ==
  servers[n].signalled /\ servers[n].children
  /\ ServerStep(n, [servers[n] EXCEPT !.children = FALSE])

ServerCrashes(n) ==
  servers[n].shell /\ ~servers[n].signalled
  /\ ServerStep(n, [servers[n] EXCEPT !.shell = FALSE, !.children = FALSE])

ServerIngests(n) ==
  n \in PortOwners /\ ~servers[n].ingested
  /\ ServerStep(n, [servers[n] EXCEPT !.ingested = TRUE])

ServerEnds == \E n \in DOMAIN servers : ShellExits(n) \/ ChildrenExit(n)

ServerNext ==
  ServerEnds \/ \E n \in DOMAIN servers : ServerCrashes(n) \/ ServerIngests(n)

-----------------------------------------------------------------------------
(* The tests.                                                              *)

\* The backends behind the URL of the backend: what has the port, or the route's pods.
Backends == IF local THEN {servers[n] : n \in PortOwners} ELSE {pods[r] : r \in Running}

\* A catalog check: the token is accepted, and users and groups are there.
CatalogChecked(backend) ==
  backend.config[Secret] = secretData /\ backend.ingested

\* A login that the configured resolver decides.
LoginChecked(backend) == backend.config[AppConfig] = appConfig

(* Whichever backend answers, the test goes on or fails with it.           *)
Check ==
  /\ pc = "check"
  /\ \/ /\ \E b \in Backends : LoginChecked(b) /\ CatalogChecked(b)
        /\ Leave(IF tests < MaxTests THEN "configure" ELSE "afterAll")
     \/ /\ Backends = {} \/ \E b \in Backends : ~LoginChecked(b) \/ ~CatalogChecked(b)
        /\ Fail
  /\ UNCHANGED <<flowVars, configVars, activeWait, followed, localVars, excused, clusterVars>>

(* A test sets its resolver; some enable the login again first, which      *)
(* takes an earlier test's resolver out.                                   *)
Configure ==
  /\ Goto("configure", "updateAppConfig")
  /\ tests' = tests + 1
  /\ \/ \E r \in Resolvers : appConfig' = SetResolver(appConfig, r)
     \/ \E r \in Resolvers : appConfig' = SetResolver(LoginEnabled, r)
  /\ UNCHANGED <<local, login, pluginsConfig, rbacConfig, secretData, activeWait,
                 followed, localVars, excused, clusterVars>>

\* The places where the driver waits for the cluster or a process to change.
Waits == {"namespaceGone", "awaitCRD", "waitReady", "synced", "exit"}

AwaitFails ==
  /\ Fail
  /\ UNCHANGED <<flowVars, configVars, activeWait, followed, localVars, excused, clusterVars>>

\* A request is refused or breaks off, or a step of the driver throws.
Throws ==
  pc \notin {"check", "configure", "afterAll", "lastExit", "over", "done"} \cup Waits /\ AwaitFails

\* A wait runs into the test's own timeout, or a poll throws; nothing relies on it.
Interrupted == pc \in Waits /\ AwaitFails

(* Playwright retries with a new worker, which knows nothing of the old    *)
(* one's process.                                                          *)
NextWorker ==
  /\ pc = "over" /\ NewWorker("load") /\ tests' = 0
  /\ secretData' = 0 /\ activeWait' = "no" /\ followed' = 0 /\ runningProcess' = 0
  /\ excused' = {}
  /\ UNCHANGED <<local, login, appConfig, pluginsConfig, rbacConfig, files, servers, clusterVars>>

Done ==
  /\ ~Retried /\ Goto("over", "done")
  /\ UNCHANGED <<flowVars, configVars, activeWait, followed, localVars, excused, clusterVars>>

Driver ==
  \/ LoadAllConfigs \/ DeleteNamespaceIfExists \/ PollNamespaceGone \/ CreateNamespace
  \/ CreateAllConfigs \/ CreateSecret \/ EnableLoginStep \/ UpdateAllConfigs
  \/ CreateBackstageDeployment \/ WaitForDeploymentReady \/ FollowLogs \/ WaitForSynced
  \/ RestartLocalDeployment \/ Check \/ Configure \/ Throws \/ NextWorker \/ Done

DeploymentNext ==
  \/ Driver \/ Interrupted \/ WaitForNamespaceActive \/ ServerNext
  \/ ClusterNext /\ UNCHANGED <<driverVars, workerVars>>

-----------------------------------------------------------------------------
(* The tests assume what waitForDeploymentReady and waitForSynced are for: *)
(* when a login or the catalog is checked, every backend that may answer   *)
(* was started with the configuration the test has written and accepts its *)
(* token. The exceptions are the two the driver cannot tell: a Deployment  *)
(* whose controller has not seen the change, and one that gave up on the   *)
(* new pod. A local process that outlives its shell or its worker is none: *)
(* while it has the port the new one does not log what is waited for.      *)
CheckedCurrent ==
  pc = "check" /\ excused = {} =>
    \A b \in Backends : b.config = (IF local THEN files ELSE Wanted)

(* The log line that waitForSynced waits for comes from the backend that   *)
(* is then asked: its catalog holds the users and groups.                  *)
CheckedIngested ==
  pc = "check" /\ excused = {} => \A b \in Backends : b.ingested
=============================================================================
