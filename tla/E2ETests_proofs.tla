--------------------------- MODULE E2ETests_proofs ---------------------------
(***************************************************************************)
(* What the drivers of the end-to-end tests achieve, for any number of CI  *)
(* jobs, resolvers, polls, tests and retries.                              *)
(***************************************************************************)
EXTENDS E2ETests, FiniteSetTheorems, TLAPS

-----------------------------------------------------------------------------
(* MSClient: the redirect URLs and the rules of the CI jobs.               *)

MicrosoftSteps == {"getUrls", "addUrl", "test", "getUrlsAgain", "removeUrl", "done"}

LdapSteps == {"getRules", "createRule", "pollRule", "test", "cleanup", "done"}

StepOK(j) ==
  \/ job[j] = "microsoft" /\ step[j] \in MicrosoftSteps
  \/ job[j] = "ldap" /\ step[j] \in LdapSteps

(* A list that nobody has overtaken is the current one.                    *)
ListOK(j) == step[j] \in {"addUrl", "removeUrl"} /\ j \notin stale => currentUrls[j] = redirectUris

(* A URL that no overtaken list has touched is registered only from its    *)
(* job's own write until the end of the hook after the tests, and during   *)
(* the tests it is.                                                        *)
UrlOK(j) ==
  j \notin overwritten =>
    /\ j \in redirectUris => /\ job[j] = "microsoft"
                             /\ \/ step[j] \in {"test", "getUrlsAgain", "removeUrl"}
                                \/ step[j] = "done" /\ j \in faulted
    /\ job[j] = "microsoft" /\ step[j] = "test" => j \in redirectUris

(* A rule is there only while its creation is awaited or a cleanup         *)
(* function will delete it, or else its job is marked.                     *)
RuleOK(j) ==
  j \notin faulted /\ j \in DOMAIN rules =>
    \/ step[j] = "pollRule"
    \/ step[j] \in {"test", "cleanup"} /\ j \in cleanup /\ job[j] = "ldap"

MSInv ==
  /\ step \in [Jobs -> MicrosoftSteps \cup LdapSteps]
  /\ redirectUris \subseteq Jobs /\ currentUrls \in [Jobs -> SUBSET Jobs]
  /\ \A j \in Jobs : StepOK(j) /\ ListOK(j) /\ UrlOK(j) /\ RuleOK(j)

LEMMA MSInitInv == Init => MSInv
BY DEF Init, MSInit, MSInv, StepOK, ListOK, UrlOK, RuleOK, MicrosoftSteps, LdapSteps

(* What a job does with its own step, its URL and its rule is nothing to   *)
(* the others, their lists aside.                                          *)
LEMMA OneJob ==
  ASSUME MSInv, NEW j \in Jobs, NEW from, NEW to \in MicrosoftSteps \cup LdapSteps,
         JobGoto(j, from, to), faulted \subseteq faulted', cleanup \subseteq cleanup',
         overwritten \subseteq overwritten',
         \A k \in Jobs \ {j} : /\ k \in DOMAIN rules' => k \in DOMAIN rules
                               /\ k \in overwritten' \/ (k \in redirectUris' <=> k \in redirectUris),
         StepOK(j)', UrlOK(j)', RuleOK(j)', \A k \in Jobs : ListOK(k)',
         redirectUris' \subseteq Jobs, currentUrls' \in [Jobs -> SUBSET Jobs]
  PROVE  MSInv'
<1>1. \A k \in Jobs : k # j => step'[k] = step[k] /\ job'[k] = job[k]
  BY DEF MSInv, JobGoto
<1>2. step' \in [Jobs -> MicrosoftSteps \cup LdapSteps]
  BY DEF MSInv, JobGoto
<1>3. \A k \in Jobs : StepOK(k)' /\ RuleOK(k)'
  BY <1>1 DEF MSInv, StepOK, RuleOK
<1>4. \A k \in Jobs : UrlOK(k)'
  BY <1>1 DEF MSInv, UrlOK
<1> QED
  BY <1>2, <1>3, <1>4 DEF MSInv

LEMMA Steps ==
  ASSUME MSInv, NEW j \in Jobs, NEW from, NEW to, JobGoto(j, from, to)
  PROVE  /\ step[j] = from /\ step'[j] = to /\ job' = job
         /\ \A k \in Jobs : k # j => step'[k] = step[k]
         /\ StepOK(j)
BY DEF MSInv, JobGoto

LEMMA ReadStep ==
  ASSUME MSInv, NEW j \in Jobs, GetAppRedirectUrls(j)
  PROVE  MSInv'
<1>1. PICK from \in {"getUrls", "getUrlsAgain"}, to \in {"addUrl", "removeUrl"} :
        JobGoto(j, from, to) /\ (from = "getUrls" <=> to = "addUrl")
  BY DEF GetAppRedirectUrls
<1>2. to \in MicrosoftSteps \cup LdapSteps
  BY DEF MicrosoftSteps
<1>3. /\ currentUrls' = [currentUrls EXCEPT ![j] = redirectUris] /\ stale' = stale \ {j}
      /\ UNCHANGED <<redirectUris, overwritten, rules, cleanup, faulted>>
  BY DEF GetAppRedirectUrls, ruleVars
<1>4. StepOK(j)' /\ RuleOK(j)' /\ UrlOK(j)'
  BY <1>1, <1>3, Steps DEF MSInv, StepOK, RuleOK, UrlOK, MicrosoftSteps, LdapSteps
<1>5. \A k \in Jobs : ListOK(k)'
  BY <1>1, <1>3, Steps DEF MSInv, ListOK
<1>6. redirectUris' \subseteq Jobs /\ currentUrls' \in [Jobs -> SUBSET Jobs]
  BY <1>3 DEF MSInv
<1> QED
  BY <1>1, <1>2, <1>3, <1>4, <1>5, <1>6, OneJob

(* The new list is what the job has read and its own change. Whoever has   *)
(* read a list before is overtaken; and if this job was, the others whose  *)
(* URL came or went with its list are marked.                              *)
LEMMA UrlsWritten ==
  ASSUME MSInv, NEW j \in Jobs, NEW from \in {"addUrl", "removeUrl"},
         NEW to, to \notin {"addUrl", "removeUrl"}, JobGoto(j, from, to),
         NEW urls \in {currentUrls[j] \cup {j}, currentUrls[j] \ {j}}, WriteUrls(j, urls)
  PROVE  /\ redirectUris' = urls
         /\ redirectUris' \subseteq Jobs /\ currentUrls' \in [Jobs -> SUBSET Jobs]
         /\ overwritten \subseteq overwritten' /\ (j \in overwritten' => j \in overwritten)
         /\ \A k \in Jobs \ {j} : k \in overwritten' \/ (k \in redirectUris' <=> k \in redirectUris)
         /\ \A k \in Jobs : ListOK(k)'
<1>1. j \notin stale => currentUrls[j] = redirectUris
  BY Steps DEF MSInv, ListOK
<1>2. \A k \in Jobs \ {j} : k \in overwritten' \/ (k \in redirectUris' <=> k \in redirectUris)
  BY <1>1 DEF WriteUrls
<1>3. \A k \in Jobs : ListOK(k)'
  BY Steps DEF ListOK, Reading, WriteUrls
<1> QED
  BY <1>2, <1>3 DEF WriteUrls, MSInv

LEMMA WriteStep ==
  ASSUME MSInv, NEW j \in Jobs, AddAppRedirectUrls(j) \/ RemoveAppRedirectUrls(j)
  PROVE  MSInv'
<1>1. PICK from \in {"addUrl", "removeUrl"}, to \in {"test", "done"},
           urls \in {currentUrls[j] \cup {j}, currentUrls[j] \ {j}} :
        /\ JobGoto(j, from, to) /\ (from = "addUrl" <=> to = "test")
        /\ WriteUrls(j, urls) /\ (from = "addUrl" <=> j \in urls)
  BY DEF AddAppRedirectUrls, RemoveAppRedirectUrls
<1>2. to \in MicrosoftSteps \cup LdapSteps /\ to \notin {"addUrl", "removeUrl"}
  BY DEF MicrosoftSteps
<1>3. UNCHANGED <<rules, cleanup, faulted>>
  BY DEF AddAppRedirectUrls, RemoveAppRedirectUrls, ruleVars
<1>4. StepOK(j)' /\ RuleOK(j)' /\ job[j] = "microsoft"
  BY <1>1, <1>3, Steps DEF MSInv, StepOK, RuleOK, MicrosoftSteps, LdapSteps
<1>5. UrlOK(j)'
  BY <1>1, <1>4, Steps DEF UrlOK, WriteUrls
<1> QED
  BY <1>1, <1>2, <1>3, <1>4, <1>5, OneJob, UrlsWritten

(* allowPublicIpInNSG and its cleanup function.                            *)
LEMMA RuleStep ==
  ASSUME MSInv, NEW j \in Jobs,
         ListRules(j) \/ BeginCreateRule(j) \/ RuleCreated(j) \/ DeleteRule(j) \/ NoCleanup(j)
  PROVE  MSInv'
<1> USE DEF PutRule, TakeRule
<1>1. PICK from \in {"getRules", "createRule", "pollRule", "cleanup"},
           to \in {"createRule", "pollRule", "test", "done"} :
        JobGoto(j, from, to) /\ (to = "done" <=> from = "cleanup")
  BY DEF ListRules, BeginCreateRule, RuleCreated, DeleteRule, NoCleanup
<1>2. to \in MicrosoftSteps \cup LdapSteps
  BY DEF MicrosoftSteps, LdapSteps
<1>3. UNCHANGED <<redirectUris, currentUrls, stale, overwritten, faulted>>
  BY DEF ListRules, BeginCreateRule, RuleCreated, DeleteRule, NoCleanup, uriVars, ruleVars
<1>4. StepOK(j)' /\ job[j] = "ldap"
  BY <1>1, Steps DEF StepOK, MicrosoftSteps, LdapSteps
<1>5. /\ cleanup \subseteq cleanup'
      /\ \A k \in Jobs \ {j} : k \in DOMAIN rules' => k \in DOMAIN rules
  BY DEF ListRules, BeginCreateRule, RuleCreated, DeleteRule, NoCleanup, ruleVars
<1>6. RuleOK(j)'
  <2>1. CASE ListRules(j) \/ BeginCreateRule(j)
    <3>1. step[j] \in {"getRules", "createRule"} /\ UNCHANGED <<job, cleanup, faulted>>
      BY <2>1, <1>3 DEF ListRules, BeginCreateRule, JobGoto
    <3>2. j \in DOMAIN rules' => j \in DOMAIN rules \/ step'[j] = "pollRule"
      BY <2>1, Steps DEF ListRules, BeginCreateRule
    <3> QED
      BY <3>1, <3>2 DEF MSInv, RuleOK
  <2>2. CASE RuleCreated(j)
    BY <1>4, <2>2, Steps DEF RuleCreated, RuleOK
  <2>3. CASE DeleteRule(j)
    BY <2>3 DEF DeleteRule, RuleOK
  <2>4. CASE NoCleanup(j)
    BY <1>3, <2>4, Steps DEF NoCleanup, RuleOK, MSInv, ruleVars
  <2> QED
    BY <2>1, <2>2, <2>3, <2>4
<1>7. UrlOK(j)' /\ \A k \in Jobs : ListOK(k)'
  BY <1>1, <1>3, <1>4, Steps DEF MSInv, UrlOK, ListOK
<1>8. redirectUris' \subseteq Jobs /\ currentUrls' \in [Jobs -> SUBSET Jobs]
  BY <1>3 DEF MSInv
<1> QED
  BY <1>1, <1>2, <1>3, <1>4, <1>5, <1>6, <1>7, <1>8, OneJob

LEMMA TestsEndStep ==
  ASSUME MSInv, NEW j \in Jobs, TestsEnd(j)
  PROVE  MSInv'
<1>1. UNCHANGED <<redirectUris, currentUrls, stale, overwritten, rules, cleanup, faulted>>
  BY DEF TestsEnd, uriVars, ruleVars
<1>2. PICK to \in {"getUrlsAgain", "cleanup"} :
        JobGoto(j, "test", to) /\ (to = "getUrlsAgain" <=> job[j] = "microsoft")
  BY DEF TestsEnd
<1>3. StepOK(j)' /\ UrlOK(j)' /\ RuleOK(j)'
  BY <1>1, <1>2, Steps DEF MSInv, StepOK, UrlOK, RuleOK, MicrosoftSteps, LdapSteps
<1>4. \A k \in Jobs : ListOK(k)'
  BY <1>1, <1>2, Steps DEF MSInv, ListOK
<1>5. to \in MicrosoftSteps \cup LdapSteps
  BY DEF MicrosoftSteps, LdapSteps
<1>6. redirectUris' \subseteq Jobs /\ currentUrls' \in [Jobs -> SUBSET Jobs]
  BY <1>1 DEF MSInv
<1> QED
  BY <1>1, <1>2, <1>3, <1>4, <1>5, <1>6, OneJob

(* A request that breaks off, done or not, leaves the others' URLs and     *)
(* rules alone as one that is answered does.                               *)
LEMMA BrokenOffStep ==
  ASSUME MSInv, NEW j \in Jobs, RequestFails(j) \/ JobDies(j)
  PROVE  MSInv'
<1>1. PICK from \in MicrosoftSteps \cup LdapSteps, to \in {"getUrlsAgain", "test", "done"} :
        /\ JobGoto(j, from, to)
        /\ to = "getUrlsAgain" => from \in {"getUrls", "addUrl"} /\ faulted' = faulted
        /\ to = "test" => /\ from \in {"getRules", "createRule", "pollRule"}
                          /\ faulted' = faulted \cup ({j} \cap DOMAIN rules')
        /\ to = "done" => faulted' = faulted \cup {j}
  <2>1. CASE RequestFails(j)
    BY <2>1 DEF RequestFails, MicrosoftSteps, LdapSteps
  <2>2. CASE JobDies(j)
    BY <2>2 DEF JobDies, MSInv
  <2> QED
    BY <2>1, <2>2
<1>2. BrokenOff(j)
  BY DEF RequestFails, JobDies
<1>3. step[j] = from /\ step'[j] = to /\ StepOK(j) /\ job' = job
  BY <1>1, Steps
<1>4. /\ cleanup' = cleanup
      /\ \A k \in Jobs \ {j} : k \in DOMAIN rules' => k \in DOMAIN rules
      /\ j \in DOMAIN rules' => j \in DOMAIN rules \/ from = "createRule"
  BY <1>2, <1>3 DEF BrokenOff, PutRule, TakeRule
<1>5. /\ redirectUris' \subseteq Jobs /\ currentUrls' \in [Jobs -> SUBSET Jobs]
      /\ overwritten \subseteq overwritten' /\ (j \in overwritten' => j \in overwritten)
      /\ \A k \in Jobs \ {j} : k \in overwritten' \/ (k \in redirectUris' <=> k \in redirectUris)
      /\ \A k \in Jobs : ListOK(k)'
      /\ from \in {"addUrl", "removeUrl"} \/ redirectUris' = redirectUris
  <2>1. CASE \E urls \in {currentUrls[j] \cup {j}, currentUrls[j] \ {j}} :
               from \in {"addUrl", "removeUrl"} /\ WriteUrls(j, urls)
    BY <1>1, <2>1, UrlsWritten
  <2>2. CASE UNCHANGED <<redirectUris, currentUrls, overwritten>> /\ stale' \in {stale, stale \ {j}}
    BY <1>1, <2>2, Steps DEF MSInv, ListOK
  <2> QED
    BY <1>2, <1>3, <2>1, <2>2 DEF BrokenOff, uriVars
<1>6. StepOK(j)' /\ RuleOK(j)' /\ UrlOK(j)'
  <2>1. StepOK(j)'
    BY <1>1, <1>3 DEF StepOK, MicrosoftSteps, LdapSteps
  <2>2. RuleOK(j)'
    BY <1>1, <1>3, <1>4 DEF MSInv, RuleOK
  <2>3. UrlOK(j)'
    BY <1>1, <1>3, <1>5 DEF MSInv, UrlOK, StepOK, MicrosoftSteps, LdapSteps
  <2> QED
    BY <2>1, <2>2, <2>3
<1>7. faulted \subseteq faulted' /\ to \in MicrosoftSteps \cup LdapSteps
  BY <1>1 DEF MicrosoftSteps
<1> QED
  BY <1>1, <1>4, <1>5, <1>6, <1>7, OneJob

LEMMA MSStep == MSInv /\ [Next]_vars => MSInv'
<1> SUFFICES ASSUME MSInv, [Next]_vars
             PROVE  MSInv'
  OBVIOUS
<1>1. CASE MSNext
  BY <1>1, ReadStep, WriteStep, RuleStep, TestsEndStep, BrokenOffStep DEF MSNext, JobNext
<1>2. CASE UNCHANGED msVars
  BY <1>2 DEF msVars, uriVars, ruleVars, MSInv, StepOK, ListOK, UrlOK, RuleOK
<1> QED
  BY <1>1, <1>2 DEF Next, OthersThan, vars

(* MSClient: which URLs and rules are there at each step of each job, and  *)
(* that a list nobody has overtaken is the current one.                    *)
THEOREM MSAlways == Spec => []MSInv
<1>1. Init => MSInv
  BY MSInitInv
<1> QED
  BY <1>1, MSStep, PTL DEF Spec

(* addAppRedirectUrlsAsync and removeAppRedirectUrlsAsync: a job tests     *)
(* with its redirect URL registered, however the jobs read and write the   *)
(* one list and whatever requests fail or are done unanswered, unless an   *)
(* overtaken list of another job has taken this very URL.                  *)
THEOREM RedirectKeptAlways == Spec => []RedirectKept
<1>1. MSInv => RedirectKept
  BY DEF MSInv, UrlOK, RedirectKept
<1> QED
  BY <1>1, MSAlways, PTL

(* The hooks after the tests: a job whose hook met no failure leaves       *)
(* neither its rule nor, with the same exception, its URL behind, even     *)
(* when requests before its tests failed.                                  *)
THEOREM LeftCleanAlways == Spec => []LeftClean
<1>1. MSInv => LeftClean
  BY DEF MSInv, UrlOK, RuleOK, LeftClean
<1> QED
  BY <1>1, MSAlways, PTL

-----------------------------------------------------------------------------
(* The places of a worker belong to the driver class of its spec file.     *)

KubePlaces ==
  {"findMap", "replaceMap", "scaleDown", "waitDown", "scaleUp", "waitUp", "reload", "useTemplate",
   "deleteNamespace", "openWatch", "deletion", "getRoute", "metrics", "removeRoute", "ended",
   "done"}

DeploymentPlaces ==
  {"load", "deleteNamespace", "namespaceGone", "createNamespace", "createAppConfig",
   "createPlugins", "createRbac", "createSecret", "enableLogin", "updateAppConfig",
   "updatePlugins", "updateRbac", "awaitCRD", "applyCR", "waitReady", "follow", "synced", "check",
   "configure", "spawn", "kill", "exit", "lastExit", "afterAll", "over", "done"}

PlaceOK ==
  /\ suite \in {"RHDHDeployment", "KubeClient", "MSClient"}
  /\ suite = "RHDHDeployment" => pc \in DeploymentPlaces
  /\ suite = "KubeClient" => pc \in KubePlaces /\ kubeSpec \in KubeSpecs
  /\ suite = "MSClient" => pc = "done"

LEMMA PlaceInit == Init => PlaceOK
BY DEF Init, KubeInit, WorkerInit, PlaceOK, KubePlaces, DeploymentPlaces, KubeSpecs, FirstOf

LEMMA DriverPlaces ==
  ASSUME DeploymentNext, pc \in DeploymentPlaces
  PROVE  pc' \in DeploymentPlaces
<1> USE DEF DeploymentPlaces, Goto, Leave, FailTo, Fail, PollAgain, NewWorker, workerVars
<1>1. CASE LoadAllConfigs \/ DeleteNamespaceIfExists \/ PollNamespaceGone \/ CreateNamespace
  BY <1>1 DEF LoadAllConfigs, DeleteNamespaceIfExists, PollNamespaceGone, CreateNamespace
<1>2. CASE CreateAllConfigs \/ CreateSecret \/ EnableLoginStep \/ UpdateAllConfigs
  BY <1>2 DEF CreateAllConfigs, CreateAppConfig, CreateDynamicPluginsConfig, CreateRbacConfig,
     CreateSecret, EnableLoginStep, UpdateAllConfigs, UpdateAppConfig, UpdateDynamicPluginsConfig,
     UpdateRbacConfig
<1>3. CASE CreateBackstageDeployment \/ WaitForDeploymentReady \/ FollowLogs \/ WaitForSynced
  BY <1>3 DEF CreateBackstageDeployment, EnsureBackstageCRIsAvailable, ApplyCustomResource, Spawn,
     WaitForDeploymentReady, FollowLogs, WaitForSynced
<1>4. CASE RestartLocalDeployment \/ Check \/ Configure \/ Throws \/ Interrupted
           \/ NextWorker \/ Done
  BY <1>4 DEF RestartLocalDeployment, KillRunningProcess, ProcessExited, NothingToKill, Check,
     Configure, Throws, Interrupted, AwaitFails,
     NextWorker, Done
<1>5. CASE WaitForNamespaceActive \/ ServerNext \/ (ClusterNext /\ UNCHANGED workerVars)
  BY <1>5 DEF WaitForNamespaceActive, ServerNext, ServerEnds, ShellExits, ChildrenExit,
     ServerCrashes, ServerIngests, ServerStep
<1> QED
  BY <1>1, <1>2, <1>3, <1>4, <1>5 DEF DeploymentNext, Driver

LEMMA KubeDriverPlaces ==
  ASSUME KubeNext, pc \in KubePlaces, kubeSpec \in KubeSpecs
  PROVE  pc' \in KubePlaces /\ kubeSpec' = kubeSpec
<1> USE DEF KubePlaces, Goto, Leave, FailTo, FailSpec, PollAgain, workerVars
<1>1. CASE ResolveConfigMap \/ ReplaceConfigMap \/ ScaleDown \/ WaitForNoReplicas \/ ScaleUp
           \/ WaitForOneReplica \/ Reload
  BY <1>1 DEF ResolveConfigMap, ReplaceConfigMap, ScaleDown, WaitForNoReplicas, ScaleUp,
     WaitForOneReplica, Reload
<1>2. CASE UseTemplate \/ RequestDeletion \/ OpenWatch \/ DeletionWatched \/ EnsureRoute
           \/ FetchMetrics \/ RemoveRoute \/ KubeThrows \/ KubeInterrupted
  BY <1>2 DEF UseTemplate, RequestDeletion, OpenWatch, DeletionWatched, EnsureRoute, FetchMetrics,
     RemoveRoute, KubeThrows, KubeInterrupted, KubeFails
<1>3. CASE SpecEnded
  BY <1>3 DEF SpecEnded, NewWorker, FirstOf, KubeSpecs
<1>4. CASE NamespaceEnds \/ WatchCloses \/ DeploymentController
  BY <1>4 DEF NamespaceEnds, WatchCloses, DeploymentController
<1> QED
  BY <1>1, <1>2, <1>3, <1>4 DEF KubeNext, KubeDriver

LEMMA PlaceStep == PlaceOK /\ [Next]_vars => PlaceOK'
<1> SUFFICES ASSUME PlaceOK, [Next]_vars
             PROVE  PlaceOK'
  OBVIOUS
<1>1. CASE DeploymentNext /\ OthersThan("RHDHDeployment")
  BY <1>1, DriverPlaces DEF PlaceOK, OthersThan
<1>2. CASE KubeNext /\ OthersThan("KubeClient")
  BY <1>2, KubeDriverPlaces DEF PlaceOK, OthersThan
<1>3. CASE MSNext /\ OthersThan("MSClient") /\ UNCHANGED workerVars
  BY <1>3 DEF PlaceOK, OthersThan, workerVars
<1>4. CASE UNCHANGED vars
  BY <1>4 DEF PlaceOK, vars, workerVars, kubeVars
<1> QED
  BY <1>1, <1>2, <1>3, <1>4 DEF Next

(* Playwright runs one spec at a time: the drivers of the others rest.     *)
THEOREM PlaceAlways == Spec => []PlaceOK
<1> QED
  BY PlaceInit, PlaceStep, PTL DEF Spec

-----------------------------------------------------------------------------
(* KubeClient: the restart of the deployment.                              *)

PodPhases == {"starting", "available", "terminating"}

Retitled == {"scaleDown", "waitDown", "scaleUp", "waitUp", "reload"}

RestartInv ==
  /\ backends = [k \in DOMAIN backends |-> backends[k]]
  /\ \A k \in DOMAIN backends : backends[k] \in [title : Nat, phase : PodPhases]
  /\ worker \in Nat
  /\ \E n \in MapNames : titles = [m \in {n} |-> titles[n]] /\ titles[n] \in Nat
  /\ pc = "replaceMap" => target \in DOMAIN titles
  /\ pc \in Retitled => \A n \in DOMAIN titles : titles[n] = worker
  /\ pc \in {"scaleUp", "waitUp", "reload"} /\ ~early =>
       \A k \in Staying : backends[k].title = worker

KubeInv == suite = "KubeClient" => RestartInv

LEMMA KubeInitInv == Init => KubeInv
<1> SUFFICES ASSUME Init, suite = "KubeClient"
             PROVE  RestartInv
  BY DEF KubeInv
<1>1. pc \in {"findMap", "useTemplate", "getRoute"} /\ worker = 1
  BY DEF Init, KubeInit, WorkerInit, FirstOf, KubeSpecs
<1>2. PICK n \in MapNames : titles = [m \in {n} |-> NoTitle]
  BY DEF Init, KubeInit
<1> QED
  BY <1>1, <1>2 DEF Init, KubeInit, RestartInv, PodPhases, NoTitle, Retitled

(* The name that is looked for is that of the one config map there is.     *)
LEMMA MapFound ==
  ASSUME RestartInv, ResolveConfigMap
  PROVE  target' \in DOMAIN titles
<1>1. PICK n \in MapNames : DOMAIN titles = {n}
  BY DEF RestartInv
<1>2. AppConfigNames[1] = "app-config-rhdh" /\ AppConfigNames[2] = "app-config"
      /\ DOMAIN AppConfigNames = {1, 2}
  BY DEF AppConfigNames
<1> DEFINE known == {i \in DOMAIN AppConfigNames : AppConfigNames[i] \in ListConfigMaps}
<1>3. CASE known # {}
  <2>1. \E i \in known : \A j \in known : i <= j
    BY <1>2, <1>3
  <2>2. (CHOOSE i \in known : \A j \in known : i <= j) \in known
    BY <2>1
  <2> QED
    BY <1>3, <2>2 DEF ResolveConfigMap, FindAppConfigMap, ListConfigMaps
<1>4. CASE known = {}
  BY <1>1, <1>4 DEF ResolveConfigMap, FindAppConfigMap, ListConfigMaps
<1> QED
  BY <1>3, <1>4

LEMMA DriverStep ==
  ASSUME RestartInv, KubeDriver \/ KubeInterrupted, kubeSpec \in KubeSpecs
  PROVE  RestartInv'
<1> USE DEF RestartInv, Retitled, Staying, Goto, Leave, FailTo, FailSpec, PollAgain,
            deploymentStatus, mapVars, actionVars
<1>1. CASE ResolveConfigMap
  BY <1>1, MapFound DEF ResolveConfigMap
<1>2. CASE ReplaceConfigMap
  BY <1>2 DEF ReplaceConfigMap
<1>3. CASE ScaleDown \/ ScaleUp
  BY <1>3 DEF ScaleDown, ScaleUp, ScaleDeployment
<1>4. CASE WaitForNoReplicas
  BY <1>4 DEF WaitForNoReplicas
<1>5. CASE WaitForOneReplica \/ Reload
  BY <1>5 DEF WaitForOneReplica, Reload
<1>6. CASE UseTemplate \/ RequestDeletion \/ OpenWatch \/ DeletionWatched \/ EnsureRoute
           \/ FetchMetrics \/ RemoveRoute \/ KubeThrows \/ KubeInterrupted
  BY <1>6 DEF UseTemplate, RequestDeletion, OpenWatch, DeletionWatched, EnsureRoute, FetchMetrics,
     RemoveRoute, KubeThrows, KubeInterrupted, KubeFails
<1>7. CASE SpecEnded
  <2>1. pc' \in {"findMap", "useTemplate", "getRoute", "done"} /\ worker' \in Nat
    BY <1>7 DEF SpecEnded, NewWorker, FirstOf, KubeSpecs
  <2> QED
    BY <1>7, <2>1 DEF SpecEnded
<1> QED
  BY <1>1, <1>2, <1>3, <1>4, <1>5, <1>6, <1>7 DEF KubeDriver

LEMMA MountedTitle ==
  ASSUME RestartInv
  PROVE  /\ Mounted \in Nat
         /\ pc \in Retitled => Mounted = worker
<1>1. PICK n \in MapNames : titles = [m \in {n} |-> titles[n]] /\ titles[n] \in Nat
  BY DEF RestartInv
<1>2. DOMAIN titles = {n}
  BY <1>1
<1>3. {titles[m] : m \in DOMAIN titles} = {titles[n]}
  BY <1>2
<1>4. Mounted = titles[n]
  BY <1>3 DEF Mounted
<1> QED
  BY <1>1, <1>2, <1>4 DEF RestartInv

LEMMA ControllerStep ==
  ASSUME RestartInv, DeploymentController
  PROVE  RestartInv'
<1>1. UNCHANGED <<pc, worker, titles, target, early>>
  BY DEF DeploymentController, workerVars, mapVars
<1>2. CASE PodCreated
  <2>1. PICK k \in 1 .. MaxPods \ DOMAIN backends :
          backends' = [j \in DOMAIN backends \cup {k} |->
                         IF j = k THEN [title |-> Mounted, phase |-> "starting"] ELSE backends[j]]
    BY <1>2 DEF PodCreated
  <2>2. [title |-> Mounted, phase |-> "starting"] \in [title : Nat, phase : PodPhases]
    BY MountedTitle DEF PodPhases
  <2>3. backends' = [j \in DOMAIN backends' |-> backends'[j]]
        /\ \A j \in DOMAIN backends' : backends'[j] \in [title : Nat, phase : PodPhases]
    BY <2>1, <2>2 DEF RestartInv
  <2>4. pc \in {"scaleUp", "waitUp", "reload"} /\ ~early =>
          \A j \in Staying' : backends'[j].title = worker
    BY <2>1, MountedTitle DEF RestartInv, Staying, Retitled
  <2> QED
    BY <1>1, <2>3, <2>4 DEF RestartInv
<1>3. ASSUME NEW from \in PodPhases \ {"terminating"}, NEW to \in PodPhases, PodTurns(from, to)
      PROVE  RestartInv'
  <2>1. PICK k \in DOMAIN backends :
          backends[k].phase = from /\ backends' = [backends EXCEPT ![k].phase = to]
    BY <1>3 DEF PodTurns
  <2>2. /\ DOMAIN backends' = DOMAIN backends
        /\ backends' = [j \in DOMAIN backends' |-> backends'[j]]
        /\ \A j \in DOMAIN backends : backends'[j] \in [title : Nat, phase : PodPhases]
        /\ \A j \in DOMAIN backends : backends'[j].title = backends[j].title
        /\ Staying' \subseteq Staying
    BY <1>3, <2>1 DEF RestartInv, Staying
  <2> QED
    BY <1>1, <2>2 DEF RestartInv, Staying
<1>4. CASE PodEnds
  <2>1. PICK k \in Staying : backends' = [backends EXCEPT ![k].phase = "terminating"]
    BY <1>4 DEF PodEnds
  <2>2. /\ DOMAIN backends' = DOMAIN backends
        /\ backends' = [j \in DOMAIN backends' |-> backends'[j]]
        /\ \A j \in DOMAIN backends : backends'[j] \in [title : Nat, phase : PodPhases]
        /\ \A j \in DOMAIN backends : backends'[j].title = backends[j].title
        /\ Staying' \subseteq Staying
    BY <2>1 DEF RestartInv, Staying, PodPhases
  <2> QED
    BY <1>1, <2>2 DEF RestartInv, Staying
<1>5. CASE PodDeleted \/ StatusReported
  BY <1>1, <1>5 DEF PodDeleted, StatusReported, RestartInv, Staying
<1>6. PodAvailable \/ PodUnready => RestartInv'
  BY <1>3 DEF PodAvailable, PodUnready, PodPhases
<1> QED
  BY <1>2, <1>4, <1>5, <1>6 DEF DeploymentController

LEMMA KubeStep == PlaceOK /\ KubeInv /\ [Next]_vars => KubeInv'
<1> SUFFICES ASSUME PlaceOK, KubeInv, [Next]_vars, suite' = "KubeClient"
             PROVE  RestartInv'
  BY DEF KubeInv
<1>1. suite' = suite
  BY DEF Next, OthersThan, vars
<1>2. RestartInv /\ kubeSpec \in KubeSpecs
  BY <1>1 DEF KubeInv, PlaceOK
<1>3. CASE KubeNext
  <2>1. CASE NamespaceEnds \/ WatchCloses
    BY <1>2, <2>1 DEF NamespaceEnds, WatchCloses, RestartInv, workerVars, mapVars,
       deploymentStatus, Staying
  <2> QED
    BY <1>2, <1>3, <2>1, DriverStep, ControllerStep DEF KubeNext
<1>4. CASE UNCHANGED vars
  BY <1>2, <1>4 DEF vars, workerVars, kubeVars, mapVars, deploymentStatus, RestartInv, Staying
<1> QED
  BY <1>1, <1>3, <1>4 DEF Next, OthersThan

(* restartDeployment: when the page is reloaded no pod with an older title *)
(* can serve it, unless the 0 replicas that were waited for were read      *)
(* while a pod was there to stay.                                          *)
THEOREM RestartAppliesAlways == Spec => []RestartApplies
<1>1. PlaceOK /\ KubeInv => RestartApplies
  BY DEF PlaceOK, KubeInv, RestartInv, RestartApplies, Serving, Staying, DeploymentPlaces
<1> QED
  BY <1>1, KubeInitInv, KubeStep, PlaceAlways, PTL DEF Spec

-----------------------------------------------------------------------------
(* The cluster that RHDHDeployment deploys to.                             *)

PodRecord(p) == DOMAIN p = {"config", "phase", "ingested"}

(* Available is only said of the pod of the revision the controller saw    *)
(* last; that pod runs what the Deployment was last made from, if that is  *)
(* what the controller saw.                                                *)
ClusterInv ==
  /\ revision \in Nat /\ observed \in Nat /\ observed <= revision
  /\ objects = [n \in DOMAIN objects |-> objects[n]] /\ DOMAIN objects \subseteq ObjectNames
  /\ pods = [r \in DOMAIN pods |-> pods[r]]
  /\ \A r \in DOMAIN pods : r \in Nat /\ r <= observed /\ PodRecord(pods[r])
  /\ conditions \subseteq {"Available", "Progressing", "Exceeded"}
  /\ conditions = {"Available"} =>
       /\ observed \in DOMAIN pods /\ pods[observed].phase = "running"
       /\ \A r \in DOMAIN pods : r < observed => pods[r].phase = "terminating"
  /\ observed \in DOMAIN pods /\ observed = revision => pods[observed].config = template

LEMMA ClusterInitInv == Init => ClusterInv
BY DEF Init, DeploymentInit, ClusterInit, NoObjects, NoPods, ClusterInv

LEMMA OnePod ==
  ASSUME ClusterInv, NEW r \in DOMAIN pods, NEW pod, PodRecord(pod),
         pods' = [pods EXCEPT ![r] = pod], pod.config = pods[r].config,
         UNCHANGED <<objects, template, revision, observed, conditions>>,
         conditions = {"Available"} => pod.phase = pods[r].phase
  PROVE  ClusterInv'
BY DEF ClusterInv

LEMMA ClusterInvStep ==
  ASSUME ClusterInv, ClusterNext
  PROVE  ClusterInv'
<1>1. CASE NamespaceActive \/ OperatorInstalled
  BY <1>1 DEF NamespaceActive, OperatorInstalled, ClusterInv
<1>2. CASE NamespaceDeleted
  BY <1>2 DEF NamespaceDeleted, NoObjects, NoPods, ClusterInv
<1>3. CASE Reconcile
  BY <1>3 DEF Reconcile, ClusterInv
<1>4. CASE Rollout
  <2> DEFINE new == [config |-> template, phase |-> "starting", ingested |-> FALSE]
             old == {q \in DOMAIN pods : pods[q].phase # "starting"}
  <2>1. /\ observed' = revision /\ conditions' = (conditions \ {"Exceeded"}) \cup {"Progressing"}
        /\ UNCHANGED <<objects, template, revision>> /\ observed < revision
        /\ pods' = Put([r \in old |-> pods[r]], revision, new)
    BY <1>4 DEF Rollout
  <2>2. /\ pods' = [r \in DOMAIN pods' |-> pods'[r]] /\ DOMAIN pods' = old \cup {revision}
        /\ pods'[revision] = new
        /\ \A r \in old : r # revision => pods'[r] = pods[r]
    BY <2>1 DEF Put
  <2>3. PodRecord(new) /\ new.config = template
    BY DEF PodRecord
  <2>4. revision \in Nat /\ revision <= revision
    BY DEF ClusterInv
  <2>5. \A r \in DOMAIN pods' : r \in Nat /\ r <= observed' /\ PodRecord(pods'[r])
    <3> SUFFICES ASSUME NEW r \in DOMAIN pods'
                 PROVE  r \in Nat /\ r <= revision /\ PodRecord(pods'[r])
      BY <2>1
    <3>1. CASE r = revision
      BY <3>1, <2>2, <2>3, <2>4
    <3>2. CASE r # revision
      <4>1. r \in DOMAIN pods /\ pods'[r] = pods[r]
        BY <3>2, <2>2
      <4> QED
        BY <4>1, <2>1 DEF ClusterInv
    <3> QED
      BY <3>1, <3>2
  <2>6. conditions' # {"Available"} /\ conditions' \subseteq {"Available", "Progressing", "Exceeded"}
    <3>1. "Progressing" \in conditions' /\ "Progressing" \notin {"Available"}
      BY <2>1
    <3> QED
      BY <2>1, <3>1 DEF ClusterInv
  <2>7. pods'[revision].config = template
    BY <2>2, <2>3
  <2> HIDE DEF new, old
  <2> QED
    BY <2>1, <2>2, <2>4, <2>5, <2>6, <2>7 DEF ClusterInv
<1>5. CASE RolloutComplete \/ RolloutStuck
  BY <1>5 DEF RolloutComplete, RolloutStuck, ClusterInv
<1>6. ASSUME NEW r \in DOMAIN pods, PodUp(r) \/ PodReplaced(r) \/ PodIngests(r)
      PROVE  ClusterInv'
  <2>1. PodRecord(pods[r]) /\ UNCHANGED <<objects, template, revision, observed, conditions>>
    BY <1>6 DEF PodUp, PodReplaced, PodIngests, ClusterInv
  <2>2. conditions = {"Available"} => ~PodUp(r) /\ ~PodReplaced(r)
    BY DEF ClusterInv, PodUp, PodReplaced
  <2>3. ASSUME NEW ph, pods' = [pods EXCEPT ![r].phase = ph], conditions # {"Available"}
        PROVE  ClusterInv'
    <3> DEFINE pod == [pods[r] EXCEPT !.phase = ph]
    <3>1. PodRecord(pod) /\ pod.config = pods[r].config
      BY <2>1 DEF PodRecord
    <3>2. pods' = [pods EXCEPT ![r] = pod]
      BY <2>3
    <3> QED
      BY <2>1, <2>3, <3>1, <3>2, OnePod
  <2>4. CASE PodIngests(r)
    <3> DEFINE pod == [pods[r] EXCEPT !.ingested = TRUE]
    <3>1. PodRecord(pod) /\ pod.config = pods[r].config /\ pod.phase = pods[r].phase
      BY <2>1 DEF PodRecord
    <3>2. pods' = [pods EXCEPT ![r] = pod]
      BY <2>4 DEF PodIngests
    <3> QED
      BY <2>1, <3>1, <3>2, OnePod
  <2> QED
    BY <1>6, <2>2, <2>3, <2>4 DEF PodUp, PodReplaced
<1>7. ASSUME NEW r \in DOMAIN pods, PodGone(r)
      PROVE  ClusterInv'
  BY <1>7 DEF PodGone, ClusterInv
<1> QED
  BY <1>1, <1>2, <1>3, <1>4, <1>5, <1>6, <1>7 DEF ClusterNext

(* The driver writes objects and nothing else that the invariant is about. *)
WritesObject ==
  \E n \in ObjectNames : \E v : objects' = Put(objects, n, v)

LEMMA DriverCluster ==
  ASSUME ClusterInv, Driver \/ Interrupted \/ WaitForNamespaceActive \/ ServerNext
  PROVE  /\ UNCHANGED <<template, revision, observed, conditions, pods>>
         /\ UNCHANGED objects \/ WritesObject
<1> USE DEF clusterVars, WroteObjects, OnlyLocal
<1>1. CASE LoadAllConfigs \/ DeleteNamespaceIfExists \/ PollNamespaceGone \/ CreateNamespace
           \/ EnableLoginStep
  BY <1>1 DEF LoadAllConfigs, DeleteNamespaceIfExists, PollNamespaceGone, CreateNamespace,
     EnableLoginStep
<1>2. ASSUME NEW n \in ObjectNames, NEW v, CreateObject(n, v) \/ UpdateObject(n, v)
      PROVE  WritesObject
  <2>1. objects' = Put(objects, n, v)
    BY <1>2 DEF CreateObject, UpdateObject, Put, ClusterInv
  <2> QED
    BY <2>1 DEF WritesObject
<1>3. ASSUME NEW n, NEW v, WriteFile(n, v)
      PROVE  UNCHANGED objects
  BY <1>3 DEF WriteFile
<1>4. CASE CreateAllConfigs \/ CreateSecret \/ UpdateAllConfigs
  <2>1. {AppConfig, DynamicPlugins, RbacPolicy, Secret} \subseteq ObjectNames
    BY DEF ObjectNames
  <2>2. UNCHANGED <<template, revision, observed, conditions, pods>>
    BY <1>4 DEF CreateAllConfigs, CreateAppConfig, CreateDynamicPluginsConfig, CreateRbacConfig,
       CreateSecret, UpdateAllConfigs, UpdateAppConfig, UpdateDynamicPluginsConfig,
       UpdateRbacConfig
  <2>3. CASE CreateAllConfigs \/ UpdateAllConfigs
    BY <1>2, <1>3, <2>1, <2>3
       DEF CreateAllConfigs, CreateAppConfig, CreateDynamicPluginsConfig, CreateRbacConfig,
       UpdateAllConfigs, UpdateAppConfig, UpdateDynamicPluginsConfig, UpdateRbacConfig
  <2>4. CASE CreateSecret
    BY <1>2, <1>3, <2>1, <2>4 DEF CreateSecret, GenerateStaticToken, AddSecretData
  <2> QED
    BY <1>4, <2>2, <2>3, <2>4
<1>5. CASE CreateBackstageDeployment \/ WaitForDeploymentReady \/ FollowLogs \/ WaitForSynced
           \/ WaitForNamespaceActive
  BY <1>5 DEF CreateBackstageDeployment, EnsureBackstageCRIsAvailable, ApplyCustomResource, Spawn,
     WaitForDeploymentReady, FollowLogs, WaitForSynced, WaitForNamespaceActive
<1>6. CASE RestartLocalDeployment \/ Check \/ Configure \/ Throws \/ Interrupted
           \/ NextWorker \/ Done
  BY <1>6 DEF RestartLocalDeployment, KillRunningProcess, ProcessExited, NothingToKill, Check,
     Configure, Throws, Interrupted, AwaitFails,
     NextWorker, Done
<1>7. CASE ServerNext
  BY <1>7 DEF ServerNext, ServerEnds, ShellExits, ChildrenExit, ServerCrashes, ServerIngests,
     ServerStep
<1> QED
  BY <1>1, <1>4, <1>5, <1>6, <1>7 DEF Driver

LEMMA ClusterStep == ClusterInv /\ [Next]_vars => ClusterInv'
<1> SUFFICES ASSUME ClusterInv, [Next]_vars
             PROVE  ClusterInv'
  OBVIOUS
<1>1. CASE ClusterNext
  BY <1>1, ClusterInvStep
<1>2. CASE Driver \/ Interrupted \/ WaitForNamespaceActive \/ ServerNext
  BY <1>2, DriverCluster DEF WritesObject, Put, ClusterInv
<1>3. CASE UNCHANGED clusterVars
  BY <1>3 DEF clusterVars, ClusterInv
<1> QED
  BY <1>1, <1>2, <1>3 DEF Next, DeploymentNext, OthersThan, vars, deploymentVars

-----------------------------------------------------------------------------
(* rhdh as a local process, and as a Deployment.                           *)

\* Where the files or objects hold what the driver holds, and rhdh is started from them.
Started == {"waitReady", "follow", "synced", "check"}

Newest == {n \in DOMAIN servers : \A k \in DOMAIN servers : k <= n}

Server(s) == DOMAIN s = {"config", "shell", "children", "signalled", "ingested"}

(* A process that has ingested has had the port, which an older one whose  *)
(* children live would still have.                                         *)
ServersOK ==
  /\ \E m \in Nat : DOMAIN servers = 1 .. m
  /\ servers = [n \in DOMAIN servers |-> servers[n]]
  /\ \A n \in DOMAIN servers :
       /\ Server(servers[n])
       /\ servers[n].ingested => \A k \in DOMAIN servers : k < n => ~servers[k].children

(* The process that is waited for is the newest, and has read the files as *)
(* they are.                                                               *)
LocalOK ==
  /\ pc \notin {"awaitCRD", "applyCR"}
  /\ pc \in Started => runningProcess \in Newest /\ servers[runningProcess].config = files
  /\ pc \in {"synced", "check"} => followed = runningProcess
  /\ pc = "check" => servers[followed].ingested

\* From the first config map on.
Made ==
  {"createAppConfig", "createPlugins", "createRbac", "createSecret", "enableLogin",
   "updateAppConfig", "updatePlugins", "updateRbac", "awaitCRD", "applyCR", "configure"} \cup Started

Written == {"awaitCRD", "applyCR"} \cup Started

Holds(name, value) == name \in DOMAIN objects /\ objects[name] = value

(* What the driver has written is what it holds, from the write on.        *)
ObjectsOK ==
  /\ pc \in Written \cup {"updatePlugins", "updateRbac"} => Holds(AppConfig, appConfig)
  /\ pc \in Written \cup {"updateRbac"} => Holds(DynamicPlugins, pluginsConfig)
  /\ pc \in Written => Holds(RbacPolicy, rbacConfig)
  /\ pc \in Written \cup {"enableLogin", "updateAppConfig", "updatePlugins", "updateRbac", "configure"} =>
       Holds(Secret, secretData)

(* Once the Deployment is ready for what was written, only a new write     *)
(* changes that, and the one pod that is to stay has been followed.        *)
RemoteOK ==
  /\ pc \notin {"spawn", "kill", "exit"}
  /\ pc \in Made \cup {"createNamespace"} => namespace # "terminating"
  /\ ObjectsOK
  /\ pc \in Started \ {"waitReady"} /\ excused = {} =>
       template = objects /\ observed = revision /\ conditions = {"Available"}
  /\ pc \in {"synced", "check"} /\ excused = {} => followed = observed
  /\ pc = "check" /\ excused = {} => pods[followed].ingested

DeploymentInv ==
  suite = "RHDHDeployment" => ServersOK /\ (IF local THEN LocalOK ELSE RemoteOK)

LEMMA DeploymentInitInv == Init => DeploymentInv
<1> SUFFICES ASSUME Init, suite = "RHDHDeployment"
             PROVE  ServersOK /\ LocalOK /\ RemoteOK
  BY DEF DeploymentInv
<1>1. pc = "load"
  BY DEF Init, WorkerInit
<1>2. LocalOK /\ RemoteOK
  BY <1>1 DEF LocalOK, RemoteOK, ObjectsOK, Made, Written, Started
<1>3. DOMAIN servers = {} /\ servers = [n \in DOMAIN servers |-> servers[n]]
  BY DEF Init, DeploymentInit, DriverInit, NoPods
<1>4. DOMAIN servers = 1 .. 0
  BY <1>3
<1> QED
  BY <1>2, <1>3, <1>4 DEF ServersOK

\* Which actions touch what is run locally.
LEMMA ServersKept ==
  ASSUME Driver \/ Interrupted \/ WaitForNamespaceActive \/ (ClusterNext /\ UNCHANGED driverVars)
  PROVE  /\ local' = local
         /\ Spawn \/ KillRunningProcess \/ UNCHANGED servers
<1> USE DEF flowVars, driverVars, localVars, WroteObjects, OnlyLocal, WriteFile, CreateObject,
            UpdateObject, AddSecretData
<1>1. CASE LoadAllConfigs \/ DeleteNamespaceIfExists \/ PollNamespaceGone \/ CreateNamespace
           \/ EnableLoginStep \/ WaitForNamespaceActive \/ (ClusterNext /\ UNCHANGED driverVars)
  BY <1>1 DEF LoadAllConfigs, DeleteNamespaceIfExists, PollNamespaceGone, CreateNamespace,
     EnableLoginStep, WaitForNamespaceActive
<1>2. CASE CreateAllConfigs \/ UpdateAllConfigs
  BY <1>2 DEF CreateAllConfigs, CreateAppConfig, CreateDynamicPluginsConfig, CreateRbacConfig,
     UpdateAllConfigs, UpdateAppConfig, UpdateDynamicPluginsConfig, UpdateRbacConfig
<1>3. CASE CreateSecret
  BY <1>3 DEF CreateSecret, GenerateStaticToken
<1>4. CASE CreateBackstageDeployment \/ WaitForDeploymentReady \/ FollowLogs \/ WaitForSynced
  BY <1>4 DEF CreateBackstageDeployment, EnsureBackstageCRIsAvailable, ApplyCustomResource, Spawn,
     WaitForDeploymentReady, FollowLogs, WaitForSynced
<1>5. CASE RestartLocalDeployment \/ Check \/ Configure \/ Throws \/ Interrupted
           \/ NextWorker \/ Done
  BY <1>5 DEF RestartLocalDeployment, KillRunningProcess, ProcessExited, NothingToKill, Check,
     Configure, Throws, Interrupted, AwaitFails,
     NextWorker, Done
<1> QED
  BY <1>1, <1>2, <1>3, <1>4, <1>5 DEF Driver

LEMMA Spawned ==
  ASSUME ServersOK, Spawn
  PROVE  /\ ServersOK'
         /\ runningProcess' \in Newest' /\ servers'[runningProcess'].config = files
         /\ pc' = "waitReady" /\ local' = local /\ files' = files
<1>1. PICK m \in Nat : DOMAIN servers = 1 .. m
  BY DEF ServersOK
<1>2. Cardinality(DOMAIN servers) = m
  BY <1>1, FS_Interval
<1> DEFINE new == [config |-> files, shell |-> TRUE, children |-> TRUE, signalled |-> FALSE,
                   ingested |-> FALSE]
<1>3. servers' = Put(servers, m + 1, new) /\ runningProcess' = m + 1
  BY <1>2 DEF Spawn
<1>4. Server(new) /\ new.config = files /\ ~new.ingested
  BY DEF Server
<1> HIDE DEF new
<1>5. /\ DOMAIN servers' = 1 .. m + 1 /\ servers' = [n \in DOMAIN servers' |-> servers'[n]]
      /\ servers'[m + 1] = new /\ \A n \in 1 .. m : servers'[n] = servers[n]
  BY <1>1, <1>3 DEF Put
<1>6. \A n \in DOMAIN servers' :
        /\ Server(servers'[n])
        /\ servers'[n].ingested => \A k \in DOMAIN servers' : k < n => ~servers'[k].children
  <2> SUFFICES ASSUME NEW n \in 1 .. m + 1
               PROVE  /\ Server(servers'[n])
                      /\ servers'[n].ingested => \A k \in 1 .. m + 1 : k < n => ~servers'[k].children
    BY <1>5
  <2>1. CASE n = m + 1
    BY <1>4, <1>5, <2>1
  <2>2. CASE n # m + 1
    <3>1. n \in 1 .. m /\ \A k \in 1 .. m + 1 : k < n => k \in 1 .. m
      BY <2>2
    <3> QED
      BY <1>1, <1>5, <3>1 DEF ServersOK
  <2> QED
    BY <2>1, <2>2
<1>7. ServersOK'
  BY <1>5, <1>6 DEF ServersOK
<1>8. runningProcess' \in Newest'
  BY <1>3, <1>5 DEF Newest
<1> QED
  BY <1>3, <1>4, <1>5, <1>7, <1>8 DEF Spawn, Goto, Leave, OnlyLocal, flowVars

(* A process that is there keeps its configuration and what it has         *)
(* ingested, and gets no new children.                                     *)
Aged ==
  /\ ServersOK' /\ Newest' = Newest /\ DOMAIN servers' = DOMAIN servers
  /\ \A k \in DOMAIN servers : /\ servers'[k].config = servers[k].config
                               /\ servers[k].ingested => servers'[k].ingested

LEMMA OneServer ==
  ASSUME ServersOK, NEW n \in DOMAIN servers, NEW server, Server(server),
         servers' = [servers EXCEPT ![n] = server], server.config = servers[n].config,
         server.children => servers[n].children, servers[n].ingested => server.ingested,
         server.ingested => servers[n].ingested \/ n \in PortOwners
  PROVE  Aged
<1>1. /\ DOMAIN servers' = DOMAIN servers /\ servers' = [k \in DOMAIN servers' |-> servers'[k]]
      /\ servers'[n] = server /\ \A k \in DOMAIN servers : k # n => servers'[k] = servers[k]
  BY DEF ServersOK
<1>2. ServersOK'
  BY <1>1 DEF ServersOK, PortOwners
<1>3. Newest' = Newest
  BY <1>1 DEF Newest
<1> QED
  BY <1>1, <1>2, <1>3 DEF Aged

LEMMA SameServers == ServersOK /\ UNCHANGED servers => Aged
BY DEF ServersOK, Newest, Aged

LEMMA ServersAge ==
  ASSUME ServersOK, KillRunningProcess \/ ServerNext
  PROVE  Aged
<1>1. ASSUME NEW n \in DOMAIN servers
      PROVE  Server(servers[n])
  BY DEF ServersOK
<1>2. CASE KillRunningProcess
  <2>1. CASE runningProcess \in DOMAIN servers /\ servers' # servers
    <3> DEFINE server == [servers[runningProcess] EXCEPT !.signalled = TRUE]
    <3>1. servers' = [servers EXCEPT ![runningProcess] = server]
      BY <1>2, <2>1 DEF KillRunningProcess
    <3>2. /\ Server(server) /\ server.config = servers[runningProcess].config
          /\ server.children = servers[runningProcess].children
          /\ server.ingested = servers[runningProcess].ingested
      BY <1>1, <2>1 DEF Server
    <3> HIDE DEF server
    <3> QED
      BY <2>1, <3>1, <3>2, OneServer
  <2>2. runningProcess \notin DOMAIN servers => servers' = servers
    BY <1>2 DEF KillRunningProcess, ServersOK
  <2> QED
    BY <2>1, <2>2, SameServers
<1>3. ASSUME NEW n \in DOMAIN servers, ShellExits(n)
      PROVE  Aged
  <2> DEFINE server == [servers[n] EXCEPT !.shell = FALSE]
  <2>1. servers' = [servers EXCEPT ![n] = server]
    BY <1>3 DEF ShellExits, ServerStep
  <2>2. /\ Server(server) /\ server.config = servers[n].config
        /\ server.children = servers[n].children /\ server.ingested = servers[n].ingested
    BY <1>1 DEF Server
  <2> HIDE DEF server
  <2> QED
    BY <2>1, <2>2, OneServer
<1>4. ASSUME NEW n \in DOMAIN servers, ChildrenExit(n)
      PROVE  Aged
  <2> DEFINE server == [servers[n] EXCEPT !.children = FALSE]
  <2>1. servers' = [servers EXCEPT ![n] = server]
    BY <1>4 DEF ChildrenExit, ServerStep
  <2>2. /\ Server(server) /\ server.config = servers[n].config
        /\ ~server.children /\ server.ingested = servers[n].ingested
    BY <1>1 DEF Server
  <2> HIDE DEF server
  <2> QED
    BY <2>1, <2>2, OneServer
<1>5. ASSUME NEW n \in DOMAIN servers, ServerCrashes(n)
      PROVE  Aged
  <2> DEFINE server == [servers[n] EXCEPT !.shell = FALSE, !.children = FALSE]
  <2>1. servers' = [servers EXCEPT ![n] = server]
    BY <1>5 DEF ServerCrashes, ServerStep
  <2>2. /\ Server(server) /\ server.config = servers[n].config
        /\ ~server.children /\ server.ingested = servers[n].ingested
    BY <1>1 DEF Server
  <2> HIDE DEF server
  <2> QED
    BY <2>1, <2>2, OneServer
<1>6. ASSUME NEW n \in DOMAIN servers, ServerIngests(n)
      PROVE  Aged
  <2> DEFINE server == [servers[n] EXCEPT !.ingested = TRUE]
  <2>1. servers' = [servers EXCEPT ![n] = server] /\ n \in PortOwners
    BY <1>6 DEF ServerIngests, ServerStep
  <2>2. /\ Server(server) /\ server.config = servers[n].config
        /\ server.children = servers[n].children /\ server.ingested
    BY <1>1 DEF Server
  <2> HIDE DEF server
  <2> QED
    BY <2>1, <2>2, OneServer
<1> QED
  BY <1>2, <1>3, <1>4, <1>5, <1>6 DEF ServerNext, ServerEnds


LEMMA LocalStep ==
  ASSUME ServersOK, local, LocalOK, DeploymentNext
  PROVE  LocalOK'
<1> USE DEF LocalOK, Started, Goto, Leave, FailTo, Fail, PollAgain, workerVars
<1>1. ASSUME pc' \notin Started \cup {"awaitCRD", "applyCR"}
      PROVE  LocalOK'
  BY <1>1
<1>2. ASSUME pc' = pc, UNCHANGED <<followed, files, runningProcess>>, Aged
      PROVE  LocalOK'
  BY <1>2 DEF Aged, Newest
<1>3. CASE LoadAllConfigs \/ DeleteNamespaceIfExists \/ PollNamespaceGone \/ CreateNamespace
           \/ EnableLoginStep \/ CreateAllConfigs \/ CreateSecret \/ UpdateAllConfigs
  <2>1. pc' \notin Started \cup {"awaitCRD", "applyCR"}
    BY <1>3 DEF LoadAllConfigs, DeleteNamespaceIfExists, PollNamespaceGone, CreateNamespace,
       EnableLoginStep, CreateAllConfigs, CreateAppConfig, CreateDynamicPluginsConfig,
       CreateRbacConfig, CreateSecret, UpdateAllConfigs, UpdateAppConfig,
       UpdateDynamicPluginsConfig, UpdateRbacConfig
  <2> QED
    BY <1>1, <2>1
<1>4. CASE CreateBackstageDeployment
  BY <1>4, Spawned DEF CreateBackstageDeployment, EnsureBackstageCRIsAvailable,
     ApplyCustomResource
<1>5. CASE WaitForDeploymentReady \/ FollowLogs \/ WaitForSynced
  <2>1. UNCHANGED <<files, servers, runningProcess>>
    BY <1>5 DEF WaitForDeploymentReady, FollowLogs, WaitForSynced, localVars
  <2> QED
    BY <1>5, <2>1 DEF WaitForDeploymentReady, FollowLogs, WaitForSynced, FollowLocalLogs, Logged,
       Newest
<1>6. CASE RestartLocalDeployment \/ Check \/ Configure \/ Throws \/ Interrupted
           \/ NextWorker \/ Done
  <2>1. pc' \notin Started \cup {"awaitCRD", "applyCR"}
    BY <1>6 DEF RestartLocalDeployment, KillRunningProcess, ProcessExited, NothingToKill, Check,
       Configure, Throws, Interrupted, AwaitFails,
     NextWorker, Done, NewWorker
  <2> QED
    BY <1>1, <2>1
<1>7. CASE ServerNext
  <2>1. UNCHANGED <<pc, followed, files, runningProcess>>
    BY <1>7 DEF ServerNext, ServerEnds, ShellExits, ChildrenExit, ServerCrashes, ServerIngests,
       ServerStep
  <2> QED
    BY <1>2, <1>7, <2>1, ServersAge
<1>8. CASE WaitForNamespaceActive \/ (ClusterNext /\ UNCHANGED <<driverVars, workerVars>>)
  <2>1. pc' = "afterAll" \/ UNCHANGED <<pc, followed, files, runningProcess, servers>>
    BY <1>8 DEF WaitForNamespaceActive, driverVars, localVars
  <2> QED
    BY <1>1, <1>2, <2>1, SameServers
<1> QED
  BY <1>3, <1>4, <1>5, <1>6, <1>7, <1>8 DEF DeploymentNext, Driver

(* While the namespace is there nothing resets the cluster, and once the   *)
(* Deployment is Available for the current objects nothing moves but pods  *)
(* that end, and the catalog.                                              *)
LEMMA ClusterRests ==
  ASSUME ClusterInv, ClusterNext, namespace # "terminating"
  PROVE  /\ namespace' # "terminating" /\ objects' = objects
         /\ template = objects /\ observed = revision /\ conditions = {"Available"} =>
              /\ UNCHANGED <<template, observed, revision, conditions>>
              /\ pods[observed].ingested => pods'[observed].ingested
<1>1. CASE NamespaceActive \/ NamespaceDeleted \/ OperatorInstalled \/ Reconcile \/ RolloutComplete
           \/ RolloutStuck
  BY <1>1 DEF NamespaceActive, NamespaceDeleted, OperatorInstalled, Reconcile, RolloutComplete,
     RolloutStuck
<1>2. CASE Rollout
  BY <1>2 DEF Rollout, ClusterInv
<1>3. ASSUME NEW r \in DOMAIN pods, PodUp(r) \/ PodReplaced(r) \/ PodGone(r) \/ PodIngests(r)
      PROVE  /\ UNCHANGED <<namespace, objects, template, observed, revision, conditions>>
             /\ conditions = {"Available"} /\ pods[observed].ingested => pods'[observed].ingested
  <2>1. UNCHANGED <<namespace, objects, template, observed, revision, conditions>>
    BY <1>3 DEF PodUp, PodReplaced, PodGone, PodIngests
  <2>2. ASSUME conditions = {"Available"}, pods[observed].ingested
        PROVE  pods'[observed].ingested
    <3>1. r # observed
      <4>1. pods[observed].phase = "running" /\ \A q \in DOMAIN pods : ~(q > observed)
        BY <2>2 DEF ClusterInv
      <4> QED
        BY <1>3, <2>2, <4>1 DEF PodUp, PodReplaced, PodGone, PodIngests
    <3>2. observed \in DOMAIN pods
      BY <2>2 DEF ClusterInv
    <3>3. pods'[observed] = pods[observed]
      BY <1>3, <3>1, <3>2 DEF PodUp, PodReplaced, PodGone, PodIngests
    <3> QED
      BY <2>2, <3>3
  <2> QED
    BY <2>1, <2>2
<1> QED
  BY <1>1, <1>2, <1>3 DEF ClusterNext

LEMMA RemoteStep ==
  ASSUME ClusterInv, ~local, RemoteOK, DeploymentNext
  PROVE  RemoteOK'
<1> USE DEF RemoteOK, ObjectsOK, Written, Made, Started, Goto, Leave, FailTo, Fail, PollAgain,
            workerVars, clusterVars, configVars
<1>1. ASSUME pc' \in {"load", "deleteNamespace", "namespaceGone", "afterAll", "lastExit", "over",
                      "done"}
      PROVE  RemoteOK'
  BY <1>1
<1>2. CASE LoadAllConfigs \/ DeleteNamespaceIfExists \/ PollNamespaceGone
  BY <1>2 DEF LoadAllConfigs, DeleteNamespaceIfExists, PollNamespaceGone
<1>3. CASE CreateNamespace \/ EnableLoginStep \/ Configure
  BY <1>3 DEF CreateNamespace, EnableLoginStep, Configure, Holds
<1>4. CASE CreateAllConfigs
  BY <1>4 DEF CreateAllConfigs, CreateAppConfig, CreateDynamicPluginsConfig, CreateRbacConfig,
     CreateObject, WroteObjects
<1>5. CASE CreateSecret
  BY <1>5 DEF CreateSecret, CreateObject, WroteObjects, GenerateStaticToken, AddSecretData, Put,
     Holds
<1>6. CASE UpdateAllConfigs
  BY <1>6 DEF UpdateAllConfigs, UpdateAppConfig, UpdateDynamicPluginsConfig, UpdateRbacConfig,
     UpdateObject, WroteObjects, Holds, AppConfig, DynamicPlugins, RbacPolicy, Secret
<1>7. CASE CreateBackstageDeployment
  BY <1>7 DEF CreateBackstageDeployment, EnsureBackstageCRIsAvailable, ApplyCustomResource, Spawn,
     Holds
<1>8. CASE WaitForDeploymentReady
  <2>1. UNCHANGED <<configVars, clusterVars>>
    BY <1>8 DEF WaitForDeploymentReady
  <2>2. CASE Ready
    <3>1. excused' = {} => ~Behind /\ ~Stuck
      BY <1>8, <2>2 DEF WaitForDeploymentReady
    <3>2. excused' = {} => template = objects /\ observed = revision /\ conditions = {"Available"}
      BY <2>2, <3>1 DEF Behind, Stuck, Ready, ClusterInv
    <3> QED
      BY <1>8, <2>1, <2>2, <3>2 DEF WaitForDeploymentReady, Holds
  <2>3. CASE ~Ready
    BY <1>8, <2>1, <2>3 DEF WaitForDeploymentReady, Holds
  <2> QED
    BY <2>2, <2>3
<1>9. CASE FollowLogs \/ WaitForSynced
  <2>1. UNCHANGED <<configVars, clusterVars, excused>>
    BY <1>9 DEF FollowLogs, WaitForSynced
  <2>2. CASE FollowLogs
    <3>1. followed' \in DOMAIN pods /\ pods[followed'].phase = "running"
      BY <2>2 DEF FollowLogs, FollowPodLogs, ActivePods, Listed
    <3>2. conditions = {"Available"} => followed' = observed
      BY <3>1 DEF ClusterInv
    <3> QED
      BY <2>1, <2>2, <3>2 DEF FollowLogs, Holds
  <2>3. CASE WaitForSynced
    BY <2>1, <2>3 DEF WaitForSynced, Logged, Holds
  <2> QED
    BY <1>9, <2>2, <2>3
<1>10. CASE RestartLocalDeployment \/ Throws \/ Interrupted \/ NextWorker \/ Done
  BY <1>1, <1>10 DEF RestartLocalDeployment, KillRunningProcess, ProcessExited, NothingToKill,
     Throws, Interrupted, AwaitFails,
     NextWorker, Done, NewWorker
<1>11. CASE Check
  BY <1>11 DEF Check, Holds
<1>12. CASE ServerNext
  BY <1>12 DEF ServerNext, ServerEnds, ShellExits, ChildrenExit, ServerCrashes, ServerIngests,
     ServerStep, Holds
<1>13. CASE WaitForNamespaceActive
  BY <1>13 DEF WaitForNamespaceActive, Holds
<1>14. CASE ClusterNext /\ UNCHANGED <<driverVars, workerVars>>
  <2>1. UNCHANGED <<pc, configVars, followed, excused>>
    BY <1>14 DEF driverVars
  <2>2. CASE pc \in Made \cup {"createNamespace"}
    BY <1>14, <2>1, <2>2, ClusterRests DEF Holds
  <2>3. CASE pc \notin Made \cup {"createNamespace"}
    BY <2>1, <2>3
  <2> QED
    BY <2>2, <2>3
<1> QED
  BY <1>2, <1>3, <1>4, <1>5, <1>6, <1>7, <1>8, <1>9, <1>10, <1>11, <1>12, <1>13, <1>14
     DEF DeploymentNext, Driver

LEMMA DeploymentStep == ClusterInv /\ DeploymentInv /\ [Next]_vars => DeploymentInv'
<1> SUFFICES ASSUME ClusterInv, DeploymentInv, [Next]_vars, suite' = "RHDHDeployment"
             PROVE  ServersOK' /\ (IF local' THEN LocalOK' ELSE RemoteOK')
  BY DEF DeploymentInv
<1>1. suite' = suite
  BY DEF Next, OthersThan, vars
<1>2. ServersOK /\ (IF local THEN LocalOK ELSE RemoteOK)
  BY <1>1 DEF DeploymentInv
<1>3. CASE DeploymentNext
  <2>1. CASE ServerNext
    <3>1. local' = local
      BY <2>1 DEF ServerNext, ServerEnds, ShellExits, ChildrenExit, ServerCrashes, ServerIngests,
         ServerStep, flowVars
    <3> QED
      BY <1>2, <1>3, <2>1, <3>1, ServersAge, LocalStep, RemoteStep DEF Aged
  <2>2. CASE Driver \/ Interrupted \/ WaitForNamespaceActive \/ (ClusterNext /\ UNCHANGED driverVars)
    <3>1. local' = local /\ (Spawn \/ KillRunningProcess \/ UNCHANGED servers)
      BY <2>2, ServersKept
    <3>2. ServersOK'
      BY <1>2, <3>1, Spawned, ServersAge, SameServers DEF Aged
    <3> QED
      BY <1>2, <1>3, <3>1, <3>2, LocalStep, RemoteStep
  <2> QED
    BY <1>3, <2>1, <2>2 DEF DeploymentNext
<1>4. CASE UNCHANGED vars
  <2>1. UNCHANGED <<pc, deploymentVars>>
    BY <1>4 DEF vars, workerVars
  <2> QED
    BY <1>2, <2>1 DEF deploymentVars, driverVars, flowVars, configVars, localVars, clusterVars,
       ServersOK, LocalOK, RemoteOK, ObjectsOK, Holds, Newest
<1> QED
  BY <1>1, <1>3, <1>4 DEF Next, OthersThan

(* RHDHDeployment between any two of its awaits: what it has made of the   *)
(* cluster, or of the local processes, and what its files hold.            *)
THEOREM DeploymentAlways == Spec => [](ClusterInv /\ DeploymentInv)
BY ClusterInitInv, ClusterStep, DeploymentInitInv, DeploymentStep, PTL DEF Spec

(* At a check, whoever may answer is the one process or pod that was       *)
(* waited for, with what the driver holds.                                 *)
LEMMA Checked ==
  ASSUME PlaceOK, ClusterInv, DeploymentInv, pc = "check", excused = {}, NEW b \in Backends
  PROVE  b.config = (IF local THEN files ELSE Wanted) /\ b.ingested
<1>1. suite = "RHDHDeployment"
  BY DEF PlaceOK, KubePlaces
<1>2. CASE local
  <2>1. ServersOK /\ LocalOK
    BY <1>1, <1>2 DEF DeploymentInv
  <2>2. PICK n \in PortOwners : b = servers[n]
    BY <1>2 DEF Backends
  <2>3. /\ runningProcess \in Newest /\ servers[runningProcess].config = files
        /\ servers[runningProcess].ingested
    BY <2>1 DEF LocalOK, Started
  <2>4. n \in DOMAIN servers /\ servers[n].children /\ n <= runningProcess
    BY <2>2, <2>3 DEF PortOwners, Newest
  <2>5. n \in Nat /\ runningProcess \in Nat
    BY <2>1, <2>3, <2>4 DEF ServersOK, Newest
  <2>6. ~(n < runningProcess)
    BY <2>1, <2>3, <2>4 DEF ServersOK, Newest
  <2> QED
    BY <1>2, <2>2, <2>3, <2>4, <2>5, <2>6
<1>3. CASE ~local
  <2>1. RemoteOK
    BY <1>1, <1>3 DEF DeploymentInv
  <2>2. PICK r \in Running : b = pods[r]
    BY <1>3 DEF Backends
  <2>3. /\ template = objects /\ observed = revision /\ conditions = {"Available"}
        /\ pods[observed].ingested /\ ObjectsOK
    BY <2>1 DEF RemoteOK, Started
  <2>4. r = observed /\ observed \in DOMAIN pods
    BY <2>2, <2>3 DEF Running, ClusterInv
  <2>5. b.config = objects
    BY <2>2, <2>3, <2>4 DEF ClusterInv
  <2>6. objects = [n \in DOMAIN objects |-> objects[n]] /\ DOMAIN objects = ObjectNames
        /\ objects[AppConfig] = appConfig /\ objects[DynamicPlugins] = pluginsConfig
        /\ objects[RbacPolicy] = rbacConfig /\ objects[Secret] = secretData
    BY <2>3 DEF ObjectsOK, Written, Started, Holds, ClusterInv, ObjectNames
  <2>7. objects = Wanted
    BY <2>6 DEF Wanted, ObjectNames, AppConfig, DynamicPlugins, RbacPolicy, Secret
  <2> QED
    BY <1>3, <2>2, <2>3, <2>4, <2>5, <2>7
<1> QED
  BY <1>2, <1>3

(* waitForDeploymentReady, followPodLogs and waitForSynced: the backend    *)
(* that a test asks was started from what the driver has written, unless   *)
(* the controller had not seen the change or had given up on the new pod.  *)
THEOREM CheckedCurrentAlways == Spec => []CheckedCurrent
<1>1. PlaceOK /\ ClusterInv /\ DeploymentInv => CheckedCurrent
  BY Checked DEF CheckedCurrent
<1> QED
  BY <1>1, PlaceAlways, DeploymentAlways, PTL

(* With the same exceptions, the log that is followed is the log of the    *)
(* backend that is asked: its catalog holds the users and groups.          *)
THEOREM CheckedIngestedAlways == Spec => []CheckedIngested
<1>1. PlaceOK /\ ClusterInv /\ DeploymentInv => CheckedIngested
  BY Checked DEF CheckedIngested
<1> QED
  BY <1>1, PlaceAlways, DeploymentAlways, PTL
=============================================================================
