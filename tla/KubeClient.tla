----------------------------- MODULE KubeClient -----------------------------
(***************************************************************************)
(* Class KubeClient of e2e-tests, as the specs that use it call it:        *)
(* config-map.spec.ts changes the title and restarts the deployment,       *)
(* kubernetes-actions.spec.ts deletes the namespace that a template made,  *)
(* and catalog-users.spec.ts adds a route for the metrics. Deployment,     *)
(* pods, watch and namespace are the cluster's, and external.              *)
(***************************************************************************)
EXTENDS TestWorker, FiniteSets

CONSTANT MaxPods    \* bound: the pods of the Deployment, those that end included

ASSUME PodBoundsAssumption == MaxPods \in Nat \ {0}

VARIABLES
  kubeSpec,     \* the spec file: "config-map", "kubernetes-actions", "catalog-users"
  titles,       \* the config maps with an app-config: name -> title
  target,       \* actualConfigMapName
  replicas,     \* what the Deployment asks for
  available,    \* status.availableReplicas, as last reported
  backends,     \* the pods: number -> [title, phase]
  early,        \* history: no replica was available, and a pod was there to stay
  made,         \* the namespace that the template made
  watch         \* "none", "open", "deleted" (the event has come), "closed"

deploymentStatus == <<replicas, available, backends>>
mapVars == <<titles, target, early>>
actionVars == <<made, watch>>
kubeVars == <<kubeSpec, mapVars, deploymentStatus, actionVars>>

\* In the order in which findAppConfigMap prefers them.
AppConfigNames == <<"app-config-rhdh", "app-config">>

\* The config map of the chart, known by its data alone.
ChartMap == "developer-hub-app-config"

MapNames == {AppConfigNames[i] : i \in DOMAIN AppConfigNames} \cup {ChartMap}

NoTitle == 0

KubeSpecs == {"config-map", "kubernetes-actions", "catalog-users"}

FirstOf(spec) == CASE spec = "config-map" -> "findMap"
                   [] spec = "kubernetes-actions" -> "useTemplate"
                   [] spec = "catalog-users" -> "getRoute"

\* The chart has deployed the one config map there is.
KubeInit ==
  /\ kubeSpec \in KubeSpecs
  /\ \E name \in MapNames : titles = [n \in {name} |-> NoTitle]
  /\ target = "none" /\ early = FALSE
  /\ replicas = 1 /\ available = 1
  /\ backends = [k \in {1} |-> [title |-> NoTitle, phase |-> "available"]]
  /\ made = "none" /\ watch = "none"

-----------------------------------------------------------------------------
(* The Deployment and its pods.                                            *)

Staying == {k \in DOMAIN backends : backends[k].phase # "terminating"}

Serving == {k \in DOMAIN backends : backends[k].phase = "available"}

\* The title that a pod finds in the config map it mounts.
Mounted == CHOOSE t \in {titles[n] : n \in DOMAIN titles} : TRUE

PodCreated ==
  /\ Cardinality(Staying) < replicas
  /\ \E k \in 1 .. MaxPods \ DOMAIN backends :
       /\ \A j \in 1 .. k - 1 : j \in DOMAIN backends
       /\ backends' = [j \in DOMAIN backends \cup {k} |->
                         IF j = k THEN [title |-> Mounted, phase |-> "starting"]
                         ELSE backends[j]]
  /\ UNCHANGED <<replicas, available>>

PodTurns(from, to) ==
  /\ \E k \in DOMAIN backends :
       backends[k].phase = from /\ backends' = [backends EXCEPT ![k].phase = to]
  /\ UNCHANGED <<replicas, available>>

\* A readiness probe succeeds, and may fail again.
PodAvailable == PodTurns("starting", "available")

PodUnready == PodTurns("available", "starting")

PodEnds ==
  /\ Cardinality(Staying) > replicas
  /\ \E k \in Staying : backends' = [backends EXCEPT ![k].phase = "terminating"]
  /\ UNCHANGED <<replicas, available>>

PodDeleted ==
  /\ \E k \in DOMAIN backends \ Staying :
       backends' = [j \in DOMAIN backends \ {k} |-> backends[j]]
  /\ UNCHANGED <<replicas, available>>

StatusReported ==
  /\ available # Cardinality(Serving) /\ available' = Cardinality(Serving)
  /\ UNCHANGED <<replicas, backends>>

DeploymentController ==
  /\ PodCreated \/ PodAvailable \/ PodUnready \/ PodEnds \/ PodDeleted \/ StatusReported
  /\ UNCHANGED <<workerVars, kubeSpec, mapVars, actionVars>>

-----------------------------------------------------------------------------
(* config-map.spec.ts                                                      *)

FailSpec == FailTo("ended")

ListConfigMaps == DOMAIN titles

\* The first of the known names, or else a config map with app-config data.
FindAppConfigMap ==
  LET known == {i \in DOMAIN AppConfigNames : AppConfigNames[i] \in ListConfigMaps} IN
  IF known # {} THEN AppConfigNames[CHOOSE i \in known : \A j \in known : i <= j]
  ELSE CHOOSE n \in ListConfigMaps : TRUE

\* updateConfigMapTitle: the name given, or the one that is found.
ResolveConfigMap ==
  /\ Goto("findMap", "replaceMap")
  /\ target' = IF "app-config-rhdh" \in DOMAIN titles THEN "app-config-rhdh"
               ELSE FindAppConfigMap
  /\ UNCHANGED <<kubeSpec, titles, early, deploymentStatus, actionVars>>

\* The new title is the worker's.
ReplaceConfigMap ==
  /\ Goto("replaceMap", "scaleDown")
  /\ titles' = [titles EXCEPT ![target] = worker]
  /\ UNCHANGED <<kubeSpec, target, early, deploymentStatus, actionVars>>

\* An error of the request is logged and goes no further.
ScaleDeployment(n) ==
  /\ replicas' = n \/ UNCHANGED replicas
  /\ UNCHANGED <<available, backends>>

ScaleDown ==
  /\ Goto("scaleDown", "waitDown") /\ ScaleDeployment(0)
  /\ UNCHANGED <<kubeSpec, mapVars, actionVars>>

\* Mutant: a Deployment that asks for no replica has none.
WaitForNoReplicasAsked ==
  /\ pc = "waitDown"
  /\ IF replicas = 0 THEN Goto("waitDown", "scaleUp") /\ early' = FALSE
     ELSE (PollAgain \/ (TimedOut /\ FailSpec)) /\ UNCHANGED early
  /\ UNCHANGED <<kubeSpec, titles, target, deploymentStatus, actionVars>>

(* waitForDeploymentReady for 0, and the pause after it. What is read is   *)
(* the number of available replicas, and no pod.                           *)
WaitForNoReplicas ==
  /\ pc = "waitDown"
  /\ IF available = 0 THEN Goto("waitDown", "scaleUp") /\ early' = (Staying # {})
     ELSE (PollAgain \/ (TimedOut /\ FailSpec)) /\ UNCHANGED early
  /\ UNCHANGED <<kubeSpec, titles, target, deploymentStatus, actionVars>>

ScaleUp ==
  /\ Goto("scaleUp", "waitUp") /\ ScaleDeployment(1)
  /\ UNCHANGED <<kubeSpec, mapVars, actionVars>>

WaitForOneReplica ==
  /\ pc = "waitUp"
  /\ IF available = 1 THEN Goto("waitUp", "reload") ELSE PollAgain \/ (TimedOut /\ FailSpec)
  /\ UNCHANGED <<kubeSpec, mapVars, deploymentStatus, actionVars>>

\* The page is reloaded from a pod that serves, and its title compared.
Reload ==
  /\ pc = "reload"
  /\ \/ \E k \in Serving : backends[k].title = worker /\ Goto("reload", "ended")
     \/ (Serving = {} \/ \E k \in Serving : backends[k].title # worker) /\ FailSpec
  /\ UNCHANGED <<kubeSpec, mapVars, deploymentStatus, actionVars>>

-----------------------------------------------------------------------------
(* kubernetes-actions.spec.ts                                              *)

UseTemplate ==
  /\ pc = "useTemplate"
  /\ \/ made' = "present" /\ Goto("useTemplate", "deleteNamespace")
     \/ UNCHANGED made /\ FailTo("deleteNamespace")
  /\ UNCHANGED <<kubeSpec, mapVars, deploymentStatus, watch>>

\* deleteNamespaceAndWait: the request, and then the watch.
RequestDeletion ==
  /\ pc = "deleteNamespace"
  /\ IF made = "present"
     THEN made' = "terminating" /\ Goto("deleteNamespace", "openWatch")
     ELSE UNCHANGED made /\ FailSpec
  /\ UNCHANGED <<kubeSpec, mapVars, deploymentStatus, watch>>

OpenWatch ==
  /\ Goto("openWatch", "deletion") /\ watch' = "open"
  /\ UNCHANGED <<kubeSpec, mapVars, deploymentStatus, made>>

\* Mutant: only the event settles the promise.
DeletionWatchedByEvent ==
  /\ watch = "deleted" /\ Goto("deletion", "ended")
  /\ watch' = "none"
  /\ UNCHANGED <<kubeSpec, mapVars, deploymentStatus, made>>

\* The promise settles once: by the event, or by the watch that ends without it.
DeletionWatched ==
  /\ \/ watch = "deleted" /\ Goto("deletion", "ended")
     \/ watch = "closed" /\ pc = "deletion" /\ FailSpec
  /\ watch' = "none"
  /\ UNCHANGED <<kubeSpec, mapVars, deploymentStatus, made>>

\* A watch that is opened after the deletion is told nothing of it.
NamespaceEnds ==
  /\ made = "terminating" /\ made' = "none"
  /\ watch' = IF watch = "open" THEN "deleted" ELSE watch
  /\ UNCHANGED <<workerVars, kubeSpec, mapVars, deploymentStatus>>

WatchCloses ==
  /\ watch = "open" /\ watch' = "closed"
  /\ UNCHANGED <<workerVars, kubeSpec, mapVars, deploymentStatus, made>>

-----------------------------------------------------------------------------
(* catalog-users.spec.ts                                                   *)

EnsureRoute ==
  /\ Goto("getRoute", "metrics")
  /\ UNCHANGED <<kubeSpec, mapVars, deploymentStatus, actionVars>>

FetchMetrics ==
  /\ Goto("metrics", "removeRoute") \/ (pc = "metrics" /\ FailTo("removeRoute"))
  /\ UNCHANGED <<kubeSpec, mapVars, deploymentStatus, actionVars>>

RemoveRoute ==
  /\ Goto("removeRoute", "ended")
  /\ UNCHANGED <<kubeSpec, mapVars, deploymentStatus, actionVars>>

-----------------------------------------------------------------------------
\* The places where the driver waits for the cluster, and not for an answer.
KubeWaits == {"waitDown", "waitUp", "deletion"}

KubeFails ==
  /\ IF pc = "getRoute" THEN FailTo("removeRoute") ELSE FailSpec
  /\ UNCHANGED <<kubeSpec, mapVars, deploymentStatus, actionVars>>

\* A request is refused or breaks off.
KubeThrows ==
  pc \notin {"reload", "ended", "done", "metrics", "useTemplate"} \cup KubeWaits /\ KubeFails

\* The test's own timeout strikes, or a poll throws; nothing relies on it.
KubeInterrupted == pc \in KubeWaits /\ KubeFails

SpecEnded ==
  /\ pc = "ended"
  /\ NewWorker(FirstOf(kubeSpec)) \/ (~Retried /\ Goto("ended", "done"))
  /\ target' = "none" /\ early' = FALSE /\ watch' = "none" /\ made' = "none"
  /\ UNCHANGED <<kubeSpec, titles, deploymentStatus>>

KubeDriver ==
  \/ ResolveConfigMap \/ ReplaceConfigMap \/ ScaleDown \/ WaitForNoReplicas \/ ScaleUp
  \/ WaitForOneReplica \/ Reload
  \/ UseTemplate \/ RequestDeletion \/ OpenWatch \/ DeletionWatched
  \/ EnsureRoute \/ FetchMetrics \/ RemoveRoute
  \/ KubeThrows \/ SpecEnded

KubeNext ==
  \/ KubeDriver \/ KubeInterrupted \/ NamespaceEnds \/ WatchCloses
  \/ kubeSpec = "config-map" /\ DeploymentController

-----------------------------------------------------------------------------
(* restartDeployment is there to make a changed config map take effect:    *)
(* when the page is reloaded, no pod with an older title can serve it. The *)
(* exception is a 0 that was read while a pod was there to stay, because   *)
(* it was not available just then or the request to scale was lost.        *)
RestartApplies ==
  pc = "reload" /\ ~early => \A k \in Serving : backends[k].title = worker
=============================================================================
