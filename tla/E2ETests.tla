------------------------------ MODULE E2ETests ------------------------------
(***************************************************************************)
(* The end-to-end tests' drivers together. A worker runs one spec file,    *)
(* with the driver class it uses: RHDHDeployment for the authentication    *)
(* providers, KubeClient for the three specs that change the cluster, or   *)
(* MSClient, whose requests concern CI jobs that run at the same time.     *)
(***************************************************************************)
EXTENDS RHDHDeployment, KubeClient, MSClient

VARIABLE suite    \* the driver class of the spec file

vars == <<suite, workerVars, deploymentVars, kubeVars, msVars>>

\* The drivers that the spec file does not use are at rest.
Init ==
  /\ suite \in {"RHDHDeployment", "KubeClient", "MSClient"}
  /\ DeploymentInit /\ KubeInit /\ MSInit
  /\ suite # "RHDHDeployment" => namespace = "none" /\ ~crd /\ ~local /\ login = "oidc"
  /\ suite # "KubeClient" =>
       kubeSpec = "config-map" /\ DOMAIN titles = {ChartMap}
  /\ suite # "MSClient" => job = [j \in Jobs |-> "ldap"]
  /\ WorkerInit(CASE suite = "RHDHDeployment" -> "load"
                  [] suite = "KubeClient" -> FirstOf(kubeSpec)
                  [] suite = "MSClient" -> "done")

OthersThan(driver) ==
  /\ suite = driver /\ UNCHANGED suite
  /\ driver # "RHDHDeployment" => UNCHANGED deploymentVars
  /\ driver # "KubeClient" => UNCHANGED kubeVars
  /\ driver # "MSClient" => UNCHANGED msVars

Next ==
  \/ DeploymentNext /\ OthersThan("RHDHDeployment")
  \/ KubeNext /\ OthersThan("KubeClient")
  \/ MSNext /\ OthersThan("MSClient") /\ UNCHANGED workerVars

(* Every request of a worker is answered or throws, a loop that polls goes *)
(* on to its timeout, a signalled process ends, a watch is closed by its   *)
(* server, and each CI job goes on. That a wait is interrupted is not      *)
(* relied on: what the driver waits for has to end the wait.               *)
Fairness ==
  /\ WF_vars(Driver /\ OthersThan("RHDHDeployment"))
  /\ WF_vars(ServerEnds /\ OthersThan("RHDHDeployment"))
  /\ WF_vars(KubeDriver /\ OthersThan("KubeClient"))
  /\ WF_vars(WatchCloses /\ OthersThan("KubeClient"))
  /\ \A j \in Jobs : WF_vars(JobNext(j) /\ OthersThan("MSClient") /\ UNCHANGED workerVars)

Spec == Init /\ [][Next]_vars /\ Fairness

-----------------------------------------------------------------------------
(* Every spec file comes to its end, its retries included, and so does     *)
(* every CI job, whatever the cluster, the browser and Azure do.           *)
SpecEnds ==
  <>[](/\ pc = "done"
       /\ suite = "MSClient" => \A j \in Jobs : step[j] = "done")
=============================================================================
