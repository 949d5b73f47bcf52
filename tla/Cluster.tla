------------------------------ MODULE Cluster ------------------------------
(***************************************************************************)
(* The Kubernetes namespace that the end-to-end tests deploy rhdh to, as   *)
(* far as the tests' driver can see it: the API's objects, the operator    *)
(* that turns a Backstage resource into a Deployment, the controller that  *)
(* rolls it out and reports conditions late, and pods that read their      *)
(* configuration once, when they start. It is external to the repository.  *)
(***************************************************************************)
EXTENDS Naturals, FiniteSets

AppConfig == "app-config-rhdh"
DynamicPlugins == "dynamic-plugins"
RbacPolicy == "rbac-policy"
Secret == "rhdh-secrets"

ObjectNames == {AppConfig, DynamicPlugins, RbacPolicy, Secret}

VARIABLES
  namespace,    \* "none", "new", "active", "terminating"
  objects,      \* the config maps and the secret that exist: name -> content
  crd,          \* whether the operator has installed its resource definition
  cr,           \* whether the Backstage resource exists
  template,     \* the objects the Deployment was last made from
  revision,     \* how often the Deployment has changed
  observed,     \* the revision the conditions speak of
  conditions,   \* "Available", "Progressing" while a rollout is under way, "Exceeded"
  pods          \* revision -> the pod made for it

clusterVars == <<namespace, objects, crd, cr, template, revision, observed, conditions, pods>>

NoObjects == [n \in {} |-> {}]

NoPods == [r \in {} |-> {}]

Put(f, x, v) == [y \in DOMAIN f \cup {x} |-> IF y = x THEN v ELSE f[y]]

Deployed == revision > 0

ClusterInit ==
  /\ namespace \in {"none", "active"}
  /\ objects = NoObjects
  /\ crd \in BOOLEAN /\ cr = FALSE
  /\ template = NoObjects /\ revision = 0 /\ observed = 0 /\ conditions = {}
  /\ pods = NoPods

-----------------------------------------------------------------------------
NamespaceActive ==
  /\ namespace = "new"
  /\ namespace' = "active"
  /\ UNCHANGED <<objects, crd, cr, template, revision, observed, conditions, pods>>

(* All that the namespace holds goes with it.                              *)
NamespaceDeleted ==
  /\ namespace = "terminating"
  /\ namespace' = "none"
  /\ objects' = NoObjects /\ cr' = FALSE
  /\ template' = NoObjects /\ revision' = 0 /\ observed' = 0 /\ conditions' = {}
  /\ pods' = NoPods
  /\ UNCHANGED crd

OperatorInstalled ==
  /\ ~crd /\ crd' = TRUE
  /\ UNCHANGED <<namespace, objects, cr, template, revision, observed, conditions, pods>>

(* The operator sees changed objects and changes the Deployment.           *)
Reconcile ==
  /\ cr /\ namespace = "active"
  /\ DOMAIN objects = ObjectNames /\ objects # template
  /\ template' = objects /\ revision' = revision + 1
  /\ UNCHANGED <<namespace, objects, crd, cr, observed, conditions, pods>>

(* The controller sees the changed Deployment; a pod that never came up    *)
(* gives way to the one for the new revision.                              *)
Rollout ==
  /\ observed < revision /\ namespace = "active"
  /\ observed' = revision
  /\ conditions' = (conditions \ {"Exceeded"}) \cup {"Progressing"}
  /\ pods' = Put([r \in {q \in DOMAIN pods : pods[q].phase # "starting"} |-> pods[r]],
                 revision, [config |-> template, phase |-> "starting", ingested |-> FALSE])
  /\ UNCHANGED <<namespace, objects, crd, cr, template, revision>>

PodUp(r) ==
  /\ pods[r].phase = "starting"
  /\ pods' = [pods EXCEPT ![r].phase = "running"]
  /\ UNCHANGED <<namespace, objects, crd, cr, template, revision, observed, conditions>>

(* A new pod is up, and an older one is told to end.                       *)
PodReplaced(r) ==
  /\ pods[r].phase = "running"
  /\ \E q \in DOMAIN pods : q > r /\ pods[q].phase = "running"
  /\ pods' = [pods EXCEPT ![r].phase = "terminating"]
  /\ UNCHANGED <<namespace, objects, crd, cr, template, revision, observed, conditions>>

PodGone(r) ==
  /\ pods[r].phase = "terminating"
  /\ pods' = [q \in DOMAIN pods \ {r} |-> pods[q]]
  /\ UNCHANGED <<namespace, objects, crd, cr, template, revision, observed, conditions>>

(* The catalog commits a round of users and groups, and logs it.           *)
PodIngests(r) ==
  /\ pods[r].phase = "running" /\ ~pods[r].ingested
  /\ pods' = [pods EXCEPT ![r].ingested = TRUE]
  /\ UNCHANGED <<namespace, objects, crd, cr, template, revision, observed, conditions>>

RolloutComplete ==
  /\ conditions # {"Available"}
  /\ observed \in DOMAIN pods /\ pods[observed].phase = "running"
  /\ \A r \in DOMAIN pods : r < observed => pods[r].phase = "terminating"
  /\ conditions' = {"Available"}
  /\ UNCHANGED <<namespace, objects, crd, cr, template, revision, observed, pods>>

(* The progress deadline passes, which the condition Progressing says with *)
(* status False, and the old pod keeps the Deployment Available.           *)
RolloutStuck ==
  /\ "Progressing" \in conditions
  /\ observed \in DOMAIN pods /\ pods[observed].phase = "starting"
  /\ conditions' = (conditions \ {"Progressing"}) \cup {"Exceeded"}
  /\ UNCHANGED <<namespace, objects, crd, cr, template, revision, observed, pods>>

ClusterNext ==
  \/ NamespaceActive \/ NamespaceDeleted \/ OperatorInstalled
  \/ Reconcile \/ Rollout \/ RolloutComplete \/ RolloutStuck
  \/ \E r \in DOMAIN pods : PodUp(r) \/ PodReplaced(r) \/ PodGone(r) \/ PodIngests(r)

-----------------------------------------------------------------------------
Running == {r \in DOMAIN pods : pods[r].phase = "running"}

\* The pods that the API lists as running: one that ends is still listed.
Listed == {r \in DOMAIN pods : pods[r].phase \in {"running", "terminating"}}

\* The controller has not seen the last change of the objects.
Behind == observed < revision \/ template # objects

\* The controller has given up waiting for the new pod, which may still come.
Stuck == "Exceeded" \in conditions

=============================================================================
