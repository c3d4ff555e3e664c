---------------------------- MODULE WorkerRemoval ----------------------------
(***************************************************************************)
(* Removing one worker from a KubernetesCluster.  Its entry is in one list *)
(* of spec.workers: nodes, removed, failedNodes or none.  The composition  *)
(* controller of the cluster renders the chart, whose templates decide by  *)
(* Helm `lookup`s, and applies the outcome later: it creates and patches   *)
(* what the manifest has, and deletes what only the release before had.    *)
(*                                                                         *)
(* Of the worker's own BaremetalHost, as much as its removal meets: it     *)
(* enrols, deploys and undeploys the machine by its spec, and once deleted *)
(* no longer renders anything but only DELETEs the node (BaremetalHost).   *)
(***************************************************************************)
EXTENDS Naturals

CONSTANT MaxEdits   \* bound: edits of spec.workers

ASSUME EditsAssumption == MaxEdits \in Nat

Lists == {"nodes", "removed", "failedNodes", "none"}
HostSpecs == {"none", "deploy", "undeploy"}
Kinds == {"host", "job", "secret"}

VARIABLES
  list,      \* where the entry of the worker is
  edits,
  pki,       \* the kubeadm-pki Secret exists
  published, \* drain_kubeconfig is on the CR of the bootstrap control plane
  secret,    \* the <cluster>-workload-kubeconfig Secret exists
  job,       \* the drain Job of the worker
  host,      \* spec of the BaremetalHost of the worker
  deleting,  \* it has a deletionTimestamp
  release,   \* the kinds of resources in the manifest of the last release
  manifest,  \* what the last render came to
  cdc,       \* the cluster's composition controller is about to ...
  node,      \* Ironic's provision_state, coarsely
  member,    \* the workload cluster's view: the node is no member, one, or drained
  forced     \* the entry has been in failedNodes since a deploying host was last applied

vars == <<list, edits, pki, published, secret, job, host, deleting, release,
          manifest, cdc, node, member, forced>>
cluster == <<secret, host, deleting, release, pki, manifest, cdc>>
machine == <<node, member>>

Empty == [host |-> "none", job |-> FALSE, secret |-> FALSE]

Init ==
  /\ list = "nodes" /\ edits = 0 /\ forced = FALSE
  /\ pki = FALSE /\ published = FALSE /\ secret = FALSE
  /\ job = "none" /\ host = "none" /\ deleting = FALSE
  /\ release = {} /\ manifest = Empty /\ cdc = "render"
  /\ node = "none" /\ member = "no"

(* --- the operator and the bridge ----------------------------------------- *)

Move(to) ==
  /\ to # list /\ edits < MaxEdits
  /\ list' = to /\ edits' = edits + 1
  /\ forced' = (forced \/ to = "failedNodes")
  /\ UNCHANGED <<cluster, machine, published, job>>

\* kubectl uncordon, when the worker is to stay after all.
Uncordon ==
  /\ member = "drained" /\ list = "nodes"
  /\ member' = "yes"
  /\ UNCHANGED <<cluster, node, list, edits, forced, published, job>>

\* The bootstrap control plane publishes the key; its next deploy clears it.
Mirror ==
  /\ published' = ~published
  /\ UNCHANGED <<cluster, machine, list, edits, forced, job>>

(* --- the chart ------------------------------------------------------------ *)

workerDrainComplete == job = "succeeded"

\* Mutants: removed without the drain gate, and failedNodes behind it.
RemovedUngated ==
  CASE list = "nodes" /\ pki               -> "deploy"
    [] list \in {"removed", "failedNodes"}  -> "undeploy"
    [] OTHER                               -> "none"

FailedGated ==
  CASE list = "nodes" /\ pki                                       -> "deploy"
    [] list \in {"removed", "failedNodes"} /\ workerDrainComplete  -> "undeploy"
    [] OTHER                                                       -> "none"

WorkerHost ==
  CASE list = "nodes" /\ pki                     -> "deploy"
    [] list = "removed" /\ workerDrainComplete   -> "undeploy"
    [] list = "failedNodes"                      -> "undeploy"
    [] OTHER                                     -> "none"

DrainJob == list = "removed" /\ secret /\ job = "none"

Render ==
  /\ cdc = "render"
  /\ manifest' = [host |-> WorkerHost, job |-> DrainJob, secret |-> published]
  /\ cdc' = "apply"
  /\ UNCHANGED <<machine, list, edits, forced, pki, published, secret, job, host,
                 deleting, release>>

\* One upgrade of the release.  A BaremetalHost has a finalizer.
Apply ==
  LET has(k) == IF k = "host" THEN manifest.host # "none" ELSE manifest[k]
      pruned(k) == k \in release /\ ~has(k) IN
  /\ cdc = "apply"
  /\ cdc' = "render"
  /\ release' = {k \in Kinds : has(k)}
  /\ pki' = TRUE
  /\ secret' = manifest.secret
  /\ job' = IF has("job") /\ job = "none" THEN "running"
            ELSE IF pruned("job") THEN "none" ELSE job
  /\ host' = IF has("host") THEN manifest.host ELSE host
  /\ deleting' = (deleting \/ (pruned("host") /\ host # "none"))
  /\ forced' = (forced /\ (manifest.host # "deploy" \/ list = "failedNodes"))
  /\ UNCHANGED <<machine, list, edits, published, manifest>>

(* --- the drain Job -------------------------------------------------------- *)

\* kubectl drain cordons the node and evicts its pods, and then the Job is done.
Drain ==
  /\ job = "running" /\ secret /\ member # "no"
  /\ member' = "drained"
  /\ UNCHANGED <<cluster, node, list, edits, forced, published, job>>

JobSucceeds ==
  /\ job = "running" /\ member = "drained"
  /\ job' = "succeeded"
  /\ UNCHANGED <<cluster, machine, list, edits, forced, published>>

\* backoffLimit: the node is no member, or a disruption budget outlasts the timeout.
JobFails ==
  /\ job = "running"
  /\ job' = "failed"
  /\ UNCHANGED <<cluster, machine, list, edits, forced, published>>

\* ttlSecondsAfterFinished.
JobExpires ==
  /\ job \in {"succeeded", "failed"}
  /\ job' = "none"
  /\ UNCHANGED <<cluster, machine, list, edits, forced, published>>

(* --- the BaremetalHost of the worker and its machine ---------------------- *)

Enrol ==
  /\ host # "none" /\ ~deleting /\ node = "none"
  /\ node' = "available"
  /\ UNCHANGED <<cluster, member, list, edits, forced, published, job>>

Deploy ==
  /\ host = "deploy" /\ ~deleting /\ node = "available"
  /\ node' = "deployed"
  /\ UNCHANGED <<cluster, member, list, edits, forced, published, job>>

\* join.sh, which may never get there.
Join ==
  /\ node = "deployed" /\ member = "no"
  /\ member' = "yes"
  /\ UNCHANGED <<cluster, node, list, edits, forced, published, job>>

Undeploy ==
  /\ host = "undeploy" /\ ~deleting /\ node = "deployed"
  /\ node' = "cleaning" /\ member' = "no"
  /\ UNCHANGED <<cluster, list, edits, forced, published, job>>

Released ==
  /\ node = "cleaning"
  /\ node' = "available"
  /\ UNCHANGED <<cluster, member, list, edits, forced, published, job>>

\* DELETE /v1/nodes: Ironic refuses while the machine is deployed or cleaning.
DeleteHost ==
  /\ deleting /\ node \in {"none", "available"}
  /\ node' = "none" /\ host' = "none" /\ deleting' = FALSE
  /\ UNCHANGED <<member, list, edits, forced, published, job, secret, release, pki,
                 manifest, cdc>>

-----------------------------------------------------------------------------
Cdc == Render \/ Apply
Worker == Enrol \/ Deploy \/ Undeploy \/ Released \/ DeleteHost
Next == \/ \E to \in Lists : Move(to)
        \/ Uncordon \/ Mirror \/ Join
        \/ Cdc \/ Worker
        \/ Drain \/ JobSucceeds \/ JobFails \/ JobExpires

Spec == Init /\ [][Next]_vars

\* The controllers run for ever; a drain may fail, and a join.
FairSpec == Spec /\ WF_vars(Cdc) /\ WF_vars(Worker) /\ WF_vars(Drain) /\ WF_vars(JobSucceeds)
-----------------------------------------------------------------------------
TypeOK ==
  /\ list \in Lists /\ edits \in 0..MaxEdits
  /\ {pki, published, secret, deleting, forced} \subseteq BOOLEAN
  /\ job \in {"none", "running", "succeeded", "failed"}
  /\ host \in HostSpecs /\ release \subseteq Kinds /\ cdc \in {"render", "apply"}
  /\ manifest \in [host : HostSpecs, job : BOOLEAN, secret : BOOLEAN]
  /\ node \in {"none", "available", "deployed", "cleaning"}
  /\ member \in {"no", "yes", "drained"}

\* workers.removed: a member is never wiped before its drain is done, unless the
\* operator had it in failedNodes.
DrainedBeforeWiped ==
  [][node = "deployed" /\ node' = "cleaning" => member # "yes" \/ forced]_vars

\* workers.failedNodes: undeployed without a drain, wherever the join got stuck.
FailedIsReleased ==
  (list = "failedNodes" /\ host # "none" /\ ~deleting /\ cdc = "render")
    ~> (list # "failedNodes" \/ node = "available")

\* Once the drain has succeeded, the host is undeployed.
RemovedIsReleased ==
  (list = "removed" /\ job = "succeeded") ~> (list # "removed" \/ node = "available")
=============================================================================
