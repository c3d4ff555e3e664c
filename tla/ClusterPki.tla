----------------------------- MODULE ClusterPki -----------------------------
(***************************************************************************)
(* The CA of a KubernetesCluster, and how every control-plane node comes   *)
(* to boot with the same one.  The chart makes it at render time and keeps *)
(* it in a Secret: the first render creates the Secret, and the second one *)
(* finds it by `lookup' and renders the hosts with what it holds.          *)
(*                                                                         *)
(* A bundle is a number, the order in which it was generated; 0 is none.   *)
(* The helper of the bundle is evaluated for the Secret and again for each *)
(* host: without a Secret to reuse, each evaluation generates another one. *)
(***************************************************************************)
EXTENDS Naturals

CONSTANTS N,          \* control-plane nodes; 1 is the bootstrap one
          MaxBundles, \* bound: bundles generated
          MaxWipes    \* bound: control-plane nodes re-imaged by the operator

ASSUME PkiAssumption ==
  /\ N \in Nat \ {0} /\ MaxWipes \in Nat
  /\ MaxBundles \in Nat /\ MaxBundles >= N + 2   \* for one render after Init

CPs == 1..N

VARIABLES
  legacy,   \* the cluster and its Secret are of a chart before 0.12.6
  secret,   \* the bundle in the kubeadm-pki Secret
  client,   \* the Secret has an etcd-client.crt
  trusted,  \* kube-root-ca.crt of the management cluster resolves
  minted,   \* bundles generated
  manifest, \* the bundles in the last render: of the Secret and of every host
  cdc,      \* the composition controller is about to render or to apply
  hosts,    \* the bundle in the configDrive of every BaremetalHost, 0: no host
  disk,     \* the bundle that the node booted with, 0: not deployed
  wipes

vars == <<legacy, secret, client, trusted, minted, manifest, cdc, hosts, disk, wipes>>

NoHosts == [c \in CPs |-> 0]
Everywhere == IF legacy THEN [c \in CPs |-> 1] ELSE NoHosts

Init ==
  /\ legacy \in BOOLEAN
  /\ secret = (IF legacy THEN 1 ELSE 0) /\ minted = secret
  /\ client = FALSE /\ trusted = legacy
  /\ manifest = [secret |-> 0, hosts |-> NoHosts] /\ cdc = "render"
  /\ hosts = Everywhere /\ disk = Everywhere /\ wipes = 0

\* The i-th evaluation of the helper in one render.
kubeadmPkiBundle(i) == IF client THEN secret ELSE minted + i

\* Mutants: the hosts rendered on the first pass too, and a gate as strict as the
\* helper of the bundle.
NoGate == TRUE
ReadyWithClient == client

kubeadmPkiReady == secret # 0

mgmtCaBundle == trusted

CpHost(c) == IF kubeadmPkiReady /\ (c = 1 \/ mgmtCaBundle) THEN kubeadmPkiBundle(c + 1) ELSE 0

Render ==
  /\ cdc = "render"
  /\ manifest' = [secret |-> kubeadmPkiBundle(1), hosts |-> [c \in CPs |-> CpHost(c)]]
  /\ minted' = IF client THEN minted ELSE minted + N + 1
  /\ cdc' = "apply"
  /\ UNCHANGED <<legacy, secret, client, trusted, hosts, disk, wipes>>

\* A dry run, or a controller that restarts before it applies.
Discard ==
  /\ cdc = "apply" /\ cdc' = "render"
  /\ client \/ minted + N + 1 <= MaxBundles
  /\ UNCHANGED <<legacy, secret, client, trusted, minted, manifest, hosts, disk, wipes>>

Apply ==
  /\ cdc = "apply" /\ cdc' = "render"
  /\ secret' = manifest.secret /\ client' = TRUE
  /\ hosts' = manifest.hosts
  /\ UNCHANGED <<legacy, trusted, minted, manifest, disk, wipes>>

\* The root-CA publisher of the management cluster.
Trust ==
  /\ ~trusted /\ trusted' = TRUE
  /\ UNCHANGED <<legacy, secret, client, minted, manifest, cdc, hosts, disk, wipes>>

\* A machine without a deployment takes the configDrive of its host.
Deploy(c) ==
  /\ hosts[c] # 0 /\ disk[c] = 0
  /\ disk' = [disk EXCEPT ![c] = hosts[c]]
  /\ UNCHANGED <<legacy, secret, client, trusted, minted, manifest, cdc, hosts, wipes>>

\* controlPlane.upgrade.targetNode.
Wipe(c) ==
  /\ disk[c] # 0 /\ wipes < MaxWipes
  /\ disk' = [disk EXCEPT ![c] = 0] /\ wipes' = wipes + 1
  /\ UNCHANGED <<legacy, secret, client, trusted, minted, manifest, cdc, hosts>>

-----------------------------------------------------------------------------
Next == \/ Render \/ Discard \/ Apply \/ Trust
        \/ \E c \in CPs : Deploy(c) \/ Wipe(c)

Spec == Init /\ [][Next]_vars
FairSpec == /\ Spec /\ WF_vars(Render) /\ SF_vars(Apply) /\ WF_vars(Trust)
            /\ \A c \in CPs : WF_vars(Deploy(c))
-----------------------------------------------------------------------------
Bundles == 0..MaxBundles

TypeOK ==
  /\ secret \in Bundles /\ minted \in Bundles
  /\ legacy \in BOOLEAN /\ client \in BOOLEAN /\ trusted \in BOOLEAN
  /\ manifest \in [secret : Bundles, hosts : [CPs -> Bundles]]
  /\ cdc \in {"render", "apply"}
  /\ hosts \in [CPs -> Bundles] /\ disk \in [CPs -> Bundles] /\ wipes \in 0..MaxWipes

\* The Secret of a cluster of this chart is the single source of truth: no host is
\* told and no node runs another bundle, however many renders come to nothing.
OneBundle == ~legacy => \A c \in CPs : {hosts[c], disk[c]} \subseteq {0, secret}

\* Fail-closed holds back a host that is not there yet; it never takes away one
\* that is, which would delete the node of a running control plane.
HostsAreKept == [][\A c \in CPs : hosts[c] # 0 => hosts'[c] # 0]_vars

\* In the end every control-plane node of such a cluster runs the Secret's bundle.
Converges == ~legacy => <>[](secret # 0 /\ \A c \in CPs : disk[c] = secret)
=============================================================================
