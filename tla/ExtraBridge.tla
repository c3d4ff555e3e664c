----------------------------- MODULE ExtraBridge -----------------------------
(***************************************************************************)
(* How what a blade publishes reaches Kubernetes, for one node.            *)
(*                                                                         *)
(*   blade --PATCH--> Ironic node.extra --bridge--> CR spec.extra          *)
(*                         ^                             |                 *)
(*                         +------- rdc replays ---------+                 *)
(*                                                                         *)
(* The blade's boot scripts add single keys, and publish-join.sh a bundle  *)
(* of keys in one JSON-Patch.  The extra-bridge polls: it lists the CRs,   *)
(* then GETs the node, then PATCHes; a rollout of its Deployment runs two  *)
(* of them for a while.  rest-dynamic-controller compares the CR with      *)
(* Ironic and, when a key that both have differs, replaces the whole of    *)
(* `extra` by the CR's.  Ironic keeps `extra` across undeploys.            *)
(*                                                                         *)
(* A value is the number of the publication it stems from; 0 is no value.  *)
(***************************************************************************)
EXTENDS Naturals

CONSTANTS Bridges,     \* the bridge processes that run at a time
          Published,   \* the keys that the blade of this node publishes
          Replays,     \* rdc's reconcile of the BaremetalNode CR takes part
          Timely,      \* a deploy outlasts a few polls, a poll one round of rdc
          MaxPubs,     \* bound: publications
          MaxFailures  \* bound: API calls of the bridge that fail

Hash == "deployed_configdrive_hash"
JoinKeys == {"kubeadm_join", "cert_key", "etcd_ip", "cp_endpoint"}

ASSUME BridgeAssumption ==
  /\ Published \subseteq JoinKeys \cup {Hash, "cp_stage", "drain_kubeconfig"}
  /\ Replays \in BOOLEAN /\ Timely \in BOOLEAN
  /\ MaxPubs \in Nat /\ MaxFailures \in Nat

Keys == Published \cup {Hash}
Bundle == Published \cap JoinKeys

\* Mutants: the list that cost an HA bootstrap, and one that arms the redeploy.
ListBeforeHA == {"kubeadm_join", "cert_key"}
ListWithHash == JoinKeys \cup {"cp_stage", "drain_kubeconfig", Hash}

EXTRA_KEYS == {"kubeadm_join", "cert_key", "etcd_ip", "cp_endpoint", "cp_stage",
               "drain_kubeconfig"}
Managed == EXTRA_KEYS \cap Keys

WaitCallBack == "wait call-back"
ACTIVE_LIKE_STATES == {"active", "deploying", WaitCallBack}

VARIABLES
  state,    \* Ironic's provision_state
  extra,    \* Ironic's node.extra
  crExtra,  \* spec.extra of the BaremetalNode CR
  bridge,   \* per bridge: where reconcile_once is, the CR it listed, the node it got
  replay,   \* rdc: the spec.extra it read and is about to PATCH, or Silent
  pubs,     \* how many publications there were
  latest,   \* what the blade published last in this deploy, per key
  deployed, \* pubs when this deploy began: older values are of earlier deploys
  rounds,   \* polls since the node left the active states or a call last failed
  failures

vars == <<state, extra, crExtra, bridge, replay, pubs, latest, deployed, rounds, failures>>
node == <<state, pubs, latest, deployed>>

Nothing == [k \in Keys |-> 0]
Silent == [on |-> FALSE, map |-> Nothing]
Start == [pc |-> "list", cr |-> Nothing, ir |-> Nothing]

Init ==
  /\ state = "available" /\ extra = Nothing /\ crExtra = Nothing
  /\ bridge = [b \in Bridges |-> Start]
  /\ replay = Silent
  /\ pubs = 0 /\ latest = Nothing /\ deployed = 0 /\ rounds = 0 /\ failures = 0

(* --- the machine -------------------------------------------------------- *)

Deploy ==
  /\ state = "available"
  /\ Timely => rounds >= 2
  /\ state' = WaitCallBack
  /\ deployed' = pubs /\ latest' = Nothing /\ rounds' = 0
  /\ UNCHANGED <<extra, crExtra, bridge, replay, pubs, failures>>

AgentCalls ==
  /\ state = WaitCallBack
  /\ state' = "deploying"
  /\ UNCHANGED <<extra, crExtra, bridge, replay, pubs, latest, deployed, rounds, failures>>

BootOS ==
  /\ state = "deploying"
  /\ Timely => \A b \in Bridges : bridge[b].pc \notin {"clearIronic", "clearCR"}
  /\ state' = "active"
  /\ UNCHANGED <<extra, crExtra, bridge, replay, pubs, latest, deployed, rounds, failures>>

TearDown ==
  /\ state \in ACTIVE_LIKE_STATES
  /\ state' = "deleting"
  /\ rounds' = 0
  /\ UNCHANGED <<extra, crExtra, bridge, replay, pubs, latest, deployed, failures>>

Released ==
  /\ state = "deleting"
  /\ state' = "available"
  /\ UNCHANGED <<extra, crExtra, bridge, replay, pubs, latest, deployed, rounds, failures>>

\* One JSON-Patch `add' of the keys ks, all from this publication.
Publish(ks) ==
  /\ state = "active" /\ ks # {} /\ pubs < MaxPubs
  /\ pubs' = pubs + 1
  /\ extra' = [k \in Keys |-> IF k \in ks THEN pubs + 1 ELSE extra[k]]
  /\ latest' = [k \in Keys |-> IF k \in ks THEN pubs + 1 ELSE latest[k]]
  /\ UNCHANGED <<state, crExtra, bridge, replay, deployed, rounds, failures>>

\* publish-deployed-hash.sh runs first and once per boot; the others follow, and
\* publish-join.sh again every twelve hours.
PublishHash == latest[Hash] = 0 /\ Publish({Hash} \cap Published)
PublishStage == Publish({"cp_stage"} \cap Published)
PublishDrain == Publish({"drain_kubeconfig"} \cap Published)
PublishJoin == Publish(Bundle)

(* --- ironic-node-extra-bridge.py: reconcile_once ------------------------ *)

List(b) ==
  /\ bridge[b].pc = "list"
  /\ Timely => ~replay.on
  /\ bridge' = [bridge EXCEPT ![b] = [pc |-> "get", cr |-> crExtra, ir |-> Nothing]]
  /\ UNCHANGED <<node, extra, crExtra, replay, rounds, failures>>

Get(b) ==
  /\ bridge[b].pc = "get"
  /\ bridge' = [bridge EXCEPT ![b].ir = extra,
                  ![b].pc = IF state \in ACTIVE_LIKE_STATES THEN "mirror" ELSE "clearIronic"]
  /\ UNCHANGED <<node, extra, crExtra, replay, rounds, failures>>

\* JSON-Patch: one `remove' of a key that has gone meanwhile fails them all.
ClearIronic(b) ==
  LET toClear == {k \in Managed : bridge[b].ir[k] # 0} IN
  /\ bridge[b].pc = "clearIronic"
  /\ extra' = IF \A k \in toClear : extra[k] # 0
              THEN [k \in Keys |-> IF k \in toClear THEN 0 ELSE extra[k]]
              ELSE extra
  /\ bridge' = [bridge EXCEPT ![b].pc = "clearCR"]
  /\ UNCHANGED <<node, crExtra, replay, rounds, failures>>

\* Mutant: the managed keys left out of the merge patch, which clears nothing.
ClearByOmission(b) ==
  /\ bridge[b].pc = "clearCR"
  /\ bridge' = [bridge EXCEPT ![b] = Start]
  /\ rounds' = IF state \in ACTIVE_LIKE_STATES \/ rounds = 2 THEN rounds ELSE rounds + 1
  /\ UNCHANGED <<node, extra, crExtra, replay, failures>>

\* RFC 7386: an explicit null per key that the listed CR has.
ClearCR(b) ==
  /\ bridge[b].pc = "clearCR"
  /\ crExtra' = [k \in Keys |-> IF k \in Managed /\ bridge[b].cr[k] # 0 THEN 0 ELSE crExtra[k]]
  /\ bridge' = [bridge EXCEPT ![b] = Start]
  /\ rounds' = IF state \in ACTIVE_LIKE_STATES \/ rounds = 2 THEN rounds ELSE rounds + 1
  /\ UNCHANGED <<node, extra, replay, failures>>

\* Mutant: only the keys that the CR has already are brought up to date.
KnownKeys(b) == {k \in Managed : bridge[b].cr[k] # 0 /\ bridge[b].ir[k] \notin {0, bridge[b].cr[k]}}

\* The keys that Ironic has with another value than the listed CR.
Deltas(b) == {k \in Managed : bridge[b].ir[k] \notin {0, bridge[b].cr[k]}}

\* The listed map and the deltas, merged into whatever the CR holds by now.
Mirror(b) ==
  /\ bridge[b].pc = "mirror"
  /\ crExtra' = [k \in Keys |-> IF Deltas(b) = {} THEN crExtra[k]
                                ELSE IF k \in Deltas(b) THEN bridge[b].ir[k]
                                ELSE IF bridge[b].cr[k] # 0 THEN bridge[b].cr[k]
                                ELSE crExtra[k]]
  /\ bridge' = [bridge EXCEPT ![b] = Start]
  /\ UNCHANGED <<node, extra, replay, rounds, failures>>

\* Mutant: a failed GET read as a node with an empty extra.
FailAsEmpty(b) ==
  /\ bridge[b].pc = "get" /\ failures < MaxFailures
  /\ failures' = failures + 1 /\ rounds' = 0
  /\ bridge' = [bridge EXCEPT ![b].ir = << >>, ![b].pc = "clearCR"]
  /\ UNCHANGED <<node, extra, crExtra, replay>>

\* A call fails: the node is skipped, except that a failed clear of Ironic is
\* logged and the CR is cleared all the same.
Fail(b) ==
  /\ bridge[b].pc # "list" /\ failures < MaxFailures
  /\ failures' = failures + 1 /\ rounds' = 0
  /\ bridge' = [bridge EXCEPT ![b] = IF @.pc = "clearIronic" THEN [@ EXCEPT !.pc = "clearCR"]
                                     ELSE Start]
  /\ UNCHANGED <<node, extra, crExtra, replay>>

(* --- rest-dynamic-controller -------------------------------------------- *)

\* A key of the spec that the response lacks is not compared.
RdcCompare ==
  /\ Replays /\ ~replay.on
  /\ \E k \in Keys : crExtra[k] # 0 /\ extra[k] \notin {0, crExtra[k]}
  /\ replay' = [on |-> TRUE, map |-> crExtra]
  /\ UNCHANGED <<node, extra, crExtra, bridge, rounds, failures>>

\* `replace /extra' with the map of the spec: the keys it lacks are gone.
RdcReplay ==
  /\ replay.on
  /\ extra' = replay.map
  /\ replay' = Silent
  /\ UNCHANGED <<node, crExtra, bridge, rounds, failures>>

-----------------------------------------------------------------------------
Machine == \/ Deploy \/ AgentCalls \/ BootOS \/ TearDown \/ Released
           \/ PublishHash \/ PublishStage \/ PublishDrain \/ PublishJoin

reconcile_once(b) == List(b) \/ Get(b) \/ ClearIronic(b) \/ ClearCR(b) \/ Mirror(b)

Next == \/ Machine
        \/ \E b \in Bridges : reconcile_once(b) \/ Fail(b)
        \/ RdcCompare \/ RdcReplay

Spec == Init /\ [][Next]_vars

\* The bridge polls for ever and rdc resyncs; machine and operator are free.
Fairness == /\ \A b \in Bridges : WF_vars(reconcile_once(b))
            /\ WF_vars(RdcCompare) /\ WF_vars(RdcReplay)

FairSpec == Spec /\ Fairness
-----------------------------------------------------------------------------
Maps == [Keys -> 0..MaxPubs]

\* Every variable stays within its type.
TypeOK ==
  /\ state \in ACTIVE_LIKE_STATES \cup {"available", "deleting"}
  /\ extra \in Maps /\ crExtra \in Maps /\ latest \in Maps
  /\ bridge \in [Bridges -> [pc : {"list", "get", "clearIronic", "clearCR", "mirror"},
                             cr : Maps, ir : Maps]]
  /\ replay \in [on : BOOLEAN, map : Maps]
  /\ pubs \in 0..MaxPubs /\ deployed \in 0..MaxPubs
  /\ rounds \in 0..2 /\ failures \in 0..MaxFailures

\* baremetal-host's shouldAutoRedeploy, for the hash that the chart renders.
observedConfigDriveHash == crExtra[Hash]
shouldAutoRedeploy(current) ==
  state = "active" /\ current # 0 /\ observedConfigDriveHash \notin {0, current}

\* EXTRA_KEYS leaves the hash out so that the gate of the auto-redeploy stays
\* shut: whatever bridges and rdc replay over each other, no chart bump re-images.
NoAutoRedeploy == \A current \in 0..MaxPubs : ~shouldAutoRedeploy(current)

\* The keys of one publish-join.sh arrive together: the CR never pairs a join
\* command with an endpoint or an etcd address of another publication, or none.
Coherent(m) == \A k, l \in Bundle : m[k] = m[l]
BundleCoherent ==
  /\ Coherent(crExtra) /\ Coherent(extra) /\ Coherent(replay.map)
  /\ \A b \in Bridges : Coherent(bridge[b].cr) /\ Coherent(bridge[b].ir)

\* ACTIVE_LIKE_STATES: a value on the CR in these states is of the current deploy.
\* True as long as the node stays out of them for two polls (Timely).
JoinIsCurrent ==
  state \in ACTIVE_LIKE_STATES
    => \A k \in Managed : crExtra[k] = 0 \/ crExtra[k] > deployed

\* Between deploys the managed keys are cleared from both sides.
WindowCleans ==
  (state \notin ACTIVE_LIKE_STATES)
    ~> (state \in ACTIVE_LIKE_STATES \/ \A k \in Managed : extra[k] = 0 /\ crExtra[k] = 0)

\* EXTRA_KEYS: a value that is listed, and that stays on Ironic while the node is
\* active, reaches Kubernetes; only a replay of rdc can take it away first.
PublishedReachesCR == \A k \in Managed : \A v \in 1..MaxPubs :
  (state = "active" /\ latest[k] = v)
    ~> (crExtra[k] = v \/ extra[k] # v \/ latest[k] # v \/ state # "active")
=============================================================================
