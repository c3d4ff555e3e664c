# Formal model of the Ironic operator

TLA+ modules, TLC configurations and TLAPS proofs for this repository: an
operator for OpenStack Ironic that has no operator program. Helm charts whose
gates read live state, three generic controllers and a handful of scripts make
up a distributed state machine, and what is hard about it is that none of its
parts waits for another.

Paths are relative to the repository; `KH` is
`charts/kubernetes-cluster/templates/_helpers.tpl`, `BH` is
`charts/baremetal-host/templates`.

## 1. The system

| Component | State | Operations | Talks to |
|---|---|---|---|
| **baremetal-host chart** (`BH/`) | none of its own: values, and by `lookup` the status of its BaremetalNode CR | per render: a BaremetalNode CR, and the NodeProvision CRs whose gates match (manage, inspect, provide, clean, deploy, undeploy), a NodePower CR | cdc renders and applies it; rdc serves the CRs |
| **composition-dynamic-controller** (cdc, external) | the Helm release: the last manifest | render (all `lookup`s), then apply: create what is new, patch what stayed, delete what left; uninstall | kube-apiserver |
| **rest-dynamic-controller** (rdc, external) with `manifests/restdefinition-*.yaml` | per CR: status, Pending condition | find, get, create, update, delete as far as the RestDefinition lists the verb | Ironic |
| **Ironic** (external) | `provision_state`, `instance_info`, `extra`, inspection data, power | accepts a provision target in some states, refuses it (409) in others, moves the node on, fails, abandons | the machine |
| **extra-bridge mirror** (`scripts/ironic-node-extra-bridge.py`) | none between polls | list CRs, GET node, then mirror managed keys Ironic -> CR, or clear both | Ironic, kube-apiserver |
| **extra-bridge orphan reaper** (same file, off by default) | none between rounds | list release Secrets, then per kind list the objects, judge, strip the finalizers, delete | kube-apiserver; helm and KOG act on the same objects |
| **blade scripts** (`KH`, cloud-init) | files and timers on the machine | publish deployed hash, stage, join command, drain kubeconfig to `node.extra`; `kubeadm init/join` | Ironic, workload apiserver |
| **kubernetes-cluster chart: workers** (`lifecycle-workers.yaml`, `drain-jobs.yaml`, `drain-kubeconfig-secret.yaml`) | `spec.workers.{nodes,removed,failedNodes}`, the drain Job, the kubeconfig Secret | per render: a BaremetalHost per worker, a drain Job per removal | cdc; the BaremetalHosts are compositions of their own |
| **kubernetes-cluster chart: PKI** (`KH` 428-592, `kubeadm-pki-secret.yaml`) | the kubeadm-pki Secret | generate or reuse the CA, gate the control-plane hosts on it | cdc |
| **kubernetes-cluster: join of the replicas** (`KH` 2203-2443) | none on the machine that outlives an attempt; etcd's membership | gates, ghost removal, wait for pending learners, `kubeadm join`, reset, five times | etcd of the bootstrap node; the replicas meet there only |
| **kubernetes-cluster: bootstrap, recovery** (`KH` 1399-1800, `lifecycle-cp*.yaml`) | | `kubeadm init`; a BaremetalHost for a failed node | |
| **token renewal** (`scripts/keystone-token-refresh.py`, `KH` 1137-1163) | a token in a Secret, one in `node.extra` | mint and publish on a timer | Keystone, kubeadm |
| **standing screens** (`make check`: `scripts/check-*.py`) | none; they read the sources | per screen a self-test, then the scan; the first failure ends it | the sources that maintainers edit |
| **regeneration of the CRDs** (`scripts/regenerate-restdefinition-crds.py`) | a marker in each OAS file | note the hashes, mark, apply the ConfigMaps, wait until each hash moved | oasgen-provider, which regenerates a CRD when its document's hash moves |
| **measurement of the serving window** (`scripts/measure-serving-window.py`) | the first times seen | sample the CRD, then a dry-run apply, until both show the field | kube-apiserver |
| etcd snapshots, superseded charts, probe charts, other one-shot tools, stacks | | | |

The behaviours that make it hard:

* **Stale gates.** A gate reads the CR's status, which rdc copied from Ironic
  some time ago; the manifest is applied later still, the PUT goes out later than
  that, and values change in between.
* **One-shot requests.** NodeProvision and NodePower have a `findby` that never
  matches and a `create`. A CR is PUT until Ironic takes it and never again; only
  a CR that is pruned and created anew is. rdc marks a CR (`external-create-pending`) before it
  creates; when it dies before the outcome is on record, its successor refuses to
  decide, and the CR is wedged until somebody removes the mark (`docs/IMPLEMENTATION.md`, 9.12-9.16).
* **Prune means delete.** What a template leaves out of one render is deleted by
  the next upgrade, also when it was left out because it exists already.
* **Two writers of `extra`.** The blade PATCHes single keys, rdc replaces the
  whole map by the CR's, the bridge copies in between, and `extra` outlives an
  undeploy. A rollout of the bridge runs two of them.
* **Coordination through a list.** Replicas join one at a time by looking at etcd's list of
  members first; between the look and the add, or the look and a removal, the list changes.
* **Two-pass renders.** A Secret rendered by the first pass is found by the
  second; every template that includes the helper decides again.
* **Judged here, deleted there.** The reaper decides on a list of releases, at an age,
  by a name, and each of the three may mean something else when the delete goes out.
* **Green that means nothing.** A screen that lost a rule, a script that exits with 0
  because its commands ran, a probe that failed and looks like a long window.
* **Timers.** Credentials expire; a renewal fails, takes its time, or is lost to a
  reboot.

What makes each correct: a *host* ends where its values say, never moves for
values that are no longer in force, and never boots without the cloud-init it
was meant to have; the *bridge* never shows a key of an earlier deploy as
current, never splits a bundle, never arms an automatic re-image, and delivers
what is published; a *worker* is drained before it is wiped, and in the end
released; a *cluster* has one CA and no control-plane host is taken away, and each of its
replicas becomes a voting member of etcd; a
*credential* is renewed before it expires; the *reaper* takes nothing for an orphan that a
release owns, and frees what blocks a retry, if its Role lets it; a green *screen*, an exit 0
of the *regeneration* and a printed *window* are true.

## 2. Modules

| Module | Models | Checked by | Proved in |
|---|---|---|---|
| `BaremetalHost` | one BaremetalHost release: operator, cdc, rdc, Ironic | `MCBaremetalHost`: HostSafe, HostConverges, HostSwapRace | `BaremetalHostProofs` |
| `HostLifecycle` | abstract: what a BaremetalHost promises | implemented by `BaremetalHost` in HostSafe | `BaremetalHostProofs` |
| `ExtraBridge` | one node's `extra`: blade, bridges, rdc's replay | `MCExtraBridge`: BridgeRollout, BridgeTimely | `ExtraBridgeProofs` |
| `WorkerRemoval` | one worker from `nodes` to its release | Worker, WorkerStuck | `WorkerRemovalProofs` |
| `NodePower` | the power half of a host | Power | |
| `ClusterPki` | the CA Secret and the hosts of all control-plane nodes | through `ControlPlane` | `ControlPlaneProofs` |
| `TokenRenewal` | a credential on a timer | through `Timers` | `TokenRenewalProofs` |
| `OrphanReaper` | the reapers, helm's installs, KOG's finalizers, time | `MCOrphanReaper`: Reaper, and through `Timers` | `OrphanReaperProofs` |
| `Timers` | the two jobs that go by the clock | `MCTimers`: Timers | |
| `ControlPlaneJoin` | the replicas of a control plane joining one etcd | through `ControlPlane` | `ControlPlaneProofs` |
| `ControlPlane` | a control plane from no Secret to joined replicas | `MCControlPlane`: ControlPlane | `ControlPlaneProofs` |
| `SchemaScreen`, `MappingScreen`, `ManifestScreen`, `BlueprintScreen` | the four screens as operators, with their self-tests and what each is meant to find | through `Maintenance` | `MaintenanceProofs` |
| `StandingScreens` | `make check` over sources and screens that are edited | through `Maintenance` | `MaintenanceProofs` |
| `CrdRegeneration` | the regeneration script, oasgen and its hashes | through `Maintenance` | `MaintenanceProofs` |
| `ServingWindow` | the measurement, in time | through `Maintenance` | `MaintenanceProofs` |
| `Maintenance` | the three tools of a maintainer | `MCMaintenance`: Maintenance | `MaintenanceProofs` |

The modules meet at what one promises and another assumes. `BaremetalHost` models
the `undeploy` half of the gate of `transition-undeploy` only: the other half, the
auto-redeploy, needs `deployed_configdrive_hash` in the CR's `spec.extra`, and
`ExtraBridgeProofs!RedeployGateShut` proves that it is never there.
`WorkerRemoval` carries as much of a BaremetalHost as a removal meets (enrol,
deploy, undeploy, delete). `TokenRenewal` takes the way of a published token
to its users from `ExtraBridge`.

### BaremetalHost

* `values` is `.Values` cut down to what the gates read. `Render` is one Helm
  render: it evaluates the gates (`manage`, `inspect`, `provide`, `clean`,
  `deploy`, `undeploy`, one operator per template, and `Renders` for the common
  `detached` gate) against `node`, the status in the CR, and keeps the outcome
  in `rendered`. `Apply` is Helm's upgrade. All `lookup`s of one render are taken
  at one instant: there is one node and one status to look up.
* `crs[t]` is a NodeProvision CR: `none`, `waiting` for Ironic to take it, `sent`
  (taken, not recorded), `pending` (recorded), `wedged`. `Put` and `Pending` are
  rdc's steps on it; `Crash` wedges it, before or after Ironic took the PUT. `Repair` is
  whoever removes the mark by hand: it may happen at any time, after which the CR is
  fired again, or never. Clean steps have a CR per list, as the name in
  `transition-clean.yaml` carries the hash of the list.
* `Enrol`, `PatchInfo`, `Observe`, `DeleteNode` are the verbs of
  `restdefinition-node.yaml`. That a PATCH during a cleaning loses the image is
  what the comments in `restdefinition-node.yaml` say of Ironic; whether a tear-down
  keeps or drops `instance_info` they do not say, so it is a free choice.
* `Progress` and `Fault` are Ironic: `Step`, `Failure`, `Accepts`, `Target`.
* `settled` is history: the last manifest applied was rendered from today's
  values. Most promises of the charts hold from there on, and only from there.
* `disk` is what the last accepted deploy writes; `disk.wanted` is the image the
  CR asked for at that moment.

### HostLifecycle

The state machine of `docs/USER-GUIDE.md` 104-145, as the promise to who writes the
values: seven phases, the goal in force, and what the machine boots; no manifests,
CRs, requests or observations. `BaremetalHost!Lifecycle` instantiates it with the
refinement mapping `Phase` (Ironic's state), `Goal` (what the values permit once a
manifest of theirs is applied, and anything until then) and `disk.image`.

### ExtraBridge

A value is the number of the publication it stems from, so "of this deploy" is a
comparison with `deployed`. The bridge's `reconcile_once` is one action per API
call, each of which may fail (`Fail`), with what the earlier calls returned in
`bridge[b]`. `RdcCompare`/`RdcReplay` are the comparison and the later
`replace /extra`. `Timely` names the assumption under which the docs' claims hold: a
node stays out of the active states for two polls, and rdc's replay is not older
than a poll. `BridgeRollout` runs without it.

### WorkerRemoval, NodePower, ClusterPki, TokenRenewal

`WorkerRemoval`: `list` is where the worker's entry is; `Apply` prunes, a
BaremetalHost has a finalizer, and one that is being deleted renders nothing any
more. `forced` remembers that the entry was in `failedNodes`, whose contract is
to skip the drain.

`NodePower`: the CR, its one create (`due`, `pending`, `wedged`), Ironic's `target_power_state`.
`restdefinition-power.yaml` lists no update, so there is no action that answers an edit.

`ClusterPki`: a bundle is the number of its generation; without a Secret to reuse,
the Secret and every host of one render generate bundles of their own.
`legacy`, chosen initially, is a cluster whose Secret a chart before 0.12.6 left.

`TokenRenewal`: discrete time in the unit of the instance; `Baked` says who
presents which token.

### OrphanReaper

`objects` is one object per path of `ORPHAN_RESOURCE_PATHS`, with the release that
made it (releases are numbered: every install has a fresh name), its age, KOG's
finalizer and whether it is being deleted. An install creates objects one by one
and records its Secret last; `Abandon` leaves them. A retry fails on leftovers, so
`Begin` waits until there are none. `reap_orphan_helm_artifacts` is one action per API call:
`list_tracked_helm_releases`, `Now` (the instant ages are measured against), `Look`
(list a path and judge), `Strip`, `Delete`; `Fail` is any call that raises. `lag`
counts the ticks since the list of Secrets, then since `Now`; ages stop growing at
`ORPHAN_MIN_AGE + SweepTime`, where nothing tells them apart.

`reaper[b].release` remembers whose object was judged to be an orphan, as `Strip` and
`Delete` go by name: a retry may begin at any time, also between the verdict and the
delete. `Role` says which verbs the bridge has on which path; a call that it does not
cover is refused, which the code logs and passes over. One assumption names what the code
relies on. `AgeOutlasts`: an install and the listing take less than
`ORPHAN_MIN_AGE_SECONDS` together.

`Timers` puts `TokenRenewal` and `OrphanReaper` side by side: `job`, chosen initially, says
which of the two a behaviour is of.

### ControlPlaneJoin and ControlPlane

`script[r]` is where `join.sh` of a replica is, its attempt, and the ids it took from the last
list; `member[r]` is its etcd member, whose id is the attempt that added it, so that a
removal by an old id meets a promoted member but not a later one. One action per call:
`ListGhosts` and `RemoveGhost` (`remove_ghost_etcd_members`, before and after each attempt),
`Quiet` and `PollsRunOut` (`wait_for_etcd_no_pending_learner`, whose result is not looked at),
`Add`, `Promote`, `Joined`, `Refused`, `KubeadmFails` (`kubeadm join`), `Reset`. `ListFails` and
`RemoveFails` are etcdctl's failures, which the script ignores; `ResetLeaves` is a reset that
removes nothing. `Reboot` ends a script for good: cloud-init runs it once per instance.
`partOf`, chosen initially, says whose address is a substring of whose. `Patient` and `Brisk` are the timing that
liveness needs: the gates outlast the bootstrap, and a `kubeadm join` (30-60 s, says `KH:2365`)
ends within the ten minutes that another replica polls. etcd's quorum is not modelled.

`ControlPlane` composes it with `ClusterPki`: `Booted`, once every machine runs a bundle, hands over
from the one to the other. The joins need what the first part establishes, one CA on all
machines; what the first part would still do (renders that read the Secret, a re-image) is
left out from there on. The scripts wait at their gates for the bootstrap (`Publish`) in any order.

### The screens

The four screens are operators, not state machines: what a run of a script returns,
as a function of the sources. A document is a record of what the rules read; a
schema is a graph of nodes with properties, items, composition members and a
`$ref`, so that cycles and sharing exist. Each operator takes `works`, the set of
*aspects* of the screen that still do what they were written for (a rule, or a part of
one, such as "fences that do not parse are counted"); the self-tests are translated
case by case and are evaluated with the same `works`. That is how a screen that
quietly lost something is a state of the model, and "the self-test notices" a
property. What the scripts compute by recursion (`walk`, `has_defaulted_descendant`,
`schema_paths`) is a search here: the nodes within so many steps of some others (`Within`),
24 where the script stops at a depth of 24, as many as there are nodes where it does not
stop (`Reach`). The memo that a script keeps of what it has seen saves it work and is left
out. That would change something where a search comes to its depth limit, which `IsBody`
excludes: fewer than twelve of a body's schemas have more to search below them (each is entered
once as a property, and from there at most one step is through `items`), and items are not arrays
themselves. `props.update` keeps the last declaration of a name: `compose` is a sequence,
`LastWord` is the last member that speaks of a name, and `merged_props` drops the others.

Beside each screen stands what it is meant to decide, stated without its searches:
`Invented` by what is said of a node anywhere (`Said`: by itself, where its `$ref` leads, what
it is composed of), `Served` and `Applies` by what a fresh install serves, `Generated` by what
oasgen leaves in a CRD, `Publishes` by what the gate asks for (`Gated`), what the card shows
(`Displayed`), what is installed (`Pinned`, and a url of its own) and what the form offers
(`Usable`). `Materialised` is the predicate of the docstring of
`check-defaulted-optional-objects.py`, at any depth, not the rule about the nearest holder by which
`check-blueprint-metadata.py` looks for it; `Sheltered` are the defaults where the two part.
A chart may have a definition without a url, and an archive whose listing comes back empty.
`IsChart` and `IsBody` say what a chart and a request body may
be; the second holds what the screen takes for granted and the documents under `oas/` keep to
(section 6). `StandingScreens` edits the sources (`EditSources`), loses aspects
(`Lose`) and runs `make check` in the order of the Makefile, recipe by recipe.

### CrdRegeneration and ServingWindow

A document's content is the stamp of its marker, in seconds, as the script writes it; a
hash is the content it was computed from. `crd[n]` is which generator wrote a CRD and
from what; `Regenerate` and `Report` are oasgen's two writes. `Upgrade` replaces
the generator: it does not regenerate, and takes longer than the second that a
stamp resolves. `create_ironic_oas_configmap` applies one ConfigMap per step, and a failed one
ends the script, as does a failed look while it waits (`Fail`).

`ServingWindow` has a clock, on which a sample takes up to `Sample` ticks; the CRD is written at
`schemaAt`, served from `servedAt` on. `crd_state` and `honoured` are the two legs of a
sample, at some instants within it; `stamp` dates both at its end.

`Maintenance` puts the three side by side. They share no state that another of them
decides on, so a behaviour is of one tool: `tool`, chosen initially.

## 3. Runs

Safety runs are over `Spec`, liveness runs over `FairSpec`.

| Run | Expect | States | Bounds, and why they are enough |
|---|---|---|---|
| HostSafe | pass | 2.8 M | ten values (hold, detach, every configDrive, clean steps, always with inspection); two edits put a third value in force over two earlier manifests; one fault, one rdc crash, an uninstall. Automated cleaning on, so every state of the node occurs. |
| HostConverges | pass | 18 k | three edits between deploy and hold, an rdc crash, no faults: a fault at `deploy failed` waits for the operator by design. |
| HostSwapRace | violation | | the swap that the test plan describes: hold, then a new image. |
| BridgeRollout | pass | 360 k | two bridges, two publications, a failed call, no timing assumption. Symmetric in the bridges. |
| BridgeTimely | pass | 36 k | one bridge, three publications (two deploys with a republication), a failed call, replays. |
| Worker | pass | 28 k | four edits: in and out of every list and back. |
| WorkerStuck | violation | | one edit. |
| Power | violation | | two edits of target and `detached`, one power change from outside, one lost outcome; an edit or a power change alone is enough. |
| ControlPlane | pass | 460 k | three control-plane nodes, as in the charts' examples. CA: room for two renders that come to nothing, one re-image; new and legacy. Joins: two replicas, addresses apart or one a prefix of the other, the five attempts of the script, three failures and one failing cleanup call (with a collision, the five that use the attempts up), a reboot. |
| Timers | pass | 317 k | the join token as shipped in steps of ten minutes: 72 of 144, jitter 1, a run of up to 2; one miss, one reboot. Or two reapers (a rollout), two paths, a Role that covers all calls, ages and installs in ticks of 20 s: three to be old, one for an install, one for the list, one for a sweep. Two failed installs, so that a retry can fail too, one failed call. |
| Reaper | violation | | the Role as shipped, the reaper switched on, one bridge, one failed install. |
| Maintenance | pass | 966 k | screens: two edits, so that two sources are out of step, two aspects of the screens hide each other, or an edit meets a lost aspect; every shape of three nested objects that is reached inline, by `$ref`, through composition or by a cycle, also with a name declared twice, in either order; a definition without a url, an archive without a listing. Regeneration: two upgrades, two runs, a failure; a definition with a file whose ConfigMap is not applied, and one without a file. Window: two ticks per sample, a pause of one, a failed leg, eight ticks of watch. |

What they show:

* `OnlyAllowedCRs` is the core. A manifest asks only for what its own values allow,
  and from the first applied manifest of today's values on no CR of earlier values
  is left. `HoldIsStable`, `KeptWhileWanted` and `DetachedIsLeftAlone` are its
  consequences for the machine. They do *not* hold earlier: a manifest rendered
  before an edit may be applied after it.
* `ImplementsLifecycle`: every step of the four parties is a step of the guide's
  machine or a stutter. It adds to the three that the phases follow one another
  as drawn, and that what a machine boots changes with a deploy and a release only.
* `DriveIsWhole`: a deploy CR is updated in place by later manifests until it is
  fired, and still never carries an empty or invalid drive.
* `InspectedBeforeProvide`, `InspectedOnce`: the first is about the way through
  `manageable`; an undeploy of a node whose cleaning failed reaches `available`
  without a provide and without an inspection. The second counts: another
  inspection takes a crash of rdc, a failure or an edit.
* `Converges` (host): the gates never form a loop; the mutant brings back the
  recovery that 0.6.1 removed for that reason. It excepts `Stuck`: a CR that wedged before
  its request landed, and that nobody repairs. One that wedged afterwards is pruned as
  the node moves on, and costs nothing.
* `NoAutoRedeploy`, `BundleCoherent`: for two bridges and replays. The mutants
  are the allow-list with the hash on it, and the list as it was before HA.
* `JoinIsCurrent`, `WindowCleans`: true with `Timely`; without it see section 6.
  `PublishedReachesCR` excepts a value that was taken off Ironic: only a replay can, so
  the loss of a publication to a replay is not what it would notice (section 6).
* `TargetIsEnforced` is violated: one create, one PUT, and neither an edit of
  `spec.online` nor a power change at the machine is answered (finding Power).
* `DrainedBeforeWiped`, `FailedIsReleased`; `OneBundle`, `Converges` (PKI), `HostsAreKept`; `MarginHolds`.
* `OnlyNamesakesGo`: through whatever list of releases the reapers hold, no object of a
  release that is recorded or being installed is deleted, with one exception: an
  object that took the name of an orphan after a sweep had judged that one. The property
  says that this is the only way (section 6); the mutant drops the age limit.
* `RetryGetsThroughIfMay`: with a Role that covers its calls, after the last failing install one
  succeeds, although KOG never lets go of its finalizer; the mutant leaves the finalizer to KOG.
  `RetryGetsThrough` with the Role that the manifest grants is violated (finding Reaper).
* `JoinedAreMembers`: whatever lists the other replicas still hold, a replica whose address
  contains no other's is a voter when its script succeeds; the mutant is a removal that is not
  scoped, and it takes a member that was promoted after the list. `NeverWaitsForItself`: the
  second cleanup makes up for one failing call. `GivesUpForAReason`: a collision costs an
  attempt, and each replica collides with each member added at most once; the mutant
  drops the wait. It is stated for at most one slip, a cleanup call that fails: after two, a
  replica may wait for its own learner, forty polls long, and the others lose attempts to
  that learner once more (with a bound of two slips, TLC shows it). `JoinsEnd`: nobody waits for ever, also not for the learner of a machine that
  rebooted; the mutant polls without a bound. Together: a replica joins, or the machine was
  rebooted, or enough failed.
* `BrokenScreenIsNoticed`: whatever aspects are lost together, a self-test fails, for
  those that some case turns on. `Unnoticed` lists the others. The mutant is the
  self-test of the OAS screen before the shapes from the field were added to it.
* `GreenManifestsApply`, `GreenBodiesInventNothing`, `GreenBlueprintPublishes`: a tree that
  passes is in order by the definition beside the screen. What a screen misses is an exception
  that the property names, and TLC refutes the property without it: a name declared twice
  (`Redeclares`), files that the screen did not see (`Elsewhere`), sheltered defaults
  (`Unsheltered`), a url that is absent or merely contains the chart's name. `CleanTreePasses` is the other
  direction, and `Overcautious` lists what is refused although nothing is wrong.
* `ZeroIsTrue`, `NudgeReaches`: exit 0 means that each CRD was written by the generator
  that ran at the start or a later one; and what was applied reaches oasgen whether or
  not the script waited for it.
* `MeasuresTheWindow`: the printed number is within two samples and a pause of the real
  window, and a round more for each failed sample; one less is refuted by TLC.

`CHECK_DEADLOCK FALSE` is in HostSafe, where an invalid `configDrive` fails every
render until it is edited and a deleted host is gone, in Maintenance, where a
measurement ends, and in ControlPlane, where every script ends.

**Fairness.** cdc and rdc are controllers with a resync, the bridge is an endless
poll: their steps are weakly fair. Ironic finishes what it started unless it
fails (`Progress`, `Switch`, `Released`). In `ClusterPki`, `Apply` is strongly fair:
a render may be discarded again and again but not for ever. Operator, publications,
faults, crashes, repairs, misses and the end of a drain by failure have no fairness. In
`OrphanReaper` and `Timers` the installs, the reapers' loops and the clock are weakly fair; KOG's
`Finalize` is not: not waiting for it is why the reaper strips finalizers. In
`ControlPlane` a script that runs goes on, and `Booted` is strongly fair, as each `Apply` is
followed by an instant at which nothing is half applied; failures, reboots and gates that time out are not
fair. In `CrdRegeneration` only oasgen is fair (it reconciles on a resync); the script is not: it may
be interrupted anywhere.

The type invariants of `WorkerRemoval`, `ClusterPki`, `TokenRenewal` and `OrphanReaper`
are proved (section 4) and in no run.

## 4. Proofs

Proved with TLAPS, for all values of the constants under the named assumption of
each module (`ConstantsAssumption`, `BridgeAssumption`, `EditsAssumption`,
`PkiAssumption`, `JoinAssumption`, `RenewalAssumption`, `ReaperAssumption`,
`RegenAssumption`, `WindowAssumption`, `ScreensAssumption`, `ChartsAssumption`,
`SchemasAssumption`, `MappingsAssumption`: bounds are naturals, flags are
Booleans, `None` and the transition names are different from the values, the instance's
`Specs` are values, a document that does not parse has no content, a values schema is
finite, without `$ref` or composition, and all of it lies below a root that is nobody's child (`IsChart`), a
request body keeps to what the screen takes for granted, and no search in it comes to the depth
limit, with which the memo would lose something (`IsBody`), and a
mapping is declared for a parameter that the OAS document has). `GreenChartsPublish` also
assumes `BLUEPRINT_ONLINE`: without it nothing is fetched, and `GreenChartsPassTheGate` is
what remains.

* **BaremetalHost.** `TypeCorrect`. `OnlyAllowed`: `OnlyAllowedCRs` is inductive
  over `TypeOK`, as it speaks of all three places where an intent waits: the
  manifest, the CRs, and the values behind `settled`. Lemma `RendersAllowed` is
  the only place that looks into the gates. `HoldStable`, `Kept`, `DetachedAlone`
  follow: a state changes by Ironic's own step or by a `Put` of a CR that exists.
  `Drive` is inductive over `TypeOK`. `Inspected` needs `ProvideIsEarned`: a status
  that says "inspected" is never ahead of Ironic, and neither is a manifest or a CR
  that came of it. `Implements` maps each action to one of `HostLifecycle`, where
  `OnlyAllowedCRs` gives the guards of `Provision` and `Release`;
  `BootsWhileDeployed` is proved of the abstract machine and inherited.
  `InspectionsCounted` needs an account of what is still to come (`CountInv`): whether
  the inspect CR is called for is a bit that travels from Ironic to the CR's status,
  the manifest and the cluster, each place holding an older one than the place before.
  `Due` counts the steps from "no" to "yes" along that way, plus a CR that waits to be
  fired; only an edit, a fault or a crash adds to it, and an inspection that Ironic takes
  uses one up. Outside `BeforeUse` nothing is due any more, short of a manual cleaning.
* **ExtraBridge.** `RedeployGateShut`: `HashStaysOut` says that neither the CR nor any map
  that a bridge listed from it has the hash; what a bridge *got* from Ironic does have
  it, and the step of `Mirror` is where the allow-list stops it. `BundleArrivesWhole`:
  `BundleCoherent` is inductive over `TypeOK`, because it already speaks of every
  copy under way; it needs that a bundle lies inside the managed keys.
  `JoinStaysCurrent` (`JoinIsCurrent` for one bridge under `Timely`) over `AgeInv`: a single
  bridge is the only writer of the CR, so that what it listed is still there
  (`CopiesAgree`); the first whole poll outside the active states empties the CR
  (`FirstPoll`), and the second one Ironic (`SecondPoll`), which a replay of what
  rdc had read before may refill during the first.
* **WorkerRemoval.** `IInv` follows an undeploy back to its cause (`JobMeansGone`,
  `UndeployMeansGone`) over `Books`, the bookkeeping between release, manifest and
  cluster. `RemovedNeverUndeploys` is stronger than `NeverWipedUndrained`: nothing
  but `failedNodes` ever wipes a deployed worker, because the upgrade that creates
  the drain Job also prunes the host. That is the safety side of the run
  WorkerStuck.
* **ClusterPki.** `ClusterAgrees` over `SecretFirst` (a manifest that waits was
  rendered from the Secret of now, or from none and then without hosts), for any
  number of nodes. `NoHostPruned` over `HostsGated` (gates that are open stay so).
* **ControlPlaneJoin.** One invariant, `JoinInv`, for any number of replicas, attempts, failures,
  slips and reboots, in three parts of one replica each. `Books`: only a cleanup has a list, and
  only of what the host takes for its own, so a list that is out of date can hurt nobody but a
  replica whose address contains another one's. `Votes`, with that, gives `JoinedVote`.
  `Cleaning` counts, while a replica has a ghost of its own, how many calls of its two cleanups
  must have failed by now: one after the first, two after the second; this gives
  `OwnGhostsGo`. A step of one replica changes at most the member of another (lemma
  `Others`), which is what the parts are closed under (lemma `Step`).
  `LostAttemptsAreCharged` (`GivesUpForAReason`, with `Brisk`) keeps an account, `AccountInv`:
  the attempts a replica has lost (`Used`, one less) never exceed `Charge`, the failures, the slips and the
  other replicas that have added a member and still hold it. A script that passed the wait
  before somebody else added a member is bound to be refused, and one whose host has a voter
  left over is bound to lose its attempt too; both are charged before it happens, which is what makes the
  account inductive. It is kept while `Calm` holds, and what ends `Calm`, it ends for good
  (`CalmBefore`): a member that is left behind is removed by nobody.
  `ScriptsRunOut` is the safety half of `JoinsEnd`: each step of a script starts a later attempt, or
  leaves less of this one (`Rest`), whatever fails and whatever the others do.
* **ControlPlane.** `ImplementsPki`: the composition is a `ClusterPki` that is left alone once
  the joins begin, so `JoinsWithOneCA` inherits `OneBundle` and `HostsAreKept`.
* **TokenRenewal.** `AgeInv` accounts for the age of the token: misses and reboots
  spend a cycle each. `MarginIsKept`: with a lifetime of more than `Tolerated + 1`
  periods and a run, so many failures in a row go unnoticed. For the Keystone
  token (20 minutes, 60, a run of 2) that is one, for the join token none.
  `ServedWithMargin`: the lifetime from which nothing is ever refused. Both
  speak of a token that is read where it is published (`~Baked`).
* **OrphanReaper.** `LiveIsSpared` (`OnlyNamesakesGo`) assumes `AgeOutlasts` and nothing of
  the retries, the Role or KOG. What carries it is an account of ages: an object of the install
  under way is no older than the install; an object that a reaper condemned is older than an
  install and a listing together, so its release was either on the list or is dead, and
  dead releases record nothing. What is deleted later by its name is dead too, or of a later release.
* **MaintenanceProofs.** Screens: `Reached` says what each stage of `make check` found, of the
  tree and the screens *as they are now*; it is inductive because every edit and every loss
  starts over. What a green run is worth depends on the self-tests, so they come
  first: `RulesWork`, `ConditionsWork`, `SuppressionWorks`, `BlueprintAspectsWork` and
  `SchemaAspectsWork` show, for an arbitrary set of aspects that still work, that a self-test
  which passes turns on each of them. This is `LostAspectsAreNoticed`, for any combination of
  losses (TLC loses two aspects at a time). With all aspects at work, each scan is held against
  the definition beside it, in any tree that edits can reach:
  `GreenTreesApply` (`ManifestsScreened`, `MappingsScreened`), `GreenBodiesAreScreened`,
  `GreenChartsPublish` and `GreenChartsPassTheGate`.
  What carries the last three is that `Reach` is the least set that has the start and whatever
  its nodes lead to (`ReachLeast`): a node that is new at each of as many steps as there are nodes
  is one too many (`Search`, by counting, as the prover has no induction over data). For the
  request bodies: the nodes of a chain of `$ref` share one end (`EndsShared`), what is said of a
  node is what the screen merges where its chain ends (`SaidIsMerged`), so a default below is
  found below (`DefaultFound`). A body that declares no name twice loses nothing to `props.update`
  (`Merged`). For the charts: a form has no part that the walk from the root misses (`Connected`),
  what is reached from an object is somebody's child (`InOnePiece`, `HolderFound`), so a default that
  is not sheltered has a holder that the rule looks at, and an object over it at any distance
  is not missed (`NothingMaterialises`).
  `CleanTreesPass` is the other direction. `Refused`, inductive for the same reason as
  `Reached`, says that a failure with no aspect lost is a failure of some stage on the tree of now;
  and no stage fails: the screens pass every case of their own self-tests
  (`ManifestCasesPass`, `SchemaCasesPass`, `BlueprintCasesPass`), and what they report of a tree is
  wrong by the definition beside them or `Overcautious` (`ManifestsPass`, `MappingsPass`,
  `BodiesPass`, `NothingToReport`). All are for any bodies, mappings, schemas, charts, recipe
  lines and number of edits.
  `ZeroMeansRegenerated` over `ZeroInv`: nothing that an earlier
  generator had written is reported after the start (`Report` is of the running
  generator), so a hash that differs from the one noted at the start was written since
  (`MovedIsNew`), and what is no longer waited for stays so (`DoneIsNew`).
  `WindowIsMeasured` over `WindowInv`: how late each first sighting can be, after every
  step of a sample (`SchemaLate`, `ServedLate`), for any durations; `MaxTime` only ends the
  clock. `ToolsKeepTheirPromises` carries these to `Maintenance`: whichever tool runs, the
  other two stutter, so a behaviour of the composition is one of `CrdRegeneration` and one
  of `ServingWindow`.

Only model-checked:

* liveness (`Converges`, `WindowCleans`, `PublishedReachesCR`, `FailedIsReleased`,
  `RetryGetsThroughIfMay`, `NudgeReaches`, `JoinsEnd`), which is beyond the prover.

Every other property that a passing run checks is stated by a theorem. Of the two credentials the
run has the join token only; the Keystone token is what `MarginIsKept` says for its numbers.

## 5. Not modelled

* Ports, port groups, allocations, deploy templates, `parent_node`, maintenance,
  `networkData`: CRUD without a state machine.
* The identity of the node: that `node_id` is missing from the generated CRD is a
  matter of the generator (oasgen), not of this repository's control flow.
* `cp-init.sh` of the bootstrap node (one sequential script), the recovery list of
  `lifecycle-cp-recovery.yaml`, and etcd's quorum: a voter whose reset did not remove it can cost
  it, which `ControlPlaneJoin` does not see.
* `baremetal-lifecycle`, `baremetal-discovery`: superseded by baremetal-host.
* etcd snapshots, `helm-set-release-status.py`, `preflight-refs.py`, probes, stacks, kagent: no
  state, or one-shot I/O.
* Of the screens: the text of the files. What YAML, a regular expression or `helm package`
  finds in it is in the records; that they find it is not modelled.
* Of the bridge: nodes that have no uuid yet, which it skips
  (`scripts/ironic-node-extra-bridge.py:187-189`); `ExtraBridge` starts with an enrolled node.
* Of `check-example-manifests.py`: the version that it assumes when an OAS file is missing (84-90); every
  file is there.
* Wording, logging, retries inside one script run: the outcome is a success or a
  failure of the step.

## 6. Disagreements with the documentation

The four violation runs are listed as findings in `PROJECT.json`: the image swap, the worker that is
never released, the power that is not enforced, the reaper that may not delete. While modelling, the
following came up too; each has been seen as a counterexample of a module here
and has no run of its own.

* **An abandoned deploy is not retried.** A 202 leaves the deploy CR Pending for
  good; when Ironic gives the deploy up and falls back to `available`, the same CR is
  still rendered. `docs/TEST-PLAN.md:280` lists "chart drops the deploy intent
  silently" as a failure.
* **A wedged CR stays wedged.** The state machine of `docs/USER-GUIDE.md` 104-145 has no way for a node
  whose CR carries `external-create-pending`: while the chart renders it, its request is never fired, and no
  resync removes the mark. `docs/IMPLEMENTATION.md` 9.12-9.16 measures one on a NodePower. `Converges` excepts it.
* **An undeploy that ends at `clean failed` is stuck** when no render saw the states
  in between: its CR is Pending. `BH/transition-undeploy.yaml:25` calls the gate
  "a true 'get me out, whatever you're stuck on' signal".
* **Dropping the image undeploys nothing**, against
  `charts/baremetal-host/values.yaml:99` ("the chart will undeploy first"), and
  **editing the image redeploys nothing**, against `manifests/restdefinition-node.yaml:34`.
* **`available` in the status may be stale** when the host is deleted:
  `docs/USER-GUIDE.md:447` promises "no 409".
* **The PATCH of `instance_info` is not gated** away from `cleaning`, as
  `manifests/restdefinition-node.yaml:151` asks the chart to.
* **Clean steps repeat**: a cleaning leaves `manageable` and comes back to it, so its
  CR is pruned, rendered and fired again without an edit
  (`charts/baremetal-host/values.yaml:95`: a fresh PUT for "each cleanSteps EDIT").
* **A replay can lose a publication** between rdc's comparison and its PATCH
  (`scripts/ironic-node-extra-bridge.py:71`), and **a tear-down between two polls**
  leaves the former deploy's keys trusted (same file, 160).
* **The hash never reaches the CR**, by design of the allow-list; `BH/_helpers.tpl:182`
  and `KH:374` still say that the bridge mirrors it.
* **A running drain Job is pruned** by the gate meant to leave it alone
  (`drain-jobs.yaml:8`).
* **The rotation of a legacy PKI does not converge**: each host gets a CA of its own
  and no redeploy follows (`KH:437`: "BH auto-redeploy converges").
* **A late worker presents the baked token**, which has expired
  (`KH:1010`: "pick up a fresh token"; `docs/KUBERNETES-CLUSTER.md:300`).
  `TokenRenewal` with `Baked = TRUE` refutes `NeverRefused`.
* **The reaper can delete what a retry just made**: the verdict is about an object, the delete
  is by name (`scripts/ironic-node-extra-bridge.py:347-364`). KOG (or another reaper) removes
  the orphan in between, the retry creates its own object of that name, may even record its
  Secret, and loses it. Line 308: "so we don't race a just-completing install".
  `OnlyNamesakesGo` names the exception; without it TLC shows this.
* **A prefix is enough.** Ghosts are chosen by `any(.peerURLs[]; contains($ip))` (`KH:2353`), a
  substring: a replica at 172.19.74.14 removes the learner of one at 172.19.74.140 while that one
  joins (`KH:2343`: "never someone else's currently-joining learner"). Two such replicas can use
  up each other's attempts until one gives up, without a failure of anything, and a removal by
  an old id can take a member that was promoted. `GivesUpForAReason` and `JoinedAreMembers` name
  the exception (`Apart`); without it TLC refutes both. **A reboot during a join** leaves a learner that no other
  replica removes: each of them polls, joins, is refused, and gives up after five times.
  `KH:2212` speaks of thirty attempts.
* **Half a nudge.** `regenerate-restdefinition-crds.py:174` refuses to "regenerate SOME
  definitions and leave others on the old generator", and then calls a script that applies
  four of the seven ConfigMaps: with an allocation, a port group or a deploy template
  live it does that, and ends with 2. A definition that vanishes while it waits ends it with
  a `KeyError` (191).
* **Resolution of the window.** `measure-serving-window.py:161` says a gap below the interval
  is reported as 0.0; the error is up to two samples and a pause, and a gap can come out
  negative, as the schema is looked at first. "still prunes" (155) is also printed when
  every dry-run merely failed.
* **The screens.** `check-blueprint-metadata.py:305` ("a chart that breaks each check"): category,
  maturity, the number of CompositionDefinitions, url, packaging, the value of the source, the
  image and `items` have no case. Its rule 8 (139: "Mirrors the predicate in
  crdgen/nesteddefault.go") looks at the nearest holder of a default only: it misses one in an
  array's items or in an inner object with a `required` of its own (`Sheltered`), and fires below
  required parents. The archive check takes a file in any subdirectory, and anything if the listing
  comes back empty (203-204); a url passes that merely contains the chart's name, and so does a
  definition that has none (263-264).
  `check-defaulted-optional-objects.py`: `walk` never looks below `items`, and `members` does
  not return from a schema that composes itself. It looks for a `default` and for `items` on the
  schema itself (93, 101) and not on what it is composed of, where `properties` are
  merged; it takes a `$ref` for all there is of a node; and it stops at a depth of 24, with a
  memo that, at that depth, may have been filled along a longer way (84-100). No document under `oas/`
  is of such a shape, and `IsBody` excludes them. Of a name that a composition declares twice it keeps
  one declaration (55-61) and never walks what is below the other: `Redeclares`. `check-mapping-sources.py:64` wants a clean
  run to mean a broken screen, so `KNOWN_BROKEN` has to be edited the day #419 is fixed; a
  field that no OAS document has is not noticed, and a definition without its document is
  a warning. `check-example-manifests.py`: a kubeadm `ClusterConfiguration`, or any
  other kind of that ending that is not one of the operator's, is refused, the
  version of a Configuration is not looked at, and only the first word of a recipe line is.
* **Keystone**: two failed refreshes leave no margin
  (`manifests/keystone-token-refresher.yaml:185` says two may fail). **Join token**:
  one missed refresh does (`docs/USER-GUIDE.md:609` says it does not), and a reboot
  restarts the period (`KH:1155`: "caught on next boot").

## 7. Plan

Done, in this order: BaremetalHost with its proofs and HostLifecycle, ExtraBridge with its proofs,
WorkerRemoval with its proofs, NodePower, ClusterPki with its proofs, TokenRenewal
with its proofs; then OrphanReaper with its proofs, the standing screens, the CRD
tooling with its proofs, Timers, ControlPlaneJoin, ControlPlane and their proofs;
the account of the lost attempts, and the proofs about the screens, in both directions.

What is left: etcd's quorum; `ClusterPki` with a Secret that is deleted; identifier matching.
