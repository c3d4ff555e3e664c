---------------------------- MODULE BaremetalHost ----------------------------
(***************************************************************************)
(* One BaremetalHost release: the baremetal-host chart as the state        *)
(* machine that walks an Ironic node from `enroll` to `active` and back.   *)
(*                                                                         *)
(* Four parties interleave, and none of them waits for another:            *)
(*   - the operator (or the parent chart) edits the values of the release; *)
(*   - composition-dynamic-controller (cdc) re-renders the chart: it looks *)
(*     up the BaremetalNode CR's status (Render) and only later applies    *)
(*     the manifest, creating and pruning NodeProvision CRs (Apply);       *)
(*   - rest-dynamic-controller (rdc) fires one PUT per NodeProvision CR,   *)
(*     records it as Pending, PATCHes the node and observes it;            *)
(*   - Ironic moves the node along, or fails to.                           *)
(*                                                                         *)
(* A NodeProvision kind has a `findby` that never matches and a `create`:  *)
(* a CR is fired once, and only a CR created anew is fired again.  rdc     *)
(* marks a create as pending before it sends it, and a mark whose outcome  *)
(* was never recorded stops it for good (IMPLEMENTATION 9.12-9.16): such a *)
(* CR is wedged until somebody takes the mark off by hand.                 *)
(*                                                                         *)
(* The gate of transition-undeploy is `undeploy or autoRedeploy'.  The     *)
(* second half reads a hash in the CR's spec.extra that module ExtraBridge *)
(* shows (and ExtraBridgeProofs proves) the bridge never puts there, so    *)
(* only the first half is modelled here.                                   *)
(***************************************************************************)
EXTENDS Naturals

CONSTANTS Images,       \* the values of spec.image.source
          StepLists,    \* the values of spec.cleanSteps, each with its own CR name
          None,         \* an image or a list of steps that is not set
          Specs,        \* the values the operator may apply in this instance
          AutomatedClean, \* Ironic cleans between `deleted` and `available`
          MayUninstall, \* the operator may delete the BaremetalHost
          MaxEdits,     \* bound: how often the values change
          MaxFaults,    \* bound: how often Ironic fails a step
          MaxCrashes    \* bound: how often the outcome of a create is not recorded

ConfigDrives == {"absent", "empty", "given", "invalid"}

Values == [image : Images \cup {None}, undeploy : BOOLEAN, detached : BOOLEAN,
           enableInspection : BOOLEAN, cleanSteps : StepLists \cup {None},
           configDrive : ConfigDrives]

\* The NodeProvision CRs of a release: one per transition, and one per list of
\* clean steps (the name carries the hash of the list).
Fixed == {"manage", "inspect", "provide", "deploy", "undeploy"}
Transitions == Fixed \cup StepLists

ASSUME ConstantsAssumption ==
  /\ Specs \subseteq Values
  /\ AutomatedClean \in BOOLEAN
  /\ MayUninstall \in BOOLEAN
  /\ StepLists \cap Fixed = {}
  /\ None \notin Images \cup Transitions /\ None \notin Specs
  /\ MaxEdits \in Nat /\ MaxFaults \in Nat /\ MaxCrashes \in Nat

\* Where the count of inspections stops: more than InspectedOnce allows.
MaxInspections == 2 + MaxEdits + MaxFaults + MaxCrashes

NodeStates == {"enroll", "verifying", "manageable", "inspecting", "inspect wait",
               "inspect failed", "cleaning", "clean failed", "available",
               "wait call-back", "deploying", "deploy failed", "active", "deleting"}

VARIABLES
  values,       \* .Values of the release
  rendered,     \* the manifest rendered and not yet applied, or Idle
  crs,          \* NodeProvision CRs: none, waiting, sent (not recorded), pending, wedged
  node,         \* the BaremetalNode CR: existence, instance_info image, status
  deployDrive,  \* spec.configdrive of the deploy CR
  state,        \* Ironic's provision_state
  cleanedTo,    \* Ironic: where a cleaning ends
  finished,     \* Ironic: inspection_finished_at is set
  info,         \* Ironic: instance_info.image_source
  disk,         \* the machine: what the last accepted deploy writes and boots
  settled,      \* the last manifest applied was rendered from today's values
  inspections,  \* how many inspections Ironic accepted, up to MaxInspections
  cleaned,      \* Ironic accepted a manual cleaning
  edits, faults, crashes

cdc == <<values, rendered, settled, edits>>
ironic == <<state, cleanedTo, finished, info, disk, inspections, cleaned, faults>>
vars == <<values, rendered, crs, node, deployDrive, state, cleanedTo, finished,
          info, disk, settled, inspections, cleaned, edits, faults, crashes>>

Idle == [from |-> None, crs |-> {}]
Blank == [image |-> None, wanted |-> None, configDrive |-> "absent"]

-----------------------------------------------------------------------------
(* The gates of the templates: which CRs a render of values v produces. *)

provisionState == node.state
inspectionFinishedAt == node.finished

manage(v) == provisionState = "enroll"

inspect(v) == /\ v.enableInspection /\ ~inspectionFinishedAt
              /\ provisionState \in {"manageable", "inspecting", "inspect wait"}

\* Mutant: the inspection gate of transition-provide is missing.
UngatedProvide(v) == provisionState = "manageable"

provide(v) == /\ provisionState = "manageable"
              /\ v.enableInspection => inspectionFinishedAt

clean(v) == provisionState = "manageable"

\* Mutants: a deploy that ignores the hold, and one that ignores the empty drive.
DeployIgnoringHold(v) == provisionState = "available" /\ v.image # None /\ v.configDrive # "empty"
DeployWithoutDrive(v) == provisionState = "available" /\ v.image # None /\ ~v.undeploy

\* An `empty` configDrive renders a marker ConfigMap in place of the CR.
deploy(v) == /\ provisionState = "available"
             /\ v.image # None
             /\ ~v.undeploy
             /\ v.configDrive # "empty"

undeployStates == {"active", "deploy failed", "clean failed", "wait call-back", "deploying"}

\* Mutant: the stuck call-back recovery that 0.6.1 removed, always true by then.
RecoverStuckCallback(v) ==
  (v.undeploy \/ provisionState = "wait call-back") /\ provisionState \in undeployStates

undeploy(v) == v.undeploy /\ provisionState \in undeployStates

\* Mutant: a template without the `detached` gate.
RendersDetached(t, v) ==
  \/ t = "manage"   /\ manage(v)
  \/ t = "inspect"  /\ inspect(v)
  \/ t = "provide"  /\ provide(v)
  \/ t = "deploy"   /\ deploy(v)
  \/ t = "undeploy" /\ undeploy(v)
  \/ t = v.cleanSteps /\ clean(v)

Renders(t, v) == /\ ~v.detached
                 /\ \/ t = "manage"   /\ manage(v)
                    \/ t = "inspect"  /\ inspect(v)
                    \/ t = "provide"  /\ provide(v)
                    \/ t = "deploy"   /\ deploy(v)
                    \/ t = "undeploy" /\ undeploy(v)
                    \/ t = v.cleanSteps /\ clean(v)

-----------------------------------------------------------------------------
Init ==
  /\ values \in Specs
  /\ rendered = Idle
  /\ crs = [t \in Transitions |-> "none"]
  /\ node = [cr |-> "none", image |-> None, state |-> "unobserved", finished |-> FALSE]
  /\ deployDrive = "absent"
  /\ state = "absent" /\ cleanedTo = "available" /\ finished = FALSE
  /\ info = None /\ disk = Blank
  /\ settled = FALSE
  /\ inspections = 0 /\ cleaned = FALSE
  /\ edits = 0 /\ faults = 0 /\ crashes = 0

(* --- the operator ------------------------------------------------------- *)

Edit ==
  /\ edits < MaxEdits
  /\ node.cr \in {"none", "present"}
  /\ values' \in Specs \ {values}
  /\ edits' = edits + 1
  /\ settled' = FALSE
  /\ UNCHANGED <<rendered, crs, node, deployDrive, state, cleanedTo, finished, info,
                 disk, inspections, cleaned, faults, crashes>>

\* `kubectl delete baremetalhost`, done as the values and the guide ask for it:
\* undeploy first, and only once the CR shows `available`.  cdc runs helm
\* uninstall without another render.
Uninstall ==
  /\ MayUninstall
  /\ node.cr = "present" /\ values.undeploy /\ node.state = "available"
  /\ node' = [node EXCEPT !.cr = "deleting"]
  /\ crs' = [t \in Transitions |-> "none"]
  /\ rendered' = Idle
  /\ UNCHANGED <<values, deployDrive, state, cleanedTo, finished, info, disk, settled,
                 inspections, cleaned, edits, faults, crashes>>

(* --- cdc ---------------------------------------------------------------- *)

\* A configDrive.userData that is no YAML fails the whole render.
Render ==
  /\ rendered = Idle
  /\ node.cr \in {"none", "present"}
  /\ values.configDrive # "invalid"
  /\ rendered' = [from |-> values, crs |-> {t \in Transitions : Renders(t, values)}]
  /\ UNCHANGED <<values, crs, node, deployDrive, settled, edits, crashes, ironic>>

\* Mutant: an apply that creates and updates but never prunes.
ApplyWithoutPrune ==
  /\ rendered # Idle
  /\ crs' = [t \in Transitions |-> IF t \in rendered.crs /\ crs[t] = "none" THEN "waiting"
                                   ELSE crs[t]]
  /\ node' = [node EXCEPT !.cr = "present", !.image = rendered.from.image]
  /\ deployDrive' = rendered.from.configDrive
  /\ settled' = (rendered.from = values)
  /\ rendered' = Idle
  /\ UNCHANGED <<values, edits, crashes, ironic>>

\* Helm creates what is new, updates what stays in place and prunes the rest.
\* An instance_info that is no longer rendered stays on the CR's Ironic side only.
Apply ==
  /\ rendered # Idle
  /\ crs' = [t \in Transitions |-> IF t \notin rendered.crs THEN "none"
                                   ELSE IF crs[t] = "none" THEN "waiting" ELSE crs[t]]
  /\ node' = [node EXCEPT !.cr = "present", !.image = rendered.from.image]
  /\ deployDrive' = rendered.from.configDrive
  /\ settled' = (rendered.from = values)
  /\ rendered' = Idle
  /\ UNCHANGED <<values, edits, crashes, ironic>>

(* --- rdc and the requests Ironic takes ---------------------------------- *)

\* The states from which Ironic accepts a provision target.
Accepts(t) ==
  CASE t = "manage"   -> state = "enroll"
    [] t = "inspect"  -> state \in {"manageable", "inspect failed"}
    [] t = "provide"  -> state = "manageable"
    [] t = "deploy"   -> state = "available" /\ info # None
    [] t = "undeploy" -> state \in undeployStates
    [] OTHER          -> state = "manageable"

Target(t) ==
  CASE t = "manage"   -> "verifying"
    [] t = "inspect"  -> "inspecting"
    [] t = "provide"  -> IF AutomatedClean THEN "cleaning" ELSE "available"
    [] t = "deploy"   -> "wait call-back"
    [] t = "undeploy" -> "deleting"
    [] OTHER          -> "cleaning"

\* The PUT of a CR that has not been fired; Ironic's refusal leaves it waiting.
Put(t) ==
  /\ crs[t] = "waiting"
  /\ Accepts(t)
  /\ crs' = [crs EXCEPT ![t] = "sent"]
  /\ state' = Target(t)
  /\ cleanedTo' = IF t \in StepLists THEN "manageable" ELSE "available"
  /\ inspections' = IF t = "inspect" /\ inspections < MaxInspections
                    THEN inspections + 1 ELSE inspections
  /\ cleaned' = (cleaned \/ t \in StepLists)
  /\ disk' = IF t = "deploy"
             THEN [image |-> info, wanted |-> node.image, configDrive |-> deployDrive]
             ELSE IF t = "undeploy" THEN Blank ELSE disk
  /\ UNCHANGED <<values, rendered, node, deployDrive, finished, info, settled, edits,
                 faults, crashes>>

\* Mutant: rdc loses the Pending condition and presents the CR as new again.
PendingLost(t) ==
  /\ crs[t] = "sent"
  /\ crs' = [crs EXCEPT ![t] = "waiting"]
  /\ UNCHANGED <<node, deployDrive, crashes, cdc, ironic>>

\* The 202 is recorded as a Pending condition: this CR is never fired again.
Pending(t) ==
  /\ crs[t] = "sent"
  /\ crs' = [crs EXCEPT ![t] = "pending"]
  /\ UNCHANGED <<node, deployDrive, crashes, cdc, ironic>>

\* rdc dies, or loses a conflict on the CR, after it wrote external-create-pending
\* and before it records how the create ended: taken, refused or never sent.
\* Whoever finds that mark refuses to decide, and the CR is not fired again.
Crash(t) ==
  /\ crs[t] \in {"waiting", "sent"} /\ crashes < MaxCrashes
  /\ crs' = [crs EXCEPT ![t] = "wedged"]
  /\ crashes' = crashes + 1
  /\ UNCHANGED <<node, deployDrive, cdc, ironic>>

\* Somebody removes the annotation: the CR looks new, though its PUT may have landed.
Repair(t) ==
  /\ crs[t] = "wedged"
  /\ crs' = [crs EXCEPT ![t] = "waiting"]
  /\ UNCHANGED <<node, deployDrive, crashes, cdc, ironic>>

\* POST /v1/nodes
Enrol ==
  /\ node.cr = "present" /\ state = "absent"
  /\ state' = "enroll" /\ info' = node.image
  /\ UNCHANGED <<crs, node, deployDrive, cleanedTo, finished, disk, inspections,
                 cleaned, faults, crashes, cdc>>

\* PATCH of instance_info when the CR and Ironic differ.  The chart does not
\* gate it, and Ironic drops instance_info when it is patched while cleaning.
PatchInfo ==
  /\ node.cr = "present" /\ state # "absent"
  /\ node.image \notin {None, info}
  /\ info' = IF state = "cleaning" THEN None ELSE node.image
  /\ UNCHANGED <<crs, node, deployDrive, state, cleanedTo, finished, disk, inspections,
                 cleaned, faults, crashes, cdc>>

\* Mutant: the answer for a node that is not there taken for an observation.
ObserveAbsent ==
  /\ node.cr = "present"
  /\ node' = [node EXCEPT !.state = state, !.finished = finished]
  /\ UNCHANGED <<crs, deployDrive, crashes, cdc, ironic>>

\* rdc finds the node and copies the observed fields into the CR's status.
Observe ==
  /\ node.cr = "present" /\ state # "absent"
  /\ node' = [node EXCEPT !.state = state, !.finished = finished]
  /\ UNCHANGED <<crs, deployDrive, crashes, cdc, ironic>>

Deletable == {"enroll", "manageable", "available", "inspect failed", "clean failed"}

\* DELETE /v1/nodes/{uuid}; outside these states Ironic answers 409.
DeleteNode ==
  /\ node.cr = "deleting" /\ state \in Deletable
  /\ node' = [node EXCEPT !.cr = "gone"]
  /\ state' = "absent"
  /\ UNCHANGED <<crs, deployDrive, cleanedTo, finished, info, disk, inspections,
                 cleaned, faults, crashes, cdc>>

(* --- Ironic ------------------------------------------------------------- *)

Step(s) == CASE s = "verifying"      -> {"manageable"}
             [] s = "inspecting"     -> {"inspect wait", "manageable"}
             [] s = "inspect wait"   -> {"manageable"}
             [] s = "cleaning"       -> {cleanedTo}
             [] s = "wait call-back" -> {"deploying"}
             [] s = "deploying"      -> {"active"}
             [] s = "deleting"       -> {IF AutomatedClean THEN "cleaning" ELSE "available"}
             [] OTHER                -> {}

\* A tear-down may keep instance_info or drop it: nothing here relies on either.
Progress ==
  /\ state' \in Step(state)
  /\ finished' = (finished \/ (state \in {"inspecting", "inspect wait"} /\ state' = "manageable"))
  /\ info' \in IF state = "deleting" THEN {info, None} ELSE {info}
  /\ UNCHANGED <<crs, node, deployDrive, cleanedTo, disk, inspections, cleaned, faults,
                 crashes, cdc>>

\* Where a step goes when it fails.  A deploy that Ironic took and then
\* abandons falls back to `available`.
Failure(s) == CASE s = "verifying"      -> {"enroll"}
                [] s \in {"inspecting", "inspect wait"} -> {"inspect failed"}
                [] s = "cleaning"       -> {"clean failed"}
                [] s = "wait call-back" -> {"deploy failed", "available"}
                [] s = "deploying"      -> {"deploy failed"}
                [] OTHER                -> {}

Fault ==
  /\ faults < MaxFaults
  /\ state' \in Failure(state)
  /\ faults' = faults + 1
  /\ disk' = IF state \in {"wait call-back", "deploying"} THEN Blank ELSE disk
  /\ UNCHANGED <<crs, node, deployDrive, cleanedTo, finished, info, inspections,
                 cleaned, crashes, cdc>>

-----------------------------------------------------------------------------
Next ==
  \/ Edit \/ Uninstall
  \/ Render \/ Apply
  \/ \E t \in Transitions : Put(t) \/ Pending(t) \/ Crash(t) \/ Repair(t)
  \/ Enrol \/ PatchInfo \/ Observe \/ DeleteNode
  \/ Progress \/ Fault

Spec == Init /\ [][Next]_vars

\* cdc re-renders and rdc reconciles periodically, and both retry what failed;
\* Ironic finishes what it started.  The operator, faults, crashes and repairs are
\* free: nobody need ever look at a wedged CR.
Fairness ==
  /\ WF_vars(Render) /\ WF_vars(Apply)
  /\ \A t \in Transitions : WF_vars(Put(t)) /\ WF_vars(Pending(t))
  /\ WF_vars(Enrol) /\ WF_vars(PatchInfo) /\ WF_vars(Observe) /\ WF_vars(DeleteNode)
  /\ WF_vars(Progress)

FairSpec == Spec /\ Fairness
-----------------------------------------------------------------------------
(* --- type ---------------------------------------------------------------- *)

\* Every variable stays within its type.
TypeOK ==
  /\ values \in Specs
  /\ rendered \in [from : Specs, crs : SUBSET Transitions] \cup {Idle}
  /\ crs \in [Transitions -> {"none", "waiting", "sent", "pending", "wedged"}]
  /\ node \in [cr : {"none", "present", "deleting", "gone"}, image : Images \cup {None},
               state : NodeStates \cup {"unobserved"}, finished : BOOLEAN]
  /\ deployDrive \in ConfigDrives
  /\ state \in NodeStates \cup {"absent"}
  /\ cleanedTo \in {"manageable", "available"}
  /\ finished \in BOOLEAN
  /\ info \in Images \cup {None}
  /\ disk \in [image : Images \cup {None}, wanted : Images \cup {None},
               configDrive : ConfigDrives]
  /\ settled \in BOOLEAN
  /\ inspections \in 0..MaxInspections /\ cleaned \in BOOLEAN
  /\ edits \in 0..MaxEdits /\ faults \in 0..MaxFaults /\ crashes \in 0..MaxCrashes

(* --- safety -------------------------------------------------------------- *)

\* `undeploy` is a hold at available (transition-deploy.yaml): once a manifest
\* rendered from it is applied, no CR left over from before, however late it is
\* fired or however often a wedged one is repaired, takes the machine out of
\* `available`.
HoldIsStable ==
  [][settled /\ values.undeploy /\ state = "available"
     => state' \in {"available", "absent"}]_vars

\* The gate of transition-undeploy: once the values that do not ask for it have
\* been applied, a running machine is left alone, so that an undeploy fired for
\* earlier values is never fired again (no undeploy/deploy loop).
KeptWhileWanted ==
  [][settled /\ ~values.undeploy /\ state = "active" => state' = "active"]_vars

\* A detached host is driven by nobody: after the manifest is applied no request
\* of this release moves the node, whatever it was in the middle of.
DetachedIsLeftAlone ==
  [][settled /\ values.detached /\ state' # state
     => state' \in Step(state) \cup Failure(state) \cup {"enroll", "absent"}]_vars

\* What a release may still ask for under values v, whatever the node's state.
Allowed(t, v) ==
  /\ ~v.detached
  /\ t = "deploy" => v.image # None /\ ~v.undeploy
  /\ t = "undeploy" => v.undeploy
  /\ t \in StepLists => t = v.cleanSteps

\* The heart of the argument: a manifest asks only for what its values allow,
\* and after one round with unchanged values no CR of earlier values survives,
\* although a manifest rendered before an edit may still be applied after it.
OnlyAllowedCRs ==
  /\ rendered # Idle => \A t \in rendered.crs : Allowed(t, rendered.from)
  /\ settled /\ rendered # Idle => rendered.from = values
  /\ settled => \A t \in Transitions : crs[t] # "none" => Allowed(t, values)

\* transition-deploy.yaml refuses to deploy when cloud-init was intended and is
\* missing, and validateConfigDrive fails the render of one that does not parse:
\* no deploy is rendered, waiting or done with such a drive, though a deploy CR
\* is updated in place by later manifests until it is fired.
DriveIsWhole ==
  LET whole == {"absent", "given"} IN
  /\ rendered # Idle => rendered.from.configDrive # "invalid"
  /\ rendered # Idle /\ "deploy" \in rendered.crs => rendered.from.configDrive \in whole
  /\ crs["deploy"] # "none" => deployDrive \in whole
  /\ disk.configDrive \in whole

\* With enableInspection on, a node is provided only inspected
\* (transition-provide.yaml waits for inspection_finished_at), whatever was cleaned,
\* undeployed or fired late before.  An undeploy of a node whose cleaning failed
\* needs no provide and gets to `available` without.
InspectedBeforeProvide ==
  [][/\ \A v \in Specs : v.enableInspection
     /\ state = "manageable" /\ state' \in {"cleaning", "available"} /\ cleanedTo' = "available"
     => finished]_vars

\* The window of transition-inspect.yaml keeps the CR through the round trip, so
\* one inspection is asked for and not one per render: another one takes a CR that
\* wedged, an inspection that failed, or values that let go of the host.  A
\* manual cleaning may fall in between, and is not covered.
InspectedOnce == cleaned \/ inspections <= 1 + crashes + faults + edits

(* --- the promise --------------------------------------------------------- *)

\* Ironic's state as a phase of HostLifecycle.
Phase ==
  CASE state = "absent"                                   -> "absent"
    [] state \in {"enroll", "verifying"}                  -> "enrolling"
    [] state = "available"                                -> "available"
    [] state \in {"wait call-back", "deploying"}          -> "provisioning"
    [] state = "active"                                   -> "running"
    [] state \in {"deploy failed", "clean failed"}        -> "failed"
    [] OTHER                                              -> "preparing"

\* The goal in force: what the values permit, once a manifest of theirs has been
\* applied; until then anything, as one of earlier values may still be under way.
Goal ==
  [deploy  |-> settled => ~values.detached /\ ~values.undeploy /\ values.image # None,
   release |-> settled => ~values.detached /\ values.undeploy]

Lifecycle == INSTANCE HostLifecycle WITH phase <- Phase, goal <- Goal, boots <- disk.image

\* The chart, two controllers and Ironic together implement the state machine of
\* USER-GUIDE 104-145: no step of any of them, for whatever values, late or
\* repeated, is one that the guide's machine does not have under the goal in force.
ImplementsLifecycle == Lifecycle!Spec

(* --- liveness ------------------------------------------------------------ *)

\* A CR that nobody fires although Ironic would take its request.
Stuck == \E t \in Transitions : crs[t] = "wedged" /\ Accepts(t)

\* Once the operator stops editing, the node ends where the values say: held at
\* available, or active with an image (USER-GUIDE, the state machine).  The one
\* thing that stops it on the way is a CR wedged before its request landed and not
\* repaired; one that wedged afterwards is pruned as the node moves on.
Converges ==
  /\ <>[](node.cr = "present" /\ values.undeploy => state = "available" \/ Stuck)
  /\ <>[](node.cr = "present" /\ ~values.undeploy /\ values.image # None
          => state = "active" \/ Stuck)

(* --- what the documents claim and the code does not do ------------------- *)

\* TEST-PLAN 1.1: a deploy after an image swap must not land the old image.
DeployLandsWantedImage == disk.image = disk.wanted
=============================================================================
