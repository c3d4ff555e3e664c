------------------------- MODULE BaremetalHostProofs -------------------------
(***************************************************************************)
(* Theorems of BaremetalHost for every set of images, clean steps and      *)
(* values, and any number of edits, faults and crashes.                    *)
(*                                                                         *)
(* TypeCorrect        Spec => []TypeOK                                     *)
(* OnlyAllowed        Spec => []OnlyAllowedCRs   (inductive over TypeOK)   *)
(* HoldStable, Kept, DetachedAlone                                         *)
(*                    the action properties that follow from it            *)
(* Drive              Spec => []DriveIsWhole     (inductive over TypeOK)   *)
(* Inspected          Spec => InspectedBeforeProvide                       *)
(* InspectionsCounted Spec => []InspectedOnce    (inductive over TypeOK)   *)
(* Implements         Spec => Lifecycle!Spec     (over OnlyAllowedCRs)     *)
(* BootsWhileDeployed Spec => []Lifecycle!Booted (inherited from there)    *)
(***************************************************************************)
EXTENDS BaremetalHost, TLAPS

\* What Step and Failure return, once for all proofs.
LEMMA StepType ==
  ASSUME NEW s \in NodeStates, cleanedTo \in {"manageable", "available"}
  PROVE  Step(s) \subseteq NodeStates /\ Failure(s) \subseteq NodeStates
BY ConstantsAssumption DEF Step, Failure, NodeStates

\* Ironic's states after a request are provision states.
LEMMA TargetType ==
  ASSUME NEW t \in Transitions
  PROVE  Target(t) \in NodeStates
BY DEF Target, NodeStates

LEMMA MaxInspectionsType == MaxInspections \in Nat
BY ConstantsAssumption, SMT DEF MaxInspections

\* Type correctness of every reachable state of a release.
THEOREM TypeCorrect == Spec => []TypeOK
<1>1. Init => TypeOK
  <2> SUFFICES ASSUME Init PROVE TypeOK
    OBVIOUS
  <2>1. rendered = Idle /\ values \in Specs
    BY DEF Init
  <2>2. crs \in [Transitions -> {"none", "waiting", "sent", "pending", "wedged"}]
    BY DEF Init
  <2>3. /\ edits \in 0..MaxEdits /\ faults \in 0..MaxFaults /\ crashes \in 0..MaxCrashes
        /\ inspections \in 0..MaxInspections
    BY ConstantsAssumption, MaxInspectionsType DEF Init
  <2> QED
    BY <2>1, <2>2, <2>3 DEF Init, TypeOK, Blank, ConfigDrives
<1>2. TypeOK /\ [Next]_vars => TypeOK'
  <2> SUFFICES ASSUME TypeOK, [Next]_vars PROVE TypeOK'
    OBVIOUS
  <2> USE DEF TypeOK
  <2>1. CASE Edit
    <3>1. edits' \in 0..MaxEdits
      BY <2>1, ConstantsAssumption DEF Edit
    <3> QED
      BY <2>1, <3>1 DEF Edit
  <2>2. CASE Uninstall
    BY <2>2 DEF Uninstall, Idle
  <2>3. CASE Render
    BY <2>3 DEF Render, ironic
  <2>4. CASE Apply
    <3>1. rendered \in [from : Specs, crs : SUBSET Transitions]
      BY <2>4 DEF Apply
    <3>2. rendered.from \in Values
      BY <3>1, ConstantsAssumption
    <3> QED
      BY <2>4, <3>1, <3>2 DEF Apply, ironic, Idle, Values
  <2>5. ASSUME NEW t \in Transitions, Put(t) PROVE TypeOK'
    <3>1. inspections' \in 0..MaxInspections
      <4>1. inspections' \in {inspections, inspections + 1}
            /\ (inspections' = inspections \/ inspections < MaxInspections)
        BY <2>5 DEF Put
      <4> QED
        BY <4>1, MaxInspectionsType
    <3>2. cleaned' \in BOOLEAN
      BY <2>5 DEF Put
    <3> QED
      BY <2>5, <3>1, <3>2, TargetType, ConstantsAssumption DEF Put, Blank, ConfigDrives
  <2>6. ASSUME NEW t \in Transitions, Pending(t) PROVE TypeOK'
    BY <2>6 DEF Pending, cdc, ironic
  <2>7. ASSUME NEW t \in Transitions, Crash(t) PROVE TypeOK'
    BY <2>7, ConstantsAssumption DEF Crash, cdc, ironic
  <2>7a. ASSUME NEW t \in Transitions, Repair(t) PROVE TypeOK'
    BY <2>7a DEF Repair, cdc, ironic
  <2>8. CASE Enrol
    <3>1. inspections' \in 0..MaxInspections /\ cleaned' \in BOOLEAN
      BY <2>8 DEF Enrol
    <3>2. state' \in NodeStates /\ info' \in Images \cup {None}
      BY <2>8 DEF Enrol, NodeStates
    <3> QED
      BY <2>8, <3>1, <3>2 DEF Enrol, cdc
  <2>9. CASE PatchInfo
    BY <2>9 DEF PatchInfo, cdc
  <2>10. CASE Observe
    BY <2>10 DEF Observe, cdc, ironic
  <2>11. CASE DeleteNode
    BY <2>11 DEF DeleteNode, cdc
  <2>12. CASE Progress
    <3>1. state \in NodeStates
      BY <2>12 DEF Progress, Step
    <3> QED
      BY <2>12, <3>1, StepType DEF Progress, cdc
  <2>13. CASE Fault
    <3>1. state \in NodeStates
      BY <2>13 DEF Fault, Failure
    <3> QED
      <4>1. faults' \in 0..MaxFaults
        <5>1. faults < MaxFaults /\ faults' = faults + 1
          BY <2>13 DEF Fault
        <5> QED
          BY <5>1, ConstantsAssumption
      <4>2. state' \in NodeStates
        BY <2>13, <3>1, StepType DEF Fault
      <4>3. disk' \in {disk, Blank}
        BY <2>13 DEF Fault
      <4>4. inspections' \in 0..MaxInspections /\ cleaned' \in BOOLEAN
        BY <2>13 DEF Fault
      <4>5. disk' \in [image : Images \cup {None}, wanted : Images \cup {None},
                       configDrive : ConfigDrives]
        BY <4>3 DEF Blank, ConfigDrives
      <4> QED
        BY <2>13, <4>1, <4>2, <4>4, <4>5 DEF Fault, cdc
  <2>14. CASE UNCHANGED vars
    BY <2>14 DEF vars
  <2> QED
    BY <2>1, <2>2, <2>3, <2>4, <2>5, <2>6, <2>7, <2>7a, <2>8, <2>9, <2>10, <2>11,
       <2>12, <2>13, <2>14 DEF Next
<1>3. QED
  BY <1>1, <1>2, PTL DEF Spec

\* A template's gate never renders a CR that the values do not allow.
LEMMA RendersAllowed ==
  ASSUME NEW v \in Specs, NEW t \in Transitions, Renders(t, v)
  PROVE  Allowed(t, v)
<1>1. v \in Values
  BY ConstantsAssumption
<1>2. v.cleanSteps \in StepLists \cup {None}
  BY <1>1 DEF Values
<1>3. ~v.detached
  BY DEF Renders
<1>4. t = "deploy" => v.image # None /\ ~v.undeploy
  BY <1>2, ConstantsAssumption DEF Renders, deploy, Transitions, Fixed
<1>5. t = "undeploy" => v.undeploy
  BY <1>2, ConstantsAssumption DEF Renders, undeploy, Transitions, Fixed
<1>6. t \in StepLists => t = v.cleanSteps
  BY ConstantsAssumption DEF Renders, Fixed
<1> QED
  BY <1>3, <1>4, <1>5, <1>6 DEF Allowed

\* An undeploy, a deploy or a clean that the applied values do not ask for has no
\* CR, however manifests, edits, deletions and crashes interleave.
THEOREM OnlyAllowed == Spec => []OnlyAllowedCRs
<1>1. Init => OnlyAllowedCRs
  BY DEF Init, OnlyAllowedCRs
<1>2. TypeOK /\ OnlyAllowedCRs /\ [Next]_vars => OnlyAllowedCRs'
  <2> SUFFICES ASSUME TypeOK, OnlyAllowedCRs, [Next]_vars PROVE OnlyAllowedCRs'
    OBVIOUS
  <2>1. CASE Edit
    BY <2>1 DEF Edit, OnlyAllowedCRs
  <2>2. CASE Uninstall
    BY <2>2 DEF Uninstall, OnlyAllowedCRs
  <2>3. CASE Render
    <3>1. /\ rendered' = [from |-> values, crs |-> {t \in Transitions : Renders(t, values)}]
          /\ UNCHANGED <<values, crs, settled>>
      BY <2>3 DEF Render
    <3>2. \A t \in rendered'.crs : Allowed(t, rendered'.from)
      BY <3>1, RendersAllowed DEF TypeOK
    <3> QED
      BY <3>1, <3>2 DEF OnlyAllowedCRs
  <2>4. CASE Apply
    <3>1. settled' => rendered.from = values /\ values' = values
      BY <2>4 DEF Apply
    <3>2. \A t \in Transitions : crs'[t] # "none" => t \in rendered.crs
      BY <2>4 DEF Apply
    <3>3. \A t \in rendered.crs : Allowed(t, rendered.from)
      BY <2>4 DEF Apply, OnlyAllowedCRs
    <3>4. rendered' = Idle
      BY <2>4 DEF Apply
    <3> QED
      BY <3>1, <3>2, <3>3, <3>4 DEF OnlyAllowedCRs
  <2>5. ASSUME NEW t \in Transitions, Put(t) \/ Pending(t) \/ Crash(t) \/ Repair(t)
        PROVE  OnlyAllowedCRs'
    <3>1. UNCHANGED <<values, rendered, settled>> /\ crs[t] # "none"
      BY <2>5 DEF Put, Pending, Crash, Repair, cdc
    <3>2. \A u \in Transitions : crs'[u] # "none" => crs[u] # "none"
      BY <2>5, <3>1 DEF Put, Pending, Crash, Repair, TypeOK
    <3> QED
      BY <3>1, <3>2 DEF OnlyAllowedCRs
  <2>6. CASE Enrol \/ PatchInfo \/ Observe \/ DeleteNode \/ Progress \/ Fault \/ UNCHANGED vars
    <3>1. UNCHANGED <<values, rendered, settled, crs>>
      BY <2>6 DEF Enrol, PatchInfo, Observe, DeleteNode, Progress, Fault, vars, cdc
    <3> QED
      BY <3>1 DEF OnlyAllowedCRs
  <2> QED
    BY <2>1, <2>2, <2>3, <2>4, <2>5, <2>6 DEF Next
<1>3. QED
  BY <1>1, <1>2, TypeCorrect, PTL DEF Spec

\* Once a hold has been applied nothing of this release moves the machine out of
\* `available`: the only request Ironic takes there is the deploy.
THEOREM HoldStable == Spec => HoldIsStable
<1> DEFINE Held == settled /\ values.undeploy /\ state = "available"
                   => state' \in {"available", "absent"}
<1>1. TypeOK /\ OnlyAllowedCRs /\ [Next]_vars => Held
  <2> SUFFICES ASSUME TypeOK, OnlyAllowedCRs, [Next]_vars,
                      settled, values.undeploy, state = "available"
               PROVE  state' \in {"available", "absent"}
    OBVIOUS
  <2>1. ASSUME NEW t \in Transitions, Put(t) PROVE FALSE
    <3>1. t = "deploy"
      BY <2>1, ConstantsAssumption
      DEF Put, Accepts, undeployStates, Transitions, Fixed
    <3>2. crs[t] # "none"
      BY <2>1 DEF Put
    <3>3. ~values.undeploy
      BY <2>1, <3>1, <3>2 DEF OnlyAllowedCRs, Allowed
    <3> QED
      BY <3>3
  <2>2. CASE Progress
    BY <2>2 DEF Progress, Step
  <2>3. CASE Fault
    BY <2>3 DEF Fault, Failure
  <2>4. CASE Enrol \/ DeleteNode
    BY <2>4 DEF Enrol, DeleteNode
  <2>5. CASE Edit \/ Uninstall \/ Render \/ Apply \/ PatchInfo \/ Observe \/ UNCHANGED vars
             \/ \E t \in Transitions : Pending(t) \/ Crash(t) \/ Repair(t)
    BY <2>5 DEF Edit, Uninstall, Render, Apply, PatchInfo, Observe, Pending, Crash, Repair, ironic, vars
  <2> QED
    BY <2>1, <2>2, <2>3, <2>4, <2>5 DEF Next
<1>2. QED
  BY <1>1, TypeCorrect, OnlyAllowed, PTL DEF Spec, HoldIsStable

\* Once values that do not ask for an undeploy have been applied, a running
\* machine keeps running: Ironic takes nothing but an undeploy from `active`.
THEOREM Kept == Spec => KeptWhileWanted
<1> DEFINE Runs == settled /\ ~values.undeploy /\ state = "active" => state' = "active"
<1>1. TypeOK /\ OnlyAllowedCRs /\ [Next]_vars => Runs
  <2> SUFFICES ASSUME TypeOK, OnlyAllowedCRs, [Next]_vars,
                      settled, ~values.undeploy, state = "active"
               PROVE  state' = "active"
    OBVIOUS
  <2>1. ASSUME NEW t \in Transitions, Put(t) PROVE FALSE
    <3>1. t = "undeploy"
      BY <2>1, ConstantsAssumption DEF Put, Accepts, Transitions, Fixed
    <3>2. crs[t] # "none"
      BY <2>1 DEF Put
    <3> QED
      BY <2>1, <3>1, <3>2 DEF OnlyAllowedCRs, Allowed
  <2>2. CASE Progress
    BY <2>2 DEF Progress, Step
  <2>3. CASE Fault
    BY <2>3 DEF Fault, Failure
  <2>4. CASE Enrol \/ DeleteNode
    BY <2>4 DEF Enrol, DeleteNode, Deletable
  <2>5. CASE Edit \/ Uninstall \/ Render \/ Apply \/ PatchInfo \/ Observe \/ UNCHANGED vars
             \/ \E t \in Transitions : Pending(t) \/ Crash(t) \/ Repair(t)
    BY <2>5 DEF Edit, Uninstall, Render, Apply, PatchInfo, Observe, Pending, Crash, Repair, ironic, vars
  <2> QED
    BY <2>1, <2>2, <2>3, <2>4, <2>5 DEF Next
<1>2. QED
  BY <1>1, TypeCorrect, OnlyAllowed, PTL DEF Spec, KeptWhileWanted

\* A detached release fires nothing: the node moves only by itself, by being
\* enrolled or by being deleted.
THEOREM DetachedAlone == Spec => DetachedIsLeftAlone
<1> DEFINE Alone == settled /\ values.detached /\ state' # state
                    => state' \in Step(state) \cup Failure(state) \cup {"enroll", "absent"}
<1>1. TypeOK /\ OnlyAllowedCRs /\ [Next]_vars => Alone
  <2> SUFFICES ASSUME TypeOK, OnlyAllowedCRs, [Next]_vars,
                      settled, values.detached, state' # state
               PROVE  state' \in Step(state) \cup Failure(state) \cup {"enroll", "absent"}
    OBVIOUS
  <2>1. ASSUME NEW t \in Transitions, Put(t) PROVE FALSE
    BY <2>1 DEF Put, OnlyAllowedCRs, Allowed
  <2>2. CASE Progress \/ Fault \/ Enrol \/ DeleteNode
    BY <2>2 DEF Progress, Fault, Enrol, DeleteNode
  <2>3. CASE Edit \/ Uninstall \/ Render \/ Apply \/ PatchInfo \/ Observe \/ UNCHANGED vars
             \/ \E t \in Transitions : Pending(t) \/ Crash(t) \/ Repair(t)
    BY <2>3 DEF Edit, Uninstall, Render, Apply, PatchInfo, Observe, Pending, Crash, Repair, ironic, vars
  <2> QED
    BY <2>1, <2>2, <2>3 DEF Next
<1>2. QED
  BY <1>1, TypeCorrect, OnlyAllowed, PTL DEF Spec, DetachedIsLeftAlone

\* No machine is deployed with a configDrive that is empty though intended, or
\* that does not parse.
THEOREM Drive == Spec => []DriveIsWhole
<1>1. Init => DriveIsWhole
  BY DEF Init, DriveIsWhole, Transitions, Fixed, Idle, Blank
<1>2. TypeOK /\ DriveIsWhole /\ [Next]_vars => DriveIsWhole'
  <2> SUFFICES ASSUME TypeOK, DriveIsWhole, [Next]_vars PROVE DriveIsWhole'
    OBVIOUS
  <2>0. "deploy" \in Transitions
    BY DEF Transitions, Fixed
  <2>1. CASE Edit
    BY <2>1 DEF Edit, DriveIsWhole
  <2>2. CASE Uninstall
    BY <2>0, <2>2 DEF Uninstall, DriveIsWhole
  <2>3. CASE Render
    <3>1. /\ rendered' = [from |-> values, crs |-> {t \in Transitions : Renders(t, values)}]
          /\ values.configDrive # "invalid"
          /\ UNCHANGED <<crs, deployDrive, disk>>
      BY <2>3 DEF Render, ironic
    <3>2. values.configDrive \in ConfigDrives
      BY ConstantsAssumption DEF TypeOK, Values
    <3>3. Renders("deploy", values) => values.configDrive # "empty"
      <4>1. values.cleanSteps # "deploy"
        BY ConstantsAssumption DEF TypeOK, Values, Transitions, Fixed
      <4> QED
        BY <4>1 DEF Renders, deploy
    <3> QED
      BY <3>1, <3>2, <3>3 DEF DriveIsWhole, ConfigDrives
  <2>4. CASE Apply
    BY <2>0, <2>4 DEF Apply, DriveIsWhole, ironic
  <2>5. ASSUME NEW t \in Transitions, Put(t) PROVE DriveIsWhole'
    <3>1. UNCHANGED <<rendered, deployDrive>> /\ crs[t] # "none"
      BY <2>5 DEF Put
    <3>2. crs'["deploy"] # "none" => crs["deploy"] # "none"
      BY <2>0, <2>5 DEF Put, TypeOK
    <3>3. disk'.configDrive \in {"absent", "given"}
      BY <2>5, <3>1 DEF Put, Blank, DriveIsWhole
    <3> QED
      BY <3>1, <3>2, <3>3 DEF DriveIsWhole
  <2>6. ASSUME NEW t \in Transitions, Pending(t) \/ Crash(t) \/ Repair(t) PROVE DriveIsWhole'
    <3>1. UNCHANGED <<rendered, deployDrive, disk>> /\ crs[t] # "none"
      BY <2>6 DEF Pending, Crash, Repair, cdc, ironic
    <3>2. crs'["deploy"] # "none" => crs["deploy"] # "none"
      BY <2>0, <2>6 DEF Pending, Crash, Repair, TypeOK
    <3> QED
      BY <3>1, <3>2 DEF DriveIsWhole
  <2>7. CASE Enrol \/ PatchInfo \/ Observe \/ DeleteNode \/ Progress \/ Fault \/ UNCHANGED vars
    <3>1. UNCHANGED <<rendered, crs, deployDrive>>
      BY <2>7 DEF Enrol, PatchInfo, Observe, DeleteNode, Progress, Fault, cdc, vars
    <3>2. disk' \in {disk, Blank}
      BY <2>7 DEF Enrol, PatchInfo, Observe, DeleteNode, Progress, Fault, ironic, vars
    <3> QED
      BY <3>1, <3>2 DEF DriveIsWhole, Blank
  <2> QED
    BY <2>1, <2>2, <2>3, <2>4, <2>5, <2>6, <2>7 DEF Next
<1>3. QED
  BY <1>1, <1>2, TypeCorrect, PTL DEF Spec

\* Where every value asks for an inspection, a provide is rendered, waiting or fired
\* only once there has been one; the status may be old, but not of a time to come.
ProvideIsEarned ==
  /\ node.finished => finished
  /\ (\A v \in Specs : v.enableInspection) =>
       /\ rendered # Idle /\ "provide" \in rendered.crs => finished
       /\ crs["provide"] # "none" => finished

\* The provide gate reads a stale status, and is right all the same: an inspection
\* that is finished stays finished.
THEOREM Inspected == Spec => InspectedBeforeProvide
<1> DEFINE Asked == \A v \in Specs : v.enableInspection
<1> DEFINE Leaves == /\ Asked
                     /\ state = "manageable" /\ state' \in {"cleaning", "available"}
                     /\ cleanedTo' = "available"
                     => finished
<1>0. "provide" \in Transitions /\ "provide" \notin StepLists
  BY ConstantsAssumption DEF Transitions, Fixed
<1>1. Init => ProvideIsEarned
  BY <1>0 DEF Init, ProvideIsEarned
<1>2. TypeOK /\ ProvideIsEarned /\ [Next]_vars => ProvideIsEarned'
  <2> SUFFICES ASSUME TypeOK, ProvideIsEarned, [Next]_vars PROVE ProvideIsEarned'
    OBVIOUS
  <2>1. CASE Edit
    BY <2>1 DEF Edit, ProvideIsEarned
  <2>2. CASE Uninstall
    <3>1. node'.finished = node.finished
      BY <2>2 DEF Uninstall, TypeOK
    <3> QED
      BY <1>0, <2>2, <3>1 DEF Uninstall, ProvideIsEarned
  <2>3. CASE Render
    <3>1. /\ rendered' = [from |-> values, crs |-> {t \in Transitions : Renders(t, values)}]
          /\ UNCHANGED <<crs, node, finished>>
      BY <2>3 DEF Render, ironic
    <3>2. Asked /\ Renders("provide", values) => node.finished
      <4>1. values \in Specs /\ values.cleanSteps # "provide"
        BY <1>0, ConstantsAssumption DEF TypeOK, Values
      <4> QED
        BY <4>1 DEF Renders, provide, inspectionFinishedAt
    <3> QED
      BY <3>1, <3>2 DEF ProvideIsEarned
  <2>4. CASE Apply
    <3>1. node'.finished = node.finished
      BY <2>4 DEF Apply, TypeOK
    <3> QED
      BY <1>0, <2>4, <3>1 DEF Apply, ironic, ProvideIsEarned
  <2>5. ASSUME NEW t \in Transitions, Put(t) \/ Pending(t) \/ Crash(t) \/ Repair(t)
        PROVE  ProvideIsEarned'
    <3>1. UNCHANGED <<rendered, node, finished>> /\ crs[t] # "none"
      BY <2>5 DEF Put, Pending, Crash, Repair, cdc, ironic
    <3>2. crs'["provide"] # "none" => crs["provide"] # "none"
      BY <1>0, <2>5 DEF Put, Pending, Crash, Repair, TypeOK
    <3> QED
      BY <3>1, <3>2 DEF ProvideIsEarned
  <2>6. CASE Observe
    <3>1. node'.finished = finished /\ UNCHANGED <<rendered, crs, finished>>
      BY <2>6 DEF Observe, cdc, ironic, TypeOK
    <3> QED
      BY <3>1 DEF ProvideIsEarned
  <2>7. CASE DeleteNode
    <3>1. node'.finished = node.finished /\ UNCHANGED <<rendered, crs, finished>>
      BY <2>7 DEF DeleteNode, cdc, TypeOK
    <3> QED
      BY <3>1 DEF ProvideIsEarned
  <2>8. CASE Enrol \/ PatchInfo \/ Progress \/ Fault \/ UNCHANGED vars
    <3>1. UNCHANGED <<rendered, crs, node>>
      BY <2>8 DEF Enrol, PatchInfo, Progress, Fault, cdc, vars
    <3>2. finished => finished'
      BY <2>8 DEF Enrol, PatchInfo, Progress, Fault, vars
    <3> QED
      BY <3>1, <3>2 DEF ProvideIsEarned
  <2> QED
    BY <2>1, <2>2, <2>3, <2>4, <2>5, <2>6, <2>7, <2>8 DEF Next
<1>3. TypeOK /\ ProvideIsEarned /\ [Next]_vars => Leaves
  <2> SUFFICES ASSUME TypeOK, ProvideIsEarned, [Next]_vars, Asked,
                      state = "manageable", state' \in {"cleaning", "available"},
                      cleanedTo' = "available"
               PROVE  finished
    OBVIOUS
  <2>1. ASSUME NEW t \in Transitions, Put(t) PROVE finished
    <3>1. t = "provide"
      BY <2>1 DEF Put, Target, Transitions, Fixed
    <3> QED
      BY <2>1, <3>1 DEF Put, ProvideIsEarned
  <2>2. CASE Progress
    BY <2>2 DEF Progress, Step
  <2>3. CASE Fault
    BY <2>3 DEF Fault, Failure
  <2>4. CASE Enrol \/ DeleteNode
    BY <2>4 DEF Enrol, DeleteNode
  <2>5. CASE Edit \/ Uninstall \/ Render \/ Apply \/ PatchInfo \/ Observe \/ UNCHANGED vars
             \/ \E t \in Transitions : Pending(t) \/ Crash(t) \/ Repair(t)
    BY <2>5 DEF Edit, Uninstall, Render, Apply, PatchInfo, Observe, Pending, Crash, Repair, ironic, vars
  <2> QED
    BY <2>1, <2>2, <2>3, <2>4, <2>5 DEF Next
<1>4. QED
  BY <1>1, <1>2, <1>3, TypeCorrect, PTL DEF Spec, InspectedBeforeProvide

\* Every step of the release maps to a step of the guide's state machine or to a
\* stutter: a PUT that leaves a resting state is one that the goal permits.
THEOREM Implements == Spec => ImplementsLifecycle
<1>1. Init => Lifecycle!Init
  <2> SUFFICES ASSUME Init PROVE Lifecycle!Init
    OBVIOUS
  <2>1. Phase = "absent" /\ disk.image = None
    BY DEF Init, Phase, Blank
  <2>2. Goal \in Lifecycle!Goals
    BY DEF Goal, Lifecycle!Goals
  <2> QED
    BY <2>1, <2>2 DEF Lifecycle!Init
<1>2. TypeOK /\ OnlyAllowedCRs /\ [Next]_vars => [Lifecycle!Next]_Lifecycle!vars
  <2> SUFFICES ASSUME TypeOK, OnlyAllowedCRs, [Next]_vars
               PROVE  [Lifecycle!Next]_Lifecycle!vars
    OBVIOUS
  <2>a. ASSUME UNCHANGED <<state, disk>> PROVE [Lifecycle!Next]_Lifecycle!vars
    <3>1. Phase' = Phase /\ disk.image' = disk.image
      BY <2>a DEF Phase
    <3>2. Goal' \in Lifecycle!Goals
      BY DEF Goal, Lifecycle!Goals
    <3> QED
      BY <3>1, <3>2 DEF Lifecycle!Next, Lifecycle!Retarget
  <2>b. ASSUME UNCHANGED <<values, settled>> PROVE Goal' = Goal
    BY <2>b DEF Goal
  <2>1. CASE Edit \/ Uninstall \/ Render \/ Apply \/ PatchInfo \/ Observe \/ UNCHANGED vars
             \/ \E t \in Transitions : Pending(t) \/ Crash(t) \/ Repair(t)
    <3>1. UNCHANGED <<state, disk>>
      BY <2>1 DEF Edit, Uninstall, Render, Apply, PatchInfo, Observe, Pending, Crash, Repair, ironic, vars
    <3> QED
      BY <2>a, <3>1
  <2>2. ASSUME NEW t \in Transitions, Put(t) PROVE [Lifecycle!Next]_Lifecycle!vars
    <3>1. Goal' = Goal
      BY <2>2, <2>b DEF Put
    <3>2. state' = Target(t) /\ Accepts(t)
      BY <2>2 DEF Put
    <3>3. settled => Allowed(t, values)
      BY <2>2 DEF Put, OnlyAllowedCRs
    <3>4. CASE t = "deploy"
      <4>1. Phase = "available" /\ Phase' = "provisioning"
        BY <3>2, <3>4 DEF Accepts, Target, Phase
      <4>2. Goal.deploy
        BY <3>3, <3>4 DEF Goal, Allowed
      <4>3. disk.image' \in Images
        BY <2>2, <3>4 DEF Put, Accepts, TypeOK
      <4> QED
        BY <3>1, <4>1, <4>2, <4>3 DEF Lifecycle!Next, Lifecycle!Provision
    <3>5. CASE t = "undeploy"
      <4>1. Phase \in {"provisioning", "running", "failed"} /\ Phase' = "preparing"
        BY <3>2, <3>5 DEF Accepts, Target, Phase, undeployStates
      <4>2. Goal.release
        BY <3>3, <3>5 DEF Goal, Allowed
      <4>3. disk.image' = None
        BY <2>2, <3>5 DEF Put, Blank
      <4> QED
        BY <3>1, <4>1, <4>2, <4>3 DEF Lifecycle!Next, Lifecycle!Release
    <3>6. CASE t \notin {"deploy", "undeploy"}
      <4>1. disk' = disk
        BY <2>2, <3>6 DEF Put
      <4>2. \/ Phase = "enrolling" /\ Phase' = "enrolling"
            \/ Phase = "preparing" /\ Phase' \in {"preparing", "available"}
        BY <3>2, <3>6 DEF Accepts, Target, Phase
      <4> QED
        BY <3>1, <4>1, <4>2 DEF Lifecycle!Next, Lifecycle!Move, Lifecycle!vars
    <3> QED
      BY <3>4, <3>5, <3>6
  <2>3. CASE Enrol
    <3>1. Goal' = Goal /\ disk' = disk
      BY <2>3, <2>b DEF Enrol, cdc
    <3>2. Phase = "absent" /\ Phase' = "enrolling"
      BY <2>3 DEF Enrol, Phase
    <3> QED
      BY <3>1, <3>2 DEF Lifecycle!Next, Lifecycle!Move
  <2>4. CASE DeleteNode
    <3>1. Goal' = Goal /\ disk' = disk
      BY <2>4, <2>b DEF DeleteNode, cdc
    <3>2. Phase \in {"enrolling", "preparing", "available", "failed"} /\ Phase' = "absent"
      BY <2>4 DEF DeleteNode, Deletable, Phase
    <3> QED
      BY <3>1, <3>2 DEF Lifecycle!Next, Lifecycle!Leave
  <2>5. CASE Progress
    <3>1. Goal' = Goal /\ disk' = disk
      BY <2>5, <2>b DEF Progress, cdc
    <3>2. state' \in Step(state)
      BY <2>5 DEF Progress
    <3>3. \/ Phase' = Phase
          \/ Phase = "enrolling" /\ Phase' = "preparing"
          \/ Phase = "preparing" /\ Phase' = "available"
          \/ Phase = "provisioning" /\ Phase' = "running"
      BY <3>2 DEF Step, Phase, TypeOK
    <3> QED
      BY <3>1, <3>3 DEF Lifecycle!Next, Lifecycle!Move, Lifecycle!vars
  <2>6. CASE Fault
    <3>1. Goal' = Goal /\ state' \in Failure(state)
      BY <2>6, <2>b DEF Fault, cdc
    <3>2. CASE state \in {"wait call-back", "deploying"}
      <4>1. Phase = "provisioning" /\ Phase' \in {"failed", "available"}
        BY <3>1, <3>2 DEF Failure, Phase
      <4>2. disk.image' = None
        BY <2>6, <3>2 DEF Fault, Blank
      <4> QED
        BY <3>1, <4>1, <4>2 DEF Lifecycle!Next, Lifecycle!Abandon
    <3>3. CASE state \notin {"wait call-back", "deploying"}
      <4>1. disk' = disk
        BY <2>6, <3>3 DEF Fault
      <4>2. Phase' = Phase \/ (Phase = "preparing" /\ Phase' = "failed")
        BY <3>1, <3>3 DEF Failure, Phase
      <4> QED
        BY <3>1, <4>1, <4>2 DEF Lifecycle!Next, Lifecycle!Move, Lifecycle!vars
    <3> QED
      BY <3>2, <3>3
  <2> QED
    BY <2>1, <2>2, <2>3, <2>4, <2>5, <2>6 DEF Next
<1>3. QED
  BY <1>1, <1>2, TypeCorrect, OnlyAllowed, PTL DEF Spec, ImplementsLifecycle, Lifecycle!Spec

\* A machine has an image to boot exactly from the accepted deploy to its release or
\* failure, and keeps that one: proved of the abstract machine, inherited here.
THEOREM BootsWhileDeployed == Spec => []Lifecycle!Booted
<1>1. Lifecycle!Init => Lifecycle!Booted
  BY DEF Lifecycle!Init, Lifecycle!Booted
<1>2. Lifecycle!Booted /\ [Lifecycle!Next]_Lifecycle!vars => Lifecycle!Booted'
  BY ConstantsAssumption
  DEF Lifecycle!Booted, Lifecycle!Next, Lifecycle!Retarget, Lifecycle!Move, Lifecycle!Leave,
      Lifecycle!Provision, Lifecycle!Abandon, Lifecycle!Release, Lifecycle!vars
<1>3. QED
  BY <1>1, <1>2, Implements, PTL DEF ImplementsLifecycle, Lifecycle!Spec

-----------------------------------------------------------------------------
(* The number of inspections.                                              *)
(*                                                                         *)
(* Whether transition-inspect is called for is a bit that travels: from    *)
(* what Ironic knows to the CR's status, from there (if the values ask for *)
(* it) to the manifest rendered, and on to the cluster.  Every place may   *)
(* hold an older bit than the one before it, and an inspection can be      *)
(* asked for once per step from "no" to "yes" on the way, plus once when   *)
(* the CR waits to be fired, or is wedged and may be repaired.  That       *)
(* number, Due, never grows but for an edit, a fault or a crash, and an    *)
(* inspection that Ironic accepts uses one up.                             *)

Window == {"manageable", "inspecting", "inspect wait"}
BeforeUse == {"absent", "enroll", "verifying", "inspect failed"} \cup Window

\* Out of these states there is no way back to an inspection without a cleaning.
Past == state \notin BeforeUse \/ node.cr = "gone"

Asks == values.enableInspection /\ ~values.detached
OnCluster == crs["inspect"] # "none"
InManifest == IF rendered = Idle THEN OnCluster ELSE "inspect" \in rendered.crs
ByStatus == ~node.finished /\ node.state \in Window
ByNode == ~finished /\ state \in Window
InTheEnd == ~finished

Up(a, b) == IF ~a /\ b THEN 1 ELSE 0
Waits == IF crs["inspect"] \in {"waiting", "wedged"} THEN 1 ELSE 0
Due == Waits + Up(OnCluster, InManifest) + Up(InManifest, Asks /\ ByStatus)
             + Up(ByStatus, ByNode) + Up(ByNode, InTheEnd)

Budget == 1 + crashes + faults + edits

\* What the status of the CR says is old news, but true once.
StatusIsOld ==
  /\ node.finished => finished
  /\ node.state \notin BeforeUse \cup {"unobserved"} => Past
  /\ node.cr = "gone" => state = "absent"
  /\ node.cr = "deleting" => Past
  /\ node.cr \in {"deleting", "gone"} => rendered = Idle
  /\ cleanedTo = "available"

CountInv == cleaned \/ /\ StatusIsOld
                       /\ inspections <= Budget
                       /\ Past \/ inspections + Due <= Budget

LEMMA InspectIsFixed == "inspect" \in Transitions /\ "inspect" \notin StepLists
BY ConstantsAssumption DEF Transitions, Fixed

LEMMA BudgetType == TypeOK => /\ inspections \in Nat /\ Budget \in Nat /\ cleaned \in BOOLEAN
                              /\ edits \in Nat /\ faults \in Nat /\ crashes \in Nat
BY ConstantsAssumption, MaxInspectionsType DEF TypeOK, Budget

LEMMA SpendOne ==
  ASSUME NEW i \in Nat, NEW j \in Nat, NEW d \in Nat, NEW e \in Nat, NEW m \in Nat,
         j <= i + 1, e + 1 <= d, i + d <= m
  PROVE  j + e <= m /\ j <= m
OBVIOUS

\* Where a request, a step of Ironic or its failure may lead without a manual cleaning.
LEMMA PutMoves ==
  ASSUME NEW t \in Transitions, t \notin StepLists, Accepts(t)
  PROVE  \/ t = "manage" /\ state = "enroll" /\ Target(t) = "verifying"
         \/ t = "inspect" /\ state \in {"manageable", "inspect failed"}
                          /\ Target(t) = "inspecting"
         \/ t \in {"provide", "deploy", "undeploy"} /\ state # "absent"
                          /\ Target(t) \notin BeforeUse
<1>1. CASE t = "manage"
  BY <1>1 DEF Accepts, Target
<1>2. CASE t = "inspect"
  BY <1>2 DEF Accepts, Target
<1>3. CASE t = "provide"
  BY <1>3 DEF Accepts, Target, BeforeUse, Window
<1>4. CASE t = "deploy"
  BY <1>4 DEF Accepts, Target, BeforeUse, Window
<1>5. CASE t = "undeploy"
  BY <1>5 DEF Accepts, Target, undeployStates, BeforeUse, Window
<1> QED
  BY <1>1, <1>2, <1>3, <1>4, <1>5 DEF Transitions, Fixed

LEMMA StepMoves ==
  ASSUME cleanedTo = "available", NEW s \in Step(state)
  PROVE  \/ state = "verifying" /\ s = "manageable"
         \/ state \in {"inspecting", "inspect wait"} /\ s \in {"inspect wait", "manageable"}
         \/ state \notin BeforeUse /\ s \notin BeforeUse
BY DEF Step, BeforeUse, Window

LEMMA FailureMoves ==
  ASSUME NEW s \in Failure(state)
  PROVE  \/ state = "verifying" /\ s = "enroll"
         \/ state \in {"inspecting", "inspect wait"} /\ s = "inspect failed"
         \/ state \notin BeforeUse /\ s \notin BeforeUse
BY DEF Failure, BeforeUse, Window

LEMMA CountInit == Init => CountInv
<1> SUFFICES ASSUME Init PROVE CountInv
  OBVIOUS
<1>1. /\ ~OnCluster /\ ~InManifest /\ ~ByStatus /\ ~ByNode /\ Waits = 0
      /\ inspections = 0 /\ Budget = 1
  BY InspectIsFixed DEF Init, OnCluster, InManifest, ByStatus, ByNode, Window, Budget, Waits
<1>2. Due <= 1
  BY <1>1 DEF Due, Up
<1>3. StatusIsOld
  BY DEF Init, StatusIsOld
<1>4. inspections + Due <= Budget
  BY <1>1, <1>2 DEF Due, Up
<1> QED
  BY <1>1, <1>3, <1>4 DEF CountInv

\* The steps of the operator, cdc and rdc that leave Ironic alone.
LEMMA CountCluster ==
  ASSUME TypeOK, CountInv, ~cleaned,
         \/ Edit \/ Render \/ Apply
         \/ \E t \in Transitions : Pending(t) \/ Crash(t) \/ Repair(t)
  PROVE  CountInv'
<1> USE InspectIsFixed
<1>0. /\ StatusIsOld /\ inspections <= Budget
      /\ Past \/ inspections + Due <= Budget
  BY DEF CountInv
<1>1. UNCHANGED <<state, cleanedTo, finished, inspections, cleaned, faults>>
  BY DEF Edit, Render, Apply, Pending, Crash, Repair, ironic
<1>2. node'.state = node.state /\ node'.finished = node.finished
  <2>1. CASE Apply
    BY <2>1 DEF Apply, TypeOK
  <2>2. CASE ~Apply
    BY <2>2 DEF Edit, Render, Pending, Crash, Repair
  <2> QED
    BY <2>1, <2>2
<1>3. \/ node'.cr = node.cr /\ (rendered' = rendered \/ node.cr \in {"none", "present"})
      \/ node'.cr = "present" /\ rendered # Idle
  BY DEF Edit, Render, Apply, Pending, Crash, Repair, TypeOK, cdc
<1>4. Past' <=> Past
  BY <1>0, <1>1, <1>3 DEF Past, StatusIsOld
<1>5. StatusIsOld'
  BY <1>0, <1>1, <1>2, <1>3, <1>4 DEF StatusIsOld
<1>7. CASE Edit
  <2>1. Budget' = Budget + 1
    BY <1>7, <1>1, BudgetType DEF Edit, Budget
  <2>2. /\ UNCHANGED <<crs, rendered, node>>
    BY <1>7 DEF Edit
  <2>3. /\ Waits' = Waits
        /\ OnCluster' <=> OnCluster
        /\ InManifest' <=> InManifest
    BY <2>2 DEF Waits, OnCluster, InManifest
  <2>4. /\ ByStatus' <=> ByStatus
        /\ ByNode' <=> ByNode
        /\ InTheEnd' <=> InTheEnd
    BY <1>1, <2>2 DEF ByStatus, ByNode, InTheEnd
  <2>6. Due' <= Due + 1
    BY <2>3, <2>4 DEF Due, Up, Waits
  <2>7. Due \in Nat /\ Due' \in Nat
    BY DEF Due, Up, Waits
  <2> QED
    BY <1>0, <1>1, <1>4, <1>5, <2>1, <2>6, <2>7, BudgetType DEF CountInv
<1>8. CASE Render
  <2>1. Budget' = Budget /\ UNCHANGED <<crs, node, values>> /\ rendered = Idle
    BY <1>8, <1>1 DEF Render, Budget
  <2>2. /\ Waits' = Waits
        /\ OnCluster' <=> OnCluster
        /\ ByStatus' <=> ByStatus
        /\ ByNode' <=> ByNode
        /\ InTheEnd' <=> InTheEnd
        /\ Asks' <=> Asks
    BY <1>1, <2>1 DEF Waits, OnCluster, ByStatus, ByNode, InTheEnd, Asks
  <2>3. InManifest <=> OnCluster
    BY <2>1 DEF InManifest
  <2>4. Renders("inspect", values) <=> Asks /\ ByStatus
    <3>1. values.cleanSteps # "inspect"
      BY ConstantsAssumption DEF TypeOK, Values
    <3> QED
      BY <3>1 DEF Renders, inspect, ByStatus, Asks, Window, provisionState,
                  inspectionFinishedAt
  <2>5. InManifest' <=> Asks /\ ByStatus
    <3>1. /\ rendered' = [from |-> values, crs |-> {t \in Transitions : Renders(t, values)}]
      BY <1>8 DEF Render
    <3>2. rendered' # Idle
      BY <3>1, ConstantsAssumption DEF Idle, TypeOK
    <3>3. "inspect" \in rendered'.crs <=> Renders("inspect", values)
      BY <3>1
    <3> QED
      BY <2>4, <3>2, <3>3 DEF InManifest
  <2>6. Due' = Due
    BY <2>2, <2>3, <2>5 DEF Due, Up, Waits
  <2> QED
    BY <1>0, <1>1, <1>4, <1>5, <2>1, <2>6 DEF CountInv
<1>9. CASE Apply
  <2>1. Budget' = Budget /\ UNCHANGED values /\ rendered # Idle /\ rendered' = Idle
    BY <1>9, <1>1 DEF Apply, Budget
  <2>2. crs'["inspect"] = IF "inspect" \notin rendered.crs THEN "none"
                          ELSE IF crs["inspect"] = "none" THEN "waiting" ELSE crs["inspect"]
    BY <1>9 DEF Apply
  <2>3. /\ OnCluster' <=> InManifest
        /\ InManifest' <=> InManifest
        /\ Waits' <= Waits + Up(OnCluster, InManifest)
    BY <2>1, <2>2 DEF OnCluster, InManifest, Waits, Up
  <2>4. /\ ByStatus' <=> ByStatus
        /\ ByNode' <=> ByNode
        /\ InTheEnd' <=> InTheEnd
        /\ Asks' <=> Asks
    BY <1>1, <1>2, <2>1 DEF ByStatus, ByNode, InTheEnd, Asks
  <2>5. Due' <= Due
    BY <2>3, <2>4 DEF Due, Up, Waits
  <2>6. Due \in Nat /\ Due' \in Nat
    BY DEF Due, Up, Waits
  <2> QED
    BY <1>0, <1>1, <1>4, <1>5, <2>1, <2>5, <2>6, BudgetType DEF CountInv
<1>10. ASSUME NEW t \in Transitions, Pending(t) \/ Crash(t) \/ Repair(t) PROVE CountInv'
  <2>1. /\ UNCHANGED <<values, rendered, node, edits>>
        /\ \/ Waits' <= Waits /\ crashes' = crashes
           \/ Waits' <= Waits + 1 /\ crashes' = crashes + 1
    BY <1>10 DEF Pending, Crash, Repair, cdc, Waits, TypeOK
  <2>2. OnCluster' <=> OnCluster
    BY <1>10 DEF Pending, Crash, Repair, OnCluster, TypeOK
  <2>3. /\ InManifest' <=> InManifest
        /\ Asks' <=> Asks
        /\ ByStatus' <=> ByStatus
        /\ ByNode' <=> ByNode
        /\ InTheEnd' <=> InTheEnd
    BY <1>1, <2>1, <2>2 DEF InManifest, ByStatus, ByNode, InTheEnd, Asks
  <2>4. Due' - Due = Waits' - Waits
    BY <2>2, <2>3 DEF Due, Up, Waits
  <2>5. Due \in Nat /\ Due' \in Nat /\ Waits \in Nat /\ Waits' \in Nat
    BY DEF Due, Up, Waits
  <2>6. \/ Waits' <= Waits /\ Budget' = Budget
        \/ Waits' <= Waits + 1 /\ Budget' = Budget + 1
    <3>1. edits' = edits /\ faults' = faults
      BY <1>1, <2>1
    <3> QED
      BY <2>1, <3>1, BudgetType DEF Budget
  <2>7. Due' - Due <= Budget' - Budget
    BY <2>4, <2>5, <2>6, BudgetType
  <2>8. Budget' >= Budget /\ Budget' \in Nat
    BY <2>6, BudgetType
  <2> QED
    BY <1>0, <1>1, <1>4, <1>5, <2>5, <2>7, <2>8, BudgetType DEF CountInv
<1> QED
  BY <1>7, <1>8, <1>9, <1>10

\* The steps of Ironic, and those that ask something of it.
LEMMA CountIronic ==
  ASSUME TypeOK, CountInv, ~cleaned, ~cleaned',
         \/ Enrol \/ PatchInfo \/ Observe \/ Progress \/ Fault
         \/ \E t \in Transitions : Put(t)
  PROVE  CountInv'
<1> USE InspectIsFixed
<1>0. /\ StatusIsOld /\ inspections <= Budget
      /\ Past \/ inspections + Due <= Budget
  BY DEF CountInv
<1>1. UNCHANGED <<values, rendered, edits, crashes>>
  BY DEF Enrol, PatchInfo, Observe, Progress, Fault, Put, cdc
<1>2. Due \in Nat /\ Due' \in Nat /\ Waits \in Nat /\ Waits' \in Nat
  BY DEF Due, Up, Waits
<1>3. Asks' <=> Asks
  BY <1>1 DEF Asks
<1>4. ASSUME UNCHANGED crs
      PROVE  /\ Waits' = Waits
             /\ OnCluster' <=> OnCluster
             /\ InManifest' <=> InManifest
  BY <1>1, <1>4 DEF Waits, OnCluster, InManifest
<1>5. ASSUME UNCHANGED <<node, finished>>
      PROVE  /\ ByStatus' <=> ByStatus
             /\ InTheEnd' <=> InTheEnd
  BY <1>5 DEF ByStatus, InTheEnd
<1>6. CASE Enrol
  <2>1. /\ UNCHANGED <<crs, node, finished, faults, inspections, cleanedTo>>
        /\ state = "absent" /\ state' = "enroll" /\ node.cr = "present"
    BY <1>6 DEF Enrol
  <2>2. /\ ~Past /\ ~Past'
        /\ ByNode' <=> ByNode
    BY <2>1 DEF Past, BeforeUse, ByNode, Window
  <2>3. Due' = Due
    BY <1>2, <1>3, <1>4, <1>5, <2>1, <2>2 DEF Due, Up
  <2>4. StatusIsOld'
    BY <1>0, <1>1, <2>1, <2>2 DEF StatusIsOld
  <2> QED
    BY <1>0, <1>1, <2>1, <2>2, <2>3, <2>4 DEF CountInv, Budget
<1>7. CASE PatchInfo
  <2>1. UNCHANGED <<crs, node, finished, faults, inspections, cleanedTo, state>>
    BY <1>7 DEF PatchInfo
  <2>2. /\ Past' <=> Past
        /\ ByNode' <=> ByNode
    BY <2>1 DEF Past, ByNode
  <2>3. Due' = Due
    BY <1>2, <1>3, <1>4, <1>5, <2>1, <2>2 DEF Due, Up
  <2>4. StatusIsOld'
    BY <1>0, <1>1, <2>1, <2>2 DEF StatusIsOld
  <2> QED
    BY <1>0, <1>1, <2>1, <2>2, <2>3, <2>4 DEF CountInv, Budget
<1>8. CASE Observe
  <2>1. /\ UNCHANGED <<crs, finished, faults, inspections, cleanedTo, state>>
        /\ node.cr = "present"
        /\ node' = [node EXCEPT !.state = state, !.finished = finished]
    BY <1>8 DEF Observe, ironic
  <2>2. node'.cr = node.cr /\ node'.state = state /\ node'.finished = finished
    BY <2>1 DEF TypeOK
  <2>3. /\ Past' <=> Past
        /\ ByStatus' <=> ByNode
        /\ ByNode' <=> ByNode
        /\ InTheEnd' <=> InTheEnd
    BY <2>1, <2>2 DEF Past, ByNode, ByStatus, InTheEnd
  <2>4. Due' <= Due
    BY <1>2, <1>3, <1>4, <2>1, <2>3 DEF Due, Up
  <2>5. StatusIsOld'
    BY <1>0, <1>1, <2>1, <2>2, <2>3 DEF StatusIsOld, Past
  <2> QED
    BY <1>0, <1>1, <1>2, <2>1, <2>3, <2>4, <2>5, BudgetType DEF CountInv, Budget
<1>9. CASE Progress
  <2>0. UNCHANGED <<crs, node, faults, inspections, cleanedTo>>
    BY <1>9 DEF Progress
  <2>1. /\ state' \in Step(state)
        /\ finished' = (finished \/ (state \in {"inspecting", "inspect wait"}
                                     /\ state' = "manageable"))
    BY <1>9 DEF Progress
  <2>2. \/ state = "verifying" /\ state' = "manageable"
        \/ state \in {"inspecting", "inspect wait"} /\ state' \in {"inspect wait", "manageable"}
        \/ state \notin BeforeUse /\ state' \notin BeforeUse
    BY <1>0, <2>1, StepMoves DEF StatusIsOld
  <2>3. node.cr # "gone" /\ (finished => finished')
    BY <1>0, <2>1, <2>2 DEF StatusIsOld, BeforeUse
  <2>4. Past' <=> Past
    BY <2>0, <2>2, <2>3 DEF Past, BeforeUse, Window
  <2>5. StatusIsOld'
    BY <1>0, <1>1, <2>0, <2>3, <2>4 DEF StatusIsOld
  <2>6. CASE Past
    BY <1>0, <1>1, <2>0, <2>4, <2>5, <2>6 DEF CountInv, Budget
  <2>7. CASE ~Past
    <3>1. ByStatus' <=> ByStatus
      BY <2>0 DEF ByStatus
    <3>2. \/ ~finished /\ ~finished' /\ state = "verifying" /\ state' \in Window
          \/ ~finished /\ ~finished' /\ state \in Window /\ state' \in Window
          \/ finished'
      BY <2>1, <2>2, <2>7 DEF Past, Window
    <3>3. \/ ~ByNode /\ ByNode' /\ InTheEnd /\ InTheEnd'
          \/ ByNode /\ ByNode' /\ InTheEnd /\ InTheEnd'
          \/ ~ByNode' /\ ~InTheEnd'
      BY <3>2 DEF ByNode, InTheEnd, Window
    <3>4. Due' <= Due
      BY <1>2, <1>3, <1>4, <2>0, <3>1, <3>3 DEF Due, Up
    <3> QED
      BY <1>0, <1>1, <1>2, <2>0, <2>5, <2>7, <3>4, BudgetType DEF CountInv, Budget
  <2> QED
    BY <2>6, <2>7
<1>10. CASE Fault
  <2>1. /\ UNCHANGED <<crs, node, finished, inspections, cleanedTo>>
        /\ state' \in Failure(state) /\ faults' = faults + 1
    BY <1>10 DEF Fault
  <2>2. \/ state = "verifying" /\ state' = "enroll"
        \/ state \in {"inspecting", "inspect wait"} /\ state' = "inspect failed"
        \/ state \notin BeforeUse /\ state' \notin BeforeUse
    BY <2>1, FailureMoves
  <2>3. node.cr # "gone"
    BY <1>0, <2>2 DEF StatusIsOld, BeforeUse
  <2>4. Past' <=> Past
    BY <2>1, <2>2, <2>3 DEF Past, BeforeUse, Window
  <2>5. StatusIsOld'
    BY <1>0, <1>1, <2>1, <2>3, <2>4 DEF StatusIsOld
  <2>6. Due' <= Due + 1
    BY <1>2, <1>3, <1>4, <1>5, <2>1 DEF Due, Up
  <2>7. Budget' = Budget + 1 /\ Budget' \in Nat
    BY <1>1, <2>1, BudgetType DEF Budget
  <2> QED
    BY <1>0, <1>2, <2>1, <2>4, <2>5, <2>6, <2>7, BudgetType DEF CountInv
<1>11. ASSUME NEW t \in Transitions, Put(t) PROVE CountInv'
  <2>1. /\ UNCHANGED <<node, finished, faults>>
        /\ crs[t] = "waiting" /\ Accepts(t) /\ state' = Target(t)
        /\ crs' = [crs EXCEPT ![t] = "sent"]
        /\ inspections' = IF t = "inspect" /\ inspections < MaxInspections
                          THEN inspections + 1 ELSE inspections
    BY <1>11 DEF Put
  <2>2. t \notin StepLists
    BY <1>11 DEF Put
  <2>3. cleanedTo' = "available"
    BY <1>11, <2>2 DEF Put
  <2>4. /\ OnCluster' <=> OnCluster
        /\ InManifest' <=> InManifest
        /\ Waits' = IF t = "inspect" THEN 0 ELSE Waits
        /\ t = "inspect" => Waits = 1
    BY <1>1, <2>1 DEF OnCluster, InManifest, Waits, TypeOK
  <2>5. \/ t = "manage" /\ state = "enroll" /\ state' = "verifying"
        \/ t = "inspect" /\ state \in {"manageable", "inspect failed"}
                         /\ state' = "inspecting"
        \/ t \in {"provide", "deploy", "undeploy"} /\ state # "absent"
                         /\ state' \notin BeforeUse
    BY <2>1, <2>2, PutMoves
  <2>6. node.cr # "gone"
    BY <1>0, <2>5 DEF StatusIsOld
  <2>7. Past => Past'
    BY <2>1, <2>5, <2>6 DEF Past, BeforeUse, Window
  <2>8. StatusIsOld'
    BY <1>0, <1>1, <2>1, <2>3, <2>6, <2>7 DEF StatusIsOld
  <2>9. Budget' = Budget
    BY <1>1, <2>1 DEF Budget
  <2>10. CASE t = "inspect"
    <3>1. ~Past
      BY <2>5, <2>6, <2>10 DEF Past, BeforeUse, Window
    <3>2. \/ ByNode' <=> ByNode
          \/ ~ByNode /\ ByNode' /\ InTheEnd
      BY <2>1, <2>5, <2>10 DEF ByNode, InTheEnd, Window
    <3>3. Due' + 1 <= Due
      BY <1>2, <1>3, <1>5, <2>1, <2>4, <2>10, <3>2 DEF Due, Up
    <3>4. inspections' = inspections \/ inspections' = inspections + 1
      BY <2>1
    <3>5. inspections' + Due' <= Budget /\ inspections' <= Budget
      <4>1. inspections + Due <= Budget
        BY <1>0, <3>1
      <4>2. inspections \in Nat /\ Budget \in Nat
        BY BudgetType
      <4>3. inspections' \in Nat /\ inspections' <= inspections + 1
        BY <3>4, <4>2
      <4> QED
        BY <1>2, <3>3, <4>1, <4>2, <4>3, SpendOne
    <3> QED
      BY <2>8, <2>9, <3>5 DEF CountInv
  <2>11. CASE t = "manage"
    <3>1. inspections' = inspections /\ ~Past
      BY <2>1, <2>5, <2>6, <2>11 DEF Past, BeforeUse
    <3>2. ByNode' <=> ByNode
      BY <2>1, <2>5, <2>11 DEF ByNode, Window
    <3>3. Due' = Due
      BY <1>2, <1>3, <1>5, <2>1, <2>4, <2>11, <3>2 DEF Due, Up
    <3> QED
      BY <1>0, <2>8, <2>9, <3>1, <3>3 DEF CountInv
  <2>12. CASE t \in {"provide", "deploy", "undeploy"}
    <3>1. inspections' = inspections /\ Past'
      BY <2>1, <2>5, <2>12 DEF Past
    <3> QED
      BY <1>0, <2>8, <2>9, <3>1 DEF CountInv
  <2> QED
    BY <2>5, <2>10, <2>11, <2>12
<1> QED
  BY <1>6, <1>7, <1>8, <1>9, <1>10, <1>11

\* An uninstall starts where no inspection can follow, and ends with the node.
LEMMA CountUninstall ==
  ASSUME TypeOK, CountInv, ~cleaned, Uninstall \/ DeleteNode
  PROVE  CountInv'
<1>0. StatusIsOld /\ inspections <= Budget
  BY DEF CountInv
<1>1. /\ UNCHANGED <<cleanedTo, finished, inspections, cleaned, edits, faults, crashes>>
      /\ Past
  BY <1>0 DEF Uninstall, DeleteNode, cdc, StatusIsOld, BeforeUse, Window
<1>2. node'.finished = node.finished /\ node'.state = node.state
  BY DEF Uninstall, DeleteNode, TypeOK
<1>3. CASE Uninstall
  <2>1. node.cr = "present" /\ node'.cr = "deleting" /\ rendered' = Idle /\ state' = state
    BY <1>3 DEF Uninstall, TypeOK
  <2>2. Past'
    BY <1>1, <2>1 DEF Past
  <2>3. StatusIsOld'
    BY <1>0, <1>1, <1>2, <2>1, <2>2 DEF StatusIsOld
  <2> QED
    BY <1>0, <1>1, <2>2, <2>3 DEF CountInv, Budget
<1>4. CASE DeleteNode
  <2>1. /\ node.cr = "deleting" /\ node'.cr = "gone" /\ state' = "absent"
        /\ rendered' = rendered
    BY <1>4 DEF DeleteNode, TypeOK, cdc
  <2>2. Past'
    BY <2>1 DEF Past
  <2>3. StatusIsOld'
    BY <1>0, <1>1, <1>2, <2>1, <2>2 DEF StatusIsOld
  <2> QED
    BY <1>0, <1>1, <2>2, <2>3 DEF CountInv, Budget
<1> QED
  BY <1>3, <1>4

\* One inspection is asked for, and one more per edit, fault or crash at the most: the
\* round trip of the state through `inspecting` costs none, however late the status, the
\* manifest and the requests are.
THEOREM InspectionsCounted == Spec => []InspectedOnce
<1>1. CountInv => InspectedOnce
  BY DEF CountInv, InspectedOnce, Budget
<1>2. TypeOK /\ CountInv /\ [Next]_vars => CountInv'
  <2> SUFFICES ASSUME TypeOK, CountInv, [Next]_vars PROVE CountInv'
    OBVIOUS
  <2>1. CASE cleaned
    <3>1. cleaned'
      BY <2>1 DEF Next, Edit, Uninstall, Render, Apply, Put, Pending, Crash, Repair, Enrol,
                  PatchInfo, Observe, DeleteNode, Progress, Fault, ironic, vars
    <3> QED
      BY <3>1 DEF CountInv
  <2>2. CASE ~cleaned /\ ~cleaned'
    <3>1. CASE UNCHANGED vars
      BY <3>1 DEF vars, CountInv, StatusIsOld, Past, Budget, Due, Up, Waits, OnCluster,
                  InManifest, Asks, ByStatus, ByNode, InTheEnd
    <3> QED
      BY <2>2, <3>1, CountCluster, CountIronic, CountUninstall DEF Next
  <2>3. CASE cleaned'
    BY <2>3 DEF CountInv
  <2> QED
    BY <2>1, <2>2, <2>3
<1>3. QED
  BY <1>1, <1>2, CountInit, TypeCorrect, PTL DEF Spec
=============================================================================
