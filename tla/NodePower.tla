------------------------------ MODULE NodePower ------------------------------
(***************************************************************************)
(* The power half of a BaremetalHost.  transition-power renders one CR of  *)
(* a fixed name while spec.online is set; rest-dynamic-controller serves   *)
(* it with what its RestDefinition has, a findby that never matches and a  *)
(* create: PUT until Ironic says 202, and then no more for that CR.  There *)
(* is no update, and a create whose outcome was not recorded wedges the CR *)
(* (IMPLEMENTATION 9.14).                                                  *)
(***************************************************************************)
EXTENDS Naturals

CONSTANTS MaxEdits,   \* bound: edits of spec.online and spec.detached
          MaxFlaps,   \* bound: power changes that Ironic was not asked for
          MaxCrashes  \* bound: creates whose outcome is not recorded

Powers == {"power on", "power off"}
Unset == "unset"
None == "none"

VARIABLES
  online,    \* spec.online: a target or Unset
  detached,
  cr,        \* spec.target of the NodePower CR, or None
  create,    \* its create: "due", "pending" (accepted and recorded) or "wedged"
  target,    \* Ironic's target_power_state, or None
  power,     \* the power of the machine
  edits, flaps, crashes

vars == <<online, detached, cr, create, target, power, edits, flaps, crashes>>
spec == <<online, detached, edits>>

Init ==
  /\ online \in Powers \cup {Unset} /\ detached = FALSE
  /\ cr = None /\ create = "due"
  /\ target = None /\ power \in Powers
  /\ edits = 0 /\ flaps = 0 /\ crashes = 0

Edit ==
  /\ edits < MaxEdits /\ edits' = edits + 1
  /\ \/ online' \in (Powers \cup {Unset}) \ {online} /\ UNCHANGED detached
     \/ detached' = ~detached /\ UNCHANGED online
  /\ UNCHANGED <<cr, create, target, power, flaps, crashes>>

Managed == online # Unset /\ ~detached

\* A new target patches the CR in place, without a new create; no target prunes it.
Render ==
  /\ cr' = IF Managed THEN online ELSE None
  /\ create' = IF cr = None \/ ~Managed THEN "due" ELSE create
  /\ UNCHANGED <<spec, target, power, flaps, crashes>>

\* findby never matches.  While Ironic is busy it answers 409, and rdc tries again.
Create ==
  /\ cr # None /\ create = "due" /\ target = None
  /\ target' = cr /\ create' = "pending"
  /\ UNCHANGED <<spec, cr, power, flaps, crashes>>

\* The create was marked as pending, and how it ended, whether Ironic took the PUT or
\* not, is not recorded: rdc refuses to decide about this CR from then on.
Crash ==
  /\ cr # None /\ create = "due"
  /\ crashes < MaxCrashes /\ crashes' = crashes + 1
  /\ create' = "wedged"
  /\ target' \in IF target = None THEN {None, cr} ELSE {target}
  /\ UNCHANGED <<spec, cr, power, flaps>>

\* Somebody removes the mark from the CR.
Repair ==
  /\ create = "wedged" /\ create' = "due"
  /\ UNCHANGED <<spec, cr, target, power, flaps, crashes>>

\* Ironic and the BMC.
Switch ==
  /\ target # None
  /\ power' = target /\ target' = None
  /\ UNCHANGED <<spec, cr, create, flaps, crashes>>

Flap ==
  /\ flaps < MaxFlaps /\ flaps' = flaps + 1
  /\ power' \in Powers \ {power}
  /\ UNCHANGED <<spec, cr, create, target, crashes>>

Next == Edit \/ Render \/ Create \/ Crash \/ Repair \/ Switch \/ Flap

Spec == Init /\ [][Next]_vars

\* cdc renders again and again, rdc retries, Ironic switches what it took.
FairSpec == Spec /\ WF_vars(Render) /\ WF_vars(Create) /\ WF_vars(Switch)
-----------------------------------------------------------------------------
\* USER-GUIDE 362-365 and transition-power.yaml 3-17: the target is enforced for as
\* long as it is set.  However the power came to differ, by an edit of spec.online or
\* by somebody at the machine, it is brought back, unless the CR is wedged.
TargetIsEnforced == \A p \in Powers :
  Managed /\ online = p ~> power = p \/ ~Managed \/ online # p \/ create = "wedged"
=============================================================================
