---------------------------- MODULE HostLifecycle ----------------------------
(***************************************************************************)
(* What a BaremetalHost promises to who writes its values: the state       *)
(* machine of the user's guide, with the states in between taken together, *)
(* and with neither manifests, CRs, requests nor stale status.             *)
(*                                                                         *)
(* A deploy begins and a machine is released only if the goal in force     *)
(* permits it, and a machine boots one image from its deploy to its        *)
(* release.  BaremetalHost implements this (its definition Lifecycle).     *)
(***************************************************************************)
CONSTANTS Images,  \* what a machine may boot
          None     \* nothing: not an image

\* preparing: verified, inspected, cleaned; failed: waits for a release.
Phases == {"absent", "enrolling", "preparing", "available", "provisioning", "running",
           "failed"}

\* What the values in force permit.
Goals == [deploy : BOOLEAN, release : BOOLEAN]

VARIABLES phase, goal, boots

vars == <<phase, goal, boots>>

Init == phase = "absent" /\ goal \in Goals /\ boots = None

\* The values change, or are put in force.
Retarget == goal' \in Goals /\ UNCHANGED <<phase, boots>>

\* Ways that leave what the machine boots alone.
Move == \/ phase = "absent" /\ phase' = "enrolling"
        \/ phase = "enrolling" /\ phase' = "preparing"
        \/ phase = "preparing" /\ phase' \in {"available", "failed"}
        \/ phase = "provisioning" /\ phase' = "running"

\* Deleted by its owner, or by who enrolled it.
Leave == /\ phase \in {"enrolling", "preparing", "available", "failed"}
         /\ phase' = "absent"

Provision == /\ phase = "available" /\ goal.deploy
             /\ phase' = "provisioning"
             /\ boots' \in Images

\* A deploy that fails, or that is given up.
Abandon == /\ phase = "provisioning"
           /\ phase' \in {"failed", "available"}
           /\ boots' = None

Release == /\ phase \in {"provisioning", "running", "failed"} /\ goal.release
           /\ phase' = "preparing"
           /\ boots' = None

Next == \/ Retarget
        \/ (Move \/ Leave) /\ UNCHANGED <<goal, boots>>
        \/ (Provision \/ Abandon \/ Release) /\ UNCHANGED goal

Spec == Init /\ [][Next]_vars

\* A machine has an image to boot exactly while it is being deployed or runs.
Booted == (boots # None) <=> phase \in {"provisioning", "running"}
=============================================================================
