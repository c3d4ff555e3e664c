---------------------------- MODULE ControlPlane ----------------------------
(***************************************************************************)
(* How a control plane comes up: its CA first (ClusterPki), until every    *)
(* machine has booted with a bundle, then the joins (ControlPlaneJoin).    *)
(*                                                                         *)
(* kubeadm join pins the CA (CA_HASH, of the file that the configDrive     *)
(* wrote) and etcd verifies the peers with it: the second part relies on   *)
(* the first for one bundle on all machines.  From there on the Secret is  *)
(* only read again, so that nothing of the first part needs to go on.      *)
(***************************************************************************)
EXTENDS ClusterPki, ControlPlaneJoin

VARIABLE part

controlPlaneVars == <<vars, joinVars, part>>

ControlPlaneInit == Init /\ JoinInit /\ part = "pki"

InPki(A) == part = "pki" /\ A /\ UNCHANGED <<joinVars, part>>
InJoin(A) == part = "join" /\ A /\ UNCHANGED <<vars, part>>

\* A cluster of an older chart has joined already.  Nothing is left half applied.
Booted ==
  /\ part = "pki" /\ ~legacy /\ cdc = "render" /\ \A c \in CPs : disk[c] # 0
  /\ part' = "join"
  /\ UNCHANGED <<vars, joinVars>>

ControlPlaneNext == InPki(Next) \/ Booted \/ InJoin(JoinNext)

\* As in ClusterPki; and a script that runs goes on.  Failures, reboots and gates that
\* time out are not fair.
ControlPlaneSpec ==
  /\ ControlPlaneInit /\ [][ControlPlaneNext]_controlPlaneVars
  /\ WF_controlPlaneVars(InPki(Render)) /\ SF_controlPlaneVars(InPki(Apply))
  /\ WF_controlPlaneVars(InPki(Trust))
  /\ \A c \in CPs : WF_controlPlaneVars(InPki(Deploy(c)))
  /\ SF_controlPlaneVars(Booted) /\ WF_controlPlaneVars(InJoin(Publish))
  /\ \A r \in Replicas : WF_controlPlaneVars(InJoin(join_sh(r)))
-----------------------------------------------------------------------------
\* From nothing to a control plane: every replica's join.sh comes to its end, and with
\* GivesUpForAReason that is a member of etcd unless something failed too often.
JoinsEnd == ~legacy => \A r \in Replicas : <>Over(r)
=============================================================================
