---------------------------- MODULE MCExtraBridge ----------------------------
(***************************************************************************)
(* Instances of ExtraBridge: one bridge, or two during a rollout; the keys *)
(* of a bootstrap control plane, thinned to those that behave differently. *)
(***************************************************************************)
EXTENDS ExtraBridge, TLC

CONSTANTS b1, b2

OneBridge == {b1}
TwoBridges == {b1, b2}
Swap == Permutations(TwoBridges)

BootstrapKeys == {Hash, "cp_stage", "kubeadm_join", "cp_endpoint"}
SingleKeys == {Hash, "cp_stage", "drain_kubeconfig", "kubeadm_join"}
=============================================================================
