--------------------------- MODULE MCControlPlane ---------------------------
(***************************************************************************)
(* Three control-plane nodes, of which two are replicas: with addresses    *)
(* that have nothing in common, or of which one begins the other.          *)
(***************************************************************************)
EXTENDS ControlPlane

ReplicasOf3 == CPs \ {1}
DistinctOrPrefix == {{}, {<<2, 3>>}}
=============================================================================
