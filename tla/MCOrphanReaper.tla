---------------------------- MODULE MCOrphanReaper ----------------------------
(***************************************************************************)
(* The bridge with the Role of manifests/ironic-extra-bridge.yaml: nothing *)
(* on ports, nodeprovisions and nodepowers, and no delete anywhere.  The   *)
(* node and one port stand for the four paths.                             *)
(***************************************************************************)
EXTENDS OrphanReaper

Paths == <<"ports", "baremetalnodes">>
ShippedRole == {"list", "patch"} \X {"baremetalnodes"}
=============================================================================
