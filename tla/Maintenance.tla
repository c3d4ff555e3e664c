----------------------------- MODULE Maintenance -----------------------------
(***************************************************************************)
(* What an operator runs from a checkout: `make check' over its sources,   *)
(* `make regenerate-crds' after an upgrade of oasgen, and the measurement  *)
(* of how long a regenerated CRD takes to be served.  They share neither   *)
(* files nor objects that another of them decides on: the marker that a    *)
(* regeneration leaves is a comment.  A behaviour is of one of them.       *)
(***************************************************************************)
EXTENDS StandingScreens, CrdRegeneration, ServingWindow

VARIABLE tool

maintenanceVars == <<screenVars, regenVars, windowVars, tool>>

Init ==
  /\ tool \in {"check", "regenerate-crds", "measure-serving-window"}
  /\ ScreensInit /\ RegenInit /\ WindowInit
  /\ tool # "regenerate-crds" => live = {}

Next ==
  \/ tool = "check" /\ ScreensNext /\ UNCHANGED <<regenVars, windowVars, tool>>
  \/ tool = "regenerate-crds" /\ RegenNext /\ UNCHANGED <<screenVars, windowVars, tool>>
  \/ tool = "measure-serving-window" /\ WindowNext /\ UNCHANGED <<screenVars, regenVars, tool>>

Spec == Init /\ [][Next]_maintenanceVars /\ RegenFairness
=============================================================================
