--------------------------- MODULE MCBaremetalHost ---------------------------
(***************************************************************************)
(* Small instances of BaremetalHost.  Each run lets the operator move       *)
(* between the values of one set, so that the state space is that of one    *)
(* question.                                                                *)
(***************************************************************************)
EXTENDS BaremetalHost

CONSTANTS A, B, Raid

Base == [image |-> A, undeploy |-> FALSE, detached |-> FALSE, enableInspection |-> FALSE,
         cleanSteps |-> None, configDrive |-> "given"]

\* Hold, release and detach a host; a parent that loses its configDrive; clean steps.
SafeSpecs ==
  LET inspected == [Base EXCEPT !.enableInspection = TRUE] IN
  {[inspected EXCEPT !.undeploy = u, !.configDrive = c] :
     u \in BOOLEAN, c \in {"empty", "given", "invalid"}}
  \cup {[inspected EXCEPT !.undeploy = u, !.detached = TRUE] : u \in BOOLEAN}
  \cup {[inspected EXCEPT !.undeploy = u, !.cleanSteps = Raid] : u \in BOOLEAN}

\* Deploy or hold, from the first inspection on.
InspectSpecs == {[Base EXCEPT !.undeploy = u, !.enableInspection = TRUE] : u \in BOOLEAN}

\* The image swap: hold the old image, then clear the hold with the new one.
SwapSpecs == {[Base EXCEPT !.undeploy = TRUE], [Base EXCEPT !.image = B]}
=============================================================================
