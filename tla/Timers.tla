-------------------------------- MODULE Timers --------------------------------
(***************************************************************************)
(* The two jobs that go by the clock and not by an event: the renewal of a *)
(* credential, and the bridge's sweep for orphans.  They share nothing, so *)
(* that a behaviour is of one of them, each in ticks of its own length.    *)
(***************************************************************************)
EXTENDS TokenRenewal, OrphanReaper

VARIABLE job

timerVars == <<renewalVars, vars, job>>

TimersInit == RenewalInit /\ Init /\ job \in {"renew", "reap"}

Renewing(A) == job = "renew" /\ A /\ UNCHANGED <<vars, job>>
Reaping(A) == job = "reap" /\ A /\ UNCHANGED <<renewalVars, job>>

TimersNext == Renewing(RenewalNext) \/ Reaping(Next)

\* As in OrphanReaper: the loops of the controller and of the bridge go on.
TimersSpec ==
  /\ TimersInit /\ [][TimersNext]_timerVars
  /\ WF_timerVars(Reaping(Begin)) /\ WF_timerVars(Reaping(\E o \in Objects : Create(o)))
  /\ WF_timerVars(Reaping(Record)) /\ WF_timerVars(Reaping(Tick))
  /\ \A b \in Bridges : WF_timerVars(Reaping(reap_orphan_helm_artifacts(b)))
-----------------------------------------------------------------------------
\* With the reaper switched on and a Role that covers its calls, a retry gets through
\* in the end (the docstring of reap_orphan_helm_artifacts).  As shipped it does not.
RetryGetsThroughIfMay == job = "reap" => RetryGetsThrough
=============================================================================
