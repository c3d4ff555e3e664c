------------------------------- MODULE MCTimers -------------------------------
(***************************************************************************)
(* The join token in steps of ten minutes.  And two bridges, as during a   *)
(* rollout, with a tick of twenty seconds: an object has to be three ticks *)
(* old.  The node and one port stand for the four paths.                   *)
(***************************************************************************)
EXTENDS Timers

Paths == <<"ports", "baremetalnodes">>

\* A Role that covers every call of the reaper.
FullRole == {"list", "patch", "delete"} \X {"ports", "baremetalnodes"}
=============================================================================
