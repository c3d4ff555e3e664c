--------------------------- MODULE ControlPlaneJoin ---------------------------
(***************************************************************************)
(* Replica control-plane nodes join the etcd of the bootstrap node.        *)
(*                                                                         *)
(* kubeadm join announces a new etcd member, which is pending (unstarted,  *)
(* or a learner) until its etcd runs and kubeadm promotes it.  etcd takes  *)
(* one pending member at a time, and one that is abandoned blocks every    *)
(* later join.  Replicas boot concurrently and coordinate through etcd's   *)
(* list of members only: join.sh removes its own ghosts, waits until       *)
(* nothing is pending, joins, and on a failure cleans up and tries again.  *)
(***************************************************************************)
EXTENDS Naturals, FiniteSets

CONSTANTS Replicas,
          Overlaps,     \* what partOf may be
          MaxAttempts,
          Patient,      \* the gates outlast the bootstrap's kubeadm init
          Brisk,        \* a kubeadm join ends within another replica's 40 polls
          MaxFailures,  \* bound: kubeadm joins that fail, outages of etcd
          MaxSlips,     \* bound: calls of the cleanup that fail
          MaxReboots    \* bound: replicas that reboot within join.sh

ASSUME JoinAssumption ==
  /\ IsFiniteSet(Replicas) /\ Overlaps \subseteq SUBSET (Replicas \X Replicas)
  /\ MaxAttempts \in Nat \ {0} /\ MaxFailures \in Nat /\ MaxSlips \in Nat
  /\ MaxReboots \in Nat /\ Patient \in BOOLEAN /\ Brisk \in BOOLEAN

VARIABLES
  partOf,     \* <<r, s>>: an address of r is a substring of one of s
  published,  \* the bootstrap serves, and has published its endpoints
  script,     \* per replica: where join.sh is, its attempt, ids it wants to remove
  member,     \* per replica: its etcd member, if any, by the attempt that added it
  failures, slips

joinVars == <<partOf, published, script, member, failures, slips>>

Gone == [added |-> 0, voter |-> FALSE]
Script(pc, n) == [pc |-> pc, attempt |-> n, failing |-> FALSE, ids |-> {}]

JoinInit ==
  /\ partOf \in Overlaps
  /\ published = FALSE
  /\ script = [r \in Replicas |-> Script("gates", 0)]
  /\ member = [r \in Replicas |-> Gone]
  /\ failures = 0 /\ slips = 0

At(r, pcs) == script[r].pc \in pcs
Goto(r, pc) == script' = [script EXCEPT ![r].pc = pc]

Pending(r) == member[r] # Gone /\ ~member[r].voter
NonePending == \A r \in Replicas : ~Pending(r)

(* --- the gates before the loop ------------------------------------------- *)

Publish ==
  /\ ~published /\ published' = TRUE
  /\ UNCHANGED <<partOf, script, member, failures, slips>>

\* Mutant: no cleanup before the attempt.
NextAttemptAtOnce(r) ==
  script' = [script EXCEPT ![r] = Script("wait", script[r].attempt + 1)]

\* An attempt starts with the cleanup of what an earlier one left.
NextAttempt(r) ==
  script' = [script EXCEPT ![r] = Script("list", script[r].attempt + 1)]

Gates(r) ==
  /\ At(r, {"gates"}) /\ published
  /\ NextAttempt(r)
  /\ UNCHANGED <<partOf, published, member, failures, slips>>

GatesTimeOut(r) ==
  /\ At(r, {"gates"}) /\ ~published /\ ~Patient
  /\ Goto(r, "failed")
  /\ UNCHANGED <<partOf, published, member, failures, slips>>

(* --- remove_ghost_etcd_members ------------------------------------------- *)

\* Mutant: whatever is pending.
AnyGhost(r) == {<<s, member[s].added>> : s \in {t \in Replicas : Pending(t)}}

\* Mutant: without the client certificate, etcdctl lists nothing.
NoGhost(r) == {}

\* Pending members with an address that contains one of this host.
Ghosts(r) ==
  {<<s, member[s].added>> : s \in {t \in Replicas : Pending(t) /\ (t = r \/ <<r, t>> \in partOf)}}

Cleaned(r) == IF script[r].failing THEN "reset" ELSE "wait"

ListGhosts(r) ==
  /\ At(r, {"list"})
  /\ script' = [script EXCEPT ![r].ids = Ghosts(r),
                              ![r].pc = IF Ghosts(r) = {} THEN Cleaned(r) ELSE "remove"]
  /\ UNCHANGED <<partOf, published, member, failures, slips>>

ListFails(r) ==
  /\ At(r, {"list"}) /\ slips < MaxSlips
  /\ slips' = slips + 1
  /\ Goto(r, Cleaned(r))
  /\ UNCHANGED <<partOf, published, member, failures>>

Drop(r, id) ==
  script' = [script EXCEPT ![r].ids = @ \ {id},
                           ![r].pc = IF script[r].ids = {id} THEN Cleaned(r) ELSE @]

\* By id: a member added later has another one, a promoted one still has its own.
RemoveGhost(r) == \E id \in script[r].ids :
  /\ At(r, {"remove"})
  /\ Drop(r, id)
  /\ member' = IF member[id[1]].added = id[2] THEN [member EXCEPT ![id[1]] = Gone] ELSE member
  /\ UNCHANGED <<partOf, published, failures, slips>>

RemoveFails(r) == \E id \in script[r].ids :
  /\ At(r, {"remove"}) /\ slips < MaxSlips
  /\ slips' = slips + 1
  /\ Drop(r, id)
  /\ UNCHANGED <<partOf, published, member, failures>>

(* --- wait_for_etcd_no_pending_learner ------------------------------------ *)

\* Mutant: it does not look.
NoWait(r) ==
  /\ At(r, {"wait"})
  /\ Goto(r, "join")
  /\ UNCHANGED <<partOf, published, member, failures, slips>>

Quiet(r) ==
  /\ At(r, {"wait"}) /\ NonePending
  /\ Goto(r, "join")
  /\ UNCHANGED <<partOf, published, member, failures, slips>>

\* Mutant: as many polls as it takes.
PollOn(r) == FALSE

\* Pending for longer than the polls of another replica.
Stays(s) == Pending(s) /\ (Brisk => At(s, {"wait", "dead", "failed"}))

\* The polls run out and the script joins all the same.
PollsRunOut(r) ==
  /\ At(r, {"wait"})
  /\ \/ (\E s \in Replicas : Stays(s)) /\ UNCHANGED failures
     \/ failures < MaxFailures /\ failures' = failures + 1
  /\ Goto(r, "join")
  /\ UNCHANGED <<partOf, published, member, slips>>

(* --- kubeadm join -------------------------------------------------------- *)

Add(r) ==
  /\ At(r, {"join"}) /\ NonePending /\ member[r] = Gone
  /\ member' = [member EXCEPT ![r].added = script[r].attempt]
  /\ Goto(r, "learner")
  /\ UNCHANGED <<partOf, published, failures, slips>>

Promote(r) ==
  /\ At(r, {"learner"}) /\ Pending(r)
  /\ member' = [member EXCEPT ![r].voter = TRUE]
  /\ Goto(r, "voter")
  /\ UNCHANGED <<partOf, published, failures, slips>>

Joined(r) ==
  /\ At(r, {"voter"})
  /\ Goto(r, "joined")
  /\ UNCHANGED <<partOf, published, member, failures, slips>>

Fails(r) == script' = [script EXCEPT ![r].pc = "list", ![r].failing = TRUE]

\* etcd refuses a second pending member, and a member it has already; and a learner
\* that somebody removed is not promoted.
Refused(r) ==
  /\ \/ At(r, {"join"}) /\ (~NonePending \/ member[r] # Gone)
     \/ At(r, {"learner"}) /\ member[r] = Gone
  /\ Fails(r)
  /\ UNCHANGED <<partOf, published, member, failures, slips>>

KubeadmFails(r) ==
  /\ At(r, {"join", "learner", "voter"}) /\ failures < MaxFailures
  /\ failures' = failures + 1
  /\ Fails(r)
  /\ UNCHANGED <<partOf, published, member, slips>>

(* --- kubeadm reset, and the end of an attempt ---------------------------- *)

\* Mutant: as often as it takes.
Endless(r) == NextAttempt(r)

AttemptEnds(r) ==
  IF script[r].attempt = MaxAttempts THEN Goto(r, "failed") ELSE NextAttempt(r)

Reset(r) ==
  /\ At(r, {"reset"})
  /\ AttemptEnds(r)
  /\ member' = [member EXCEPT ![r] = Gone]
  /\ UNCHANGED <<partOf, published, failures, slips>>

\* Its exit code is ignored.  Before etcd's manifest is written it removes nothing.
ResetLeaves(r) ==
  /\ At(r, {"reset"}) /\ member[r] # Gone
  /\ \/ Pending(r) /\ UNCHANGED slips
     \/ member[r].voter /\ slips < MaxSlips /\ slips' = slips + 1
  /\ AttemptEnds(r)
  /\ UNCHANGED <<partOf, published, member, failures>>

\* cloud-init runs join.sh once per instance: a reboot ends it for good.
Reboot(r) ==
  /\ ~At(r, {"joined", "failed", "dead"})
  /\ Cardinality({s \in Replicas : At(s, {"dead"})}) < MaxReboots
  /\ Goto(r, "dead")
  /\ UNCHANGED <<partOf, published, member, failures, slips>>

-----------------------------------------------------------------------------
remove_ghost_etcd_members(r) == ListGhosts(r) \/ RemoveGhost(r)
kubeadm_join(r) == Add(r) \/ Promote(r) \/ Joined(r) \/ Refused(r)
join_sh(r) == \/ Gates(r) \/ remove_ghost_etcd_members(r) \/ Quiet(r) \/ PollsRunOut(r)
              \/ kubeadm_join(r) \/ Reset(r) \/ ResetLeaves(r)

JoinNext ==
  \/ Publish
  \/ \E r \in Replicas : \/ join_sh(r) \/ GatesTimeOut(r) \/ Reboot(r)
                         \/ ListFails(r) \/ RemoveFails(r) \/ KubeadmFails(r)
-----------------------------------------------------------------------------
\* Every variable stays within its type.
JoinTypeOK ==
  /\ partOf \in Overlaps
  /\ published \in BOOLEAN
  /\ script \in [Replicas ->
       [pc : {"gates", "list", "remove", "wait", "join", "learner", "voter", "reset",
              "joined", "failed", "dead"},
        attempt : 0..MaxAttempts, failing : BOOLEAN,
        ids : SUBSET (Replicas \X (1..MaxAttempts))]]
  /\ member \in [Replicas -> [added : 0..MaxAttempts, voter : BOOLEAN]]
  /\ failures \in 0..MaxFailures /\ slips \in 0..MaxSlips

\* join.sh ends with success only where the node has become a member of etcd that votes,
\* and no cleanup of another replica, with a list however old, takes that away: as long
\* as no address of another replica is a part of one of its own.
Apart(r) == \A s \in Replicas \ {r} : <<s, r>> \notin partOf
JoinedAreMembers == \A r \in Replicas : Apart(r) /\ At(r, {"joined"}) => member[r].voter

\* Two cleanups, after a failure and before the next attempt, so that one failing call
\* of theirs does not make a replica wait forty polls for its own ghost.
NeverWaitsForItself == slips <= 1 => \A r \in Replicas : At(r, {"wait"}) => ~Pending(r)

\* The wait serialises the joins.  Checking and adding are two calls, so a replica may still
\* lose to another one, but to each member added only once, and a slip costs one attempt:
\* all of them are used up by failures only, by a replica that left a member behind for
\* good, or where one replica takes the learner of another for its own.  With a second slip
\* a replica may wait for its own learner (see above), and the others for it.
Left(r) == member[r] # Gone /\ At(r, {"dead", "failed"})
GivesUpForAReason == slips <= 1 =>
  \A r \in Replicas : At(r, {"failed"}) /\ script[r].attempt > 0 =>
    \/ failures + slips + Cardinality(Replicas) - 1 >= MaxAttempts
    \/ \E s \in Replicas : Left(s) \/ ~Apart(s)

\* No replica waits for ever, for the bootstrap or for a learner that nobody removes.
Over(r) == At(r, {"joined", "failed", "dead"})
=============================================================================
