----------------------------- MODULE OrphanReaper -----------------------------
(***************************************************************************)
(* The second half of the bridge's loop: objects that a failed helm        *)
(* install left behind are deleted, so that the next one can create them.  *)
(*                                                                         *)
(* composition-dynamic-controller installs the chart of a BaremetalHost    *)
(* under a fresh release name each time it tries.  An install creates the  *)
(* objects and then records its release Secret; one that fails in between  *)
(* leaves objects that no later release may import, and every retry ends   *)
(* there.  The reaper lists the releases, then the objects, and deletes    *)
(* those that are old enough and whose release is not on its list.         *)
(*                                                                         *)
(* Nothing holds a retry back between a look and its delete, which goes by *)
(* name: the object that is deleted need not be the one that was judged.   *)
(* Shipped, the reaper is switched off, and its Role lets it list and      *)
(* patch BaremetalNodes, and delete nothing.                               *)
(*                                                                         *)
(* Time goes in ticks; ages stop growing where nothing tells them apart.   *)
(***************************************************************************)
EXTENDS Naturals, Sequences

CONSTANTS Bridges,              \* the bridge processes that run at a time
          ORPHAN_RESOURCE_PATHS,  \* one object of the release under each path
          ORPHAN_MIN_AGE,       \* in ticks
          ORPHAN_REAP_ENABLED,
          Role,          \* what the bridge may do: <<verb, path>>
          InstallTime,   \* an install fails or records its Secret within this
          ListTime,      \* from the answer to the list of Secrets to `now'
          SweepTime,     \* from `now' to the last delete
          MaxErrors,     \* bound: installs that fail
          MaxFailures    \* bound: API calls of the reaper that fail

Objects == {ORPHAN_RESOURCE_PATHS[i] : i \in DOMAIN ORPHAN_RESOURCE_PATHS}

ASSUME ReaperAssumption ==
  /\ ORPHAN_RESOURCE_PATHS \in Seq(Objects) /\ ORPHAN_RESOURCE_PATHS # << >>
  /\ ORPHAN_MIN_AGE \in Nat /\ InstallTime \in Nat /\ ListTime \in Nat
  /\ SweepTime \in Nat /\ MaxErrors \in Nat /\ MaxFailures \in Nat
  /\ ORPHAN_REAP_ENABLED \in BOOLEAN
  /\ Role \subseteq {"list", "patch", "delete"} \X Objects

VARIABLES
  objects,  \* per path: the object's release (0: none), its age, KOG's finalizer
  tries,    \* installs so far; the last one has this number as its release
  install,  \* the install under way: its age and what it has created
  secrets,  \* releases with a sh.helm.release Secret
  reaper,   \* per bridge: where it is, releases it listed, ticks since, the path,
            \* and the release of the object it judged to be an orphan
  failures

vars == <<objects, tries, install, secrets, reaper, failures>>

Old == ORPHAN_MIN_AGE + SweepTime
Release == 0..(MaxErrors + 1)
Absent == [release |-> 0, age |-> 0, held |-> FALSE, deleting |-> FALSE]
Idle == [on |-> FALSE, age |-> 0, made |-> {}]
Start == [pc |-> "list", active |-> {}, lag |-> 0, at |-> 1, release |-> 0]

Init ==
  /\ objects = [o \in Objects |-> Absent]
  /\ tries = 0 /\ install = Idle /\ secrets = {}
  /\ reaper = [b \in Bridges |-> Start]
  /\ failures = 0

(* --- composition-dynamic-controller and helm ----------------------------- *)

\* A retry that meets an object of another release fails before it creates any.
Begin ==
  /\ ~install.on /\ secrets = {} /\ tries <= MaxErrors
  /\ \A o \in Objects : objects[o] = Absent
  /\ tries' = tries + 1
  /\ install' = [Idle EXCEPT !.on = TRUE]
  /\ UNCHANGED <<objects, secrets, reaper, failures>>

Create(o) ==
  /\ install.on /\ o \notin install.made
  /\ install' = [install EXCEPT !.made = @ \cup {o}]
  /\ objects' = [objects EXCEPT ![o] = [Absent EXCEPT !.release = tries]]
  /\ UNCHANGED <<tries, secrets, reaper, failures>>

Record ==
  /\ install.on /\ install.made = Objects
  /\ secrets' = secrets \cup {tries}
  /\ install' = Idle
  /\ UNCHANGED <<objects, tries, reaper, failures>>

\* The install errors before its Secret is there; its objects stay.
Abandon ==
  /\ install.on /\ tries <= MaxErrors
  /\ install' = Idle
  /\ UNCHANGED <<objects, tries, secrets, reaper, failures>>

(* --- KOG's controllers --------------------------------------------------- *)

Guard(o) ==
  /\ objects[o] # Absent /\ ~objects[o].held /\ ~objects[o].deleting
  /\ objects' = [objects EXCEPT ![o].held = TRUE]
  /\ UNCHANGED <<tries, install, secrets, reaper, failures>>

\* The Ironic side is cleaned up and the finalizer goes; it may never happen.
Finalize(o) ==
  /\ objects[o].deleting
  /\ objects' = [objects EXCEPT ![o] = Absent]
  /\ UNCHANGED <<tries, install, secrets, reaper, failures>>

(* --- ironic-node-extra-bridge.py: reap_orphan_helm_artifacts ------------- *)

list_tracked_helm_releases(b) ==
  /\ ORPHAN_REAP_ENABLED /\ reaper[b].pc = "list"
  /\ reaper' = [reaper EXCEPT ![b] = [Start EXCEPT !.pc = "now", !.active = secrets]]
  /\ UNCHANGED <<objects, tries, install, secrets, failures>>

Now(b) ==
  /\ reaper[b].pc = "now"
  /\ reaper' = [reaper EXCEPT ![b].pc = "look", ![b].lag = 0]
  /\ UNCHANGED <<objects, tries, install, secrets, failures>>

Path(b) == ORPHAN_RESOURCE_PATHS[reaper[b].at]
May(b, verb) == <<verb, Path(b)>> \in Role

NextPath(b) ==
  LET at == reaper[b].at IN
  reaper' = [reaper EXCEPT ![b] = IF at = Len(ORPHAN_RESOURCE_PATHS) THEN Start
                                  ELSE [@ EXCEPT !.pc = "look", !.at = at + 1]]

\* Mutant: no ORPHAN_MIN_AGE_SECONDS.
AnyAge(b) == objects[Path(b)] # Absent /\ objects[Path(b)].release \notin reaper[b].active

\* The age is measured at `now', lag ticks ago.
Orphan(b) ==
  /\ objects[Path(b)] # Absent
  /\ objects[Path(b)].release \notin reaper[b].active
  /\ objects[Path(b)].age >= ORPHAN_MIN_AGE + reaper[b].lag

Look(b) ==
  /\ reaper[b].pc = "look"
  /\ IF May(b, "list") /\ Orphan(b)
     THEN reaper' = [reaper EXCEPT ![b].pc = "strip", ![b].release = objects[Path(b)].release]
     ELSE NextPath(b)
  /\ UNCHANGED <<objects, tries, install, secrets, failures>>

\* Mutant: KOG's finalizer is left to KOG.
NoStrip(b) ==
  /\ reaper[b].pc = "strip"
  /\ reaper' = [reaper EXCEPT ![b].pc = "delete"]
  /\ UNCHANGED <<objects, tries, install, secrets, failures>>

\* By name: whatever object has it by now.  One that is being deleted goes.  A call
\* that the Role does not cover is refused, and the sweep goes on.
Strip(b) ==
  /\ reaper[b].pc = "strip"
  /\ reaper' = [reaper EXCEPT ![b].pc = "delete"]
  /\ objects' = [objects EXCEPT ![Path(b)] = IF ~May(b, "patch") THEN @
                                             ELSE IF @.deleting THEN Absent
                                             ELSE [@ EXCEPT !.held = FALSE]]
  /\ UNCHANGED <<tries, install, secrets, failures>>

Delete(b) ==
  /\ reaper[b].pc = "delete"
  /\ NextPath(b)
  /\ objects' = [objects EXCEPT ![Path(b)] = IF ~May(b, "delete") THEN @
                                             ELSE IF @.held THEN [@ EXCEPT !.deleting = TRUE]
                                             ELSE Absent]
  /\ UNCHANGED <<tries, install, secrets, failures>>

\* A failed list of releases ends the sweep, one of objects skips the path; a
\* failed strip is followed by the delete all the same.
Fail(b) ==
  /\ reaper[b].pc \in {"look", "strip", "delete"} /\ failures < MaxFailures
  /\ failures' = failures + 1
  /\ IF reaper[b].pc = "strip" THEN reaper' = [reaper EXCEPT ![b].pc = "delete"]
     ELSE NextPath(b)
  /\ UNCHANGED <<objects, tries, install, secrets>>

(* --- time ---------------------------------------------------------------- *)

Least(m, n) == IF m < n THEN m ELSE n

Tick ==
  /\ install.on => install.age < InstallTime
  /\ \A b \in Bridges : /\ reaper[b].pc = "now" => reaper[b].lag < ListTime
                        /\ reaper[b].pc \notin {"list", "now"} => reaper[b].lag < SweepTime
  /\ objects' = [o \in Objects |-> IF objects[o] = Absent THEN Absent
                                   ELSE [objects[o] EXCEPT !.age = Least(@ + 1, Old)]]
  /\ install' = IF install.on THEN [install EXCEPT !.age = @ + 1] ELSE install
  /\ reaper' = [b \in Bridges |-> IF reaper[b].pc = "list" THEN reaper[b]
                                  ELSE [reaper[b] EXCEPT !.lag = @ + 1]]
  /\ UNCHANGED <<tries, secrets, failures>>

-----------------------------------------------------------------------------
Helm == Begin \/ Record \/ Abandon \/ \E o \in Objects : Create(o)
KOG == \E o \in Objects : Guard(o) \/ Finalize(o)
reap_orphan_helm_artifacts(b) ==
  list_tracked_helm_releases(b) \/ Now(b) \/ Look(b) \/ Strip(b) \/ Delete(b)

Next == \/ Helm \/ KOG \/ Tick
        \/ \E b \in Bridges : reap_orphan_helm_artifacts(b) \/ Fail(b)

Spec == Init /\ [][Next]_vars

\* The loops of the controller and of the bridge go on; KOG may be stuck.
Fairness ==
  /\ WF_vars(Begin) /\ WF_vars(\E o \in Objects : Create(o)) /\ WF_vars(Record)
  /\ WF_vars(Tick)
  /\ \A b \in Bridges : WF_vars(reap_orphan_helm_artifacts(b))

FairSpec == Spec /\ Fairness
-----------------------------------------------------------------------------
\* Every variable stays within its type.
TypeOK ==
  /\ objects \in [Objects -> [release : Release, age : 0..Old,
                              held : BOOLEAN, deleting : BOOLEAN]]
  /\ tries \in Release /\ secrets \subseteq Release
  /\ install \in [on : BOOLEAN, age : 0..InstallTime, made : SUBSET Objects]
  /\ reaper \in [Bridges -> [pc : {"list", "now", "look", "strip", "delete"},
                             active : SUBSET Release, lag : Nat,
                             at : DOMAIN ORPHAN_RESOURCE_PATHS, release : Release]]
  /\ failures \in 0..MaxFailures

\* ORPHAN_MIN_AGE_SECONDS is there so that the reaper does not race an install that
\* is just completing; it has to outlast an install and the list of the releases.
AgeOutlasts == InstallTime + ListTime < ORPHAN_MIN_AGE

Live(r) == r \in secrets \/ (install.on /\ r = tries)
Taken(o) == /\ objects[o] # Absent /\ ~objects[o].deleting
            /\ objects'[o] = Absent \/ objects'[o].deleting

\* No reaper takes an object of a release that is recorded or being installed for an
\* orphan, however old its list of releases is.  What it can do, as nothing in lines
\* 347-364 prevents it, is to delete the namesake of an orphan: the object that a
\* retry has made between the look and the delete.
OnlyNamesakesGo ==
  [][\A o \in Objects : Live(objects[o].release) /\ Taken(o)
       => \E b \in Bridges : /\ reaper[b].pc \in {"strip", "delete"} /\ Path(b) = o
                             /\ reaper[b].release < objects[o].release]_vars

\* The sweep is there so that a retry does not stay in ReconcileError for ever
\* (KUBERNETES-CLUSTER 481): after the last failing install, some release gets through.
RetryGetsThrough == <>(secrets # {})
=============================================================================
