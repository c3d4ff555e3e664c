-------------------------- MODULE OrphanReaperProofs --------------------------
(***************************************************************************)
(* The reaper takes no object of a live release for an orphan, for any     *)
(* number of bridges, paths, failing installs and failing calls, for every *)
(* Role, and for every ORPHAN_MIN_AGE that outlasts an install and a list  *)
(* of the releases.                                                        *)
(*                                                                         *)
(* The argument is about what a look may conclude from what was read       *)
(* before: an object of the install under way is as young as the install;  *)
(* one of a release recorded since the list is at most as old as an        *)
(* install, the list and the sweep so far together.  The release of an     *)
(* orphan is dead for good, so that what a reaper deletes later by name is *)
(* either dead or of a later release.                                      *)
(***************************************************************************)
EXTENDS OrphanReaper, TLAPS

Object == [release : Release, age : 0..Old, held : BOOLEAN, deleting : BOOLEAN]
Process == [pc : {"list", "now", "look", "strip", "delete"}, active : SUBSET Release,
            lag : Nat, at : DOMAIN ORPHAN_RESOURCE_PATHS, release : Release]

LEMMA PathIsObject ==
  ASSUME TypeOK, NEW b \in Bridges
  PROVE  Path(b) \in Objects /\ reaper[b] \in Process /\ reaper[b].at \in Nat
  BY ReaperAssumption DEF TypeOK, Path, Objects, Process

LEMMA AbsentType == Absent \in Object
  BY ReaperAssumption DEF Absent, Object, Release, Old

LEMMA StartType == Start \in Process
  BY ReaperAssumption DEF Start, Process, Release

LEMMA InitType == Init => TypeOK
  BY AbsentType, StartType, ReaperAssumption
     DEF Init, TypeOK, Object, Process, Idle, Release

LEMMA NextPathType ==
  ASSUME TypeOK, NEW b \in Bridges, NextPath(b)
  PROVE  reaper' \in [Bridges -> Process]
  <1>1. reaper[b].at \in 1..Len(ORPHAN_RESOURCE_PATHS)
    BY PathIsObject, ReaperAssumption DEF Process
  <1>2. CASE reaper[b].at = Len(ORPHAN_RESOURCE_PATHS)
    <2>1. reaper' = [reaper EXCEPT ![b] = Start]
      BY <1>2 DEF NextPath
    <2> QED
      BY <2>1, StartType DEF TypeOK, Process
  <1>3. CASE reaper[b].at # Len(ORPHAN_RESOURCE_PATHS)
    <2>1. reaper[b].at + 1 \in DOMAIN ORPHAN_RESOURCE_PATHS
      BY <1>1, <1>3, ReaperAssumption
    <2>2. reaper' = [reaper EXCEPT ![b] =
                      [reaper[b] EXCEPT !.pc = "look", !.at = reaper[b].at + 1]]
      BY <1>3 DEF NextPath
    <2>3. [reaper[b] EXCEPT !.pc = "look", !.at = reaper[b].at + 1] \in Process
      BY <2>1, PathIsObject DEF Process
    <2> QED
      BY <2>2, <2>3 DEF TypeOK, Process
  <1> QED
    BY <1>2, <1>3

LEMMA HelmType == TypeOK /\ Helm => TypeOK'
  <1> SUFFICES ASSUME TypeOK, Helm PROVE TypeOK'
    OBVIOUS
  <1> USE ReaperAssumption
  <1>1. CASE Begin
    <2>1. tries + 1 \in Release
      BY <1>1 DEF Begin, TypeOK, Release
    <2>0. 0 \in 0..InstallTime /\ {} \in SUBSET Objects
      OBVIOUS
    <2>2. [Idle EXCEPT !.on = TRUE]
             \in [on : BOOLEAN, age : 0..InstallTime, made : SUBSET Objects]
      BY ONLY <2>0 DEF Idle
    <2>3. install' = [Idle EXCEPT !.on = TRUE]
      BY <1>1 DEF Begin
    <2> QED
      BY <1>1, <2>1, <2>2, <2>3 DEF Begin, TypeOK
  <1>2. CASE Record
    BY <1>2 DEF Record, TypeOK, Idle
  <1>3. CASE Abandon
    BY <1>3 DEF Abandon, TypeOK, Idle
  <1>4. ASSUME NEW o \in Objects, Create(o) PROVE TypeOK'
    <2>1. objects' \in [Objects -> Object]
      BY <1>4, AbsentType DEF Create, TypeOK, Object, Absent
    <2> QED
      BY <1>4, <2>1 DEF Create, TypeOK, Object
  <1> QED
    BY <1>1, <1>2, <1>3, <1>4 DEF Helm

LEMMA KOGType == TypeOK /\ KOG => TypeOK'
  <1> SUFFICES ASSUME TypeOK, NEW o \in Objects, Guard(o) \/ Finalize(o) PROVE TypeOK'
    BY DEF KOG
  <1>1. objects' \in [Objects -> Object]
    <2>1. CASE Guard(o)
      BY <2>1 DEF Guard, TypeOK, Object
    <2>2. CASE Finalize(o)
      BY <2>2, AbsentType DEF Finalize, TypeOK, Object
    <2> QED
      BY <2>1, <2>2
  <1> QED
    BY <1>1 DEF Guard, Finalize, TypeOK, Object

LEMMA ReaperType ==
  ASSUME TypeOK, NEW b \in Bridges, reap_orphan_helm_artifacts(b) \/ Fail(b)
  PROVE  TypeOK'
  <1>1. CASE list_tracked_helm_releases(b)
    <2>1. [Start EXCEPT !.pc = "now", !.active = secrets] \in Process
      BY StartType DEF Process, TypeOK
    <2> QED
      BY <1>1, <2>1 DEF list_tracked_helm_releases, TypeOK, Process
  <1>2. CASE Now(b)
    BY <1>2 DEF Now, TypeOK
  <1>3. CASE Look(b)
    <2>0. objects[Path(b)].release \in Release
      BY PathIsObject DEF TypeOK
    <2>1. reaper' \in [Bridges -> Process]
      BY <1>3, <2>0, NextPathType DEF Look, TypeOK, Process
    <2> QED
      BY <1>3, <2>1 DEF Look, TypeOK, Process
  <1>4. CASE Strip(b)
    <2>1. objects' \in [Objects -> Object]
      BY <1>4, AbsentType, PathIsObject DEF Strip, TypeOK, Object
    <2> QED
      BY <1>4, <2>1 DEF Strip, TypeOK, Object
  <1>5. CASE Delete(b)
    <2>1. objects' \in [Objects -> Object]
      BY <1>5, AbsentType, PathIsObject DEF Delete, TypeOK, Object
    <2>2. reaper' \in [Bridges -> Process]
      BY <1>5, NextPathType DEF Delete
    <2> QED
      BY <1>5, <2>1, <2>2 DEF Delete, TypeOK, Object, Process
  <1>6. CASE Fail(b)
    <2>1. reaper' \in [Bridges -> Process]
      BY <1>6, NextPathType DEF Fail, TypeOK, Process
    <2>2. failures' \in 0..MaxFailures
      BY <1>6, ReaperAssumption DEF Fail, TypeOK
    <2> QED
      BY <1>6, <2>1, <2>2 DEF Fail, TypeOK, Process
  <1> QED
    BY <1>1, <1>2, <1>3, <1>4, <1>5, <1>6 DEF reap_orphan_helm_artifacts

LEMMA TickType == TypeOK /\ Tick => TypeOK'
  <1> SUFFICES ASSUME TypeOK, Tick PROVE TypeOK'
    OBVIOUS
  <1>1. ASSUME NEW o \in Objects PROVE objects'[o] \in Object
    <2>1. CASE objects[o] = Absent
      BY <2>1, AbsentType DEF Tick
    <2>2. CASE objects[o] # Absent
      <3>1. Least(objects[o].age + 1, Old) \in 0..Old
        BY ReaperAssumption DEF TypeOK, Least, Old
      <3>2. objects'[o] = [objects[o] EXCEPT !.age = Least(@ + 1, Old)]
        BY <2>2 DEF Tick
      <3> QED
        BY <3>1, <3>2 DEF TypeOK, Object
    <2> QED
      BY <2>1, <2>2
  <1>2. objects' \in [Objects -> Object]
    BY <1>1 DEF Tick
  <1>3. install' \in [on : BOOLEAN, age : 0..InstallTime, made : SUBSET Objects]
    <2>1. CASE install.on
      <3>1. install.age + 1 \in 0..InstallTime
        BY <2>1, ReaperAssumption DEF Tick, TypeOK
      <3>2. install' = [install EXCEPT !.age = install.age + 1]
        BY <2>1 DEF Tick
      <3> QED
        BY <3>1, <3>2 DEF TypeOK
    <2>2. CASE ~install.on
      BY <2>2 DEF Tick, TypeOK
    <2> QED
      BY <2>1, <2>2
  <1>4. reaper' \in [Bridges -> Process]
    BY DEF Tick, TypeOK, Process
  <1> QED
    BY <1>2, <1>3, <1>4 DEF Tick, TypeOK, Object, Process

LEMMA StepType == TypeOK /\ [Next]_vars => TypeOK'
  <1> SUFFICES ASSUME TypeOK, [Next]_vars PROVE TypeOK'
    OBVIOUS
  <1>1. CASE UNCHANGED vars
    BY <1>1 DEF vars, TypeOK
  <1> QED
    BY <1>1, HelmType, KOGType, ReaperType, TickType DEF Next

\* Every variable of the reaper and of its surroundings keeps its type; with it, a
\* sweep never leaves the list of paths.
THEOREM TypeCorrect == Spec => []TypeOK
  BY InitType, StepType, PTL DEF Spec

-----------------------------------------------------------------------------
\* A retry starts from nothing, so that whatever there is belongs to the last one.
OneRelease == \A o \in Objects : objects[o] = Absent \/ objects[o].release = tries

\* What an install has made is as young as the install.
InstallIsYoung == install.on =>
  secrets = {} /\ tries # 0 /\ \A o \in Objects : objects[o].age <= install.age

\* A recorded release is the last one, and nothing is installed any more.
RecordedLast == \A r \in secrets : r = tries /\ tries # 0 /\ ~install.on

\* What the list of releases lacks by now is young.
ListedBefore(b) ==
  /\ reaper[b].active \subseteq secrets
  /\ reaper[b].pc = "now" =>
       /\ reaper[b].lag <= ListTime
       /\ \A r \in secrets \ reaper[b].active : \A o \in Objects :
            objects[o].age <= InstallTime + reaper[b].lag
  /\ reaper[b].pc \in {"look", "strip", "delete"} =>
       \A r \in secrets \ reaper[b].active : \A o \in Objects :
         objects[o].age <= InstallTime + ListTime + reaper[b].lag

\* The release that a reaper judged is an earlier one, or dead.
Judged(b) ==
  /\ reaper[b].release <= tries
  /\ reaper[b].pc \in {"strip", "delete"} /\ reaper[b].release = tries
       => ~install.on /\ secrets = {}

Safe ==
  /\ OneRelease /\ InstallIsYoung /\ RecordedLast
  /\ \A b \in Bridges : ListedBefore(b) /\ Judged(b)

LEMMA SafeInit == Init => Safe
  BY ReaperAssumption
     DEF Init, Safe, OneRelease, InstallIsYoung, RecordedLast, ListedBefore, Judged, Idle, Start

LEMMA SafeHelm ==
  ASSUME TypeOK, Safe, Helm
  PROVE  Safe'
  <1>0. /\ tries \in Nat /\ \A b \in Bridges : reaper[b].release \in Nat /\ reaper[b].lag \in Nat
        /\ \A o \in Objects : objects[o].age \in Nat
    BY ReaperAssumption DEF TypeOK, Release, Old
  <1>1. CASE Begin
    <2>0. /\ install' = [on |-> TRUE, age |-> 0, made |-> {}]
          /\ secrets' = {} /\ tries' = tries + 1 /\ reaper' = reaper
          /\ \A o \in Objects : objects'[o] = Absent
      BY <1>1 DEF Begin, Idle
    <2>1. OneRelease' /\ InstallIsYoung' /\ RecordedLast'
      BY <1>0, <2>0 DEF OneRelease, InstallIsYoung, RecordedLast, Absent
    <2>2. ASSUME NEW b \in Bridges PROVE ListedBefore(b)' /\ Judged(b)'
      <3>1. reaper[b].release <= tries /\ secrets = {}
        BY <1>1 DEF Begin, Safe, Judged
      <3>2. Judged(b)'
        BY <1>0, <2>0, <3>1 DEF Judged
      <3>3. ListedBefore(b)'
        BY <2>0, <3>1 DEF Safe, ListedBefore
      <3> QED
        BY <3>2, <3>3
    <2> QED
      BY <2>1, <2>2 DEF Safe
  <1>2. ASSUME NEW o \in Objects, Create(o) PROVE Safe'
    <2>0. /\ install.on /\ secrets = {} /\ secrets' = {} /\ tries' = tries /\ tries # 0
          /\ reaper' = reaper /\ install'.on /\ install'.age = install.age
      BY <1>2 DEF Create, Safe, InstallIsYoung, TypeOK
    <2>1. objects'[o].release = tries /\ objects'[o].age = 0
          /\ \A p \in Objects \ {o} : objects'[p] = objects[p]
      BY <1>2 DEF Create, TypeOK, Absent
    <2>2. 0 <= install.age
      BY ReaperAssumption DEF TypeOK
    <2>3. OneRelease' /\ InstallIsYoung' /\ RecordedLast'
      BY <2>0, <2>1, <2>2 DEF Safe, OneRelease, InstallIsYoung, RecordedLast
    <2>4. ASSUME NEW b \in Bridges PROVE ListedBefore(b)' /\ Judged(b)'
      BY <2>0 DEF Safe, ListedBefore, Judged
    <2> QED
      BY <2>3, <2>4 DEF Safe
  <1>3. CASE Record
    <2>0. /\ install.on /\ secrets = {} /\ secrets' = {tries} /\ ~install'.on /\ tries # 0
          /\ UNCHANGED <<objects, tries, reaper>>
      BY <1>3 DEF Record, Safe, InstallIsYoung, Idle
    <2>1. ASSUME NEW o \in Objects PROVE objects[o].age <= InstallTime
      <3>1. objects[o].age <= install.age /\ install.age <= InstallTime /\ install.age \in Nat
        BY <2>0, ReaperAssumption DEF Safe, InstallIsYoung, TypeOK
      <3> QED
        BY <1>0, <3>1, ReaperAssumption
    <2>2. ASSUME NEW b \in Bridges PROVE ListedBefore(b)' /\ Judged(b)'
      <3>1. ListedBefore(b)'
        BY <1>0, <2>0, <2>1, ReaperAssumption DEF Safe, ListedBefore
      <3>2. Judged(b)'
        BY <2>0 DEF Safe, Judged
      <3> QED
        BY <3>1, <3>2
    <2> QED
      BY <2>0, <2>2 DEF Safe, OneRelease, InstallIsYoung, RecordedLast
  <1>4. CASE Abandon
    <2>0. /\ secrets = {} /\ secrets' = {} /\ ~install'.on /\ UNCHANGED <<objects, tries, reaper>>
      BY <1>4 DEF Abandon, Safe, InstallIsYoung, Idle
    <2>1. ASSUME NEW b \in Bridges PROVE ListedBefore(b)' /\ Judged(b)'
      BY <2>0 DEF Safe, ListedBefore, Judged
    <2> QED
      BY <2>0, <2>1 DEF Safe, OneRelease, InstallIsYoung, RecordedLast
  <1> QED
    BY <1>1, <1>2, <1>3, <1>4 DEF Helm

\* What neither makes an object nor lets one age disturbs nothing but the judgements.
LEMMA SafeElsewhere ==
  ASSUME TypeOK, Safe, UNCHANGED <<tries, install, secrets>>,
         \A o \in Objects : objects'[o] = Absent \/ /\ objects'[o].release = objects[o].release
                                                    /\ objects'[o].age = objects[o].age
                                                    /\ objects[o] # Absent
  PROVE  /\ OneRelease' /\ InstallIsYoung' /\ RecordedLast'
         /\ \A o \in Objects : objects'[o].age <= objects[o].age /\ objects'[o].age \in Nat
  <1>1. ASSUME NEW o \in Objects
        PROVE  objects'[o].age <= objects[o].age /\ objects[o].age \in Nat /\ objects'[o].age \in Nat
    <2>1. objects[o].age \in Nat
      BY ReaperAssumption DEF TypeOK, Old
    <2>2. CASE objects'[o] = Absent
      BY <2>1, <2>2 DEF Absent
    <2>3. CASE objects'[o] # Absent
      BY <2>1, <2>3
    <2> QED
      BY <2>1, <2>2, <2>3
  <1>2. install.age \in Nat
    BY ReaperAssumption DEF TypeOK
  <1>3. InstallIsYoung'
    BY <1>1, <1>2 DEF Safe, InstallIsYoung
  <1> QED
    BY <1>1, <1>3 DEF Safe, OneRelease, RecordedLast

LEMMA SafeKOG ==
  ASSUME TypeOK, Safe, KOG
  PROVE  Safe'
  <1> SUFFICES ASSUME NEW o \in Objects, Guard(o) \/ Finalize(o) PROVE Safe'
    BY DEF KOG
  <1>1. /\ UNCHANGED <<tries, install, secrets, reaper>>
        /\ \A p \in Objects : objects'[p] = Absent \/ /\ objects'[p].release = objects[p].release
                                                      /\ objects'[p].age = objects[p].age
                                                      /\ objects[p] # Absent
    <2>1. CASE Guard(o)
      BY <2>1 DEF Guard, TypeOK
    <2>2. CASE Finalize(o)
      BY <2>2 DEF Finalize, TypeOK
    <2> QED
      BY <2>1, <2>2
  <1>2. /\ OneRelease' /\ InstallIsYoung' /\ RecordedLast'
        /\ \A p \in Objects : objects'[p].age <= objects[p].age /\ objects'[p].age \in Nat
    BY <1>1, SafeElsewhere
  <1>3. ASSUME NEW b \in Bridges PROVE ListedBefore(b)' /\ Judged(b)'
    <2>1. reaper[b].lag \in Nat /\ \A p \in Objects : objects[p].age \in Nat
      BY DEF TypeOK
    <2> QED
      BY <1>1, <1>2, <2>1, ReaperAssumption DEF Safe, ListedBefore, Judged
  <1> QED
    BY <1>2, <1>3 DEF Safe

\* What an orphan to Look at tells of the rest.
LEMMA OrphanAlone ==
  ASSUME AgeOutlasts, TypeOK, Safe, NEW b \in Bridges, reaper[b].pc = "look", Orphan(b)
  PROVE  ~install.on /\ secrets = {}
  <1> DEFINE o == Path(b)
  <1>0. o \in Objects /\ objects[o].age \in Nat /\ reaper[b].lag \in Nat /\ install.age \in Nat
    BY PathIsObject DEF TypeOK
  <1>1. objects[o] # Absent /\ objects[o].age >= ORPHAN_MIN_AGE + reaper[b].lag
    BY DEF Orphan
  <1>2. ~install.on
    <2>1. install.age <= InstallTime
      BY ReaperAssumption DEF TypeOK
    <2>2. install.on => objects[o].age <= install.age
      BY <1>0 DEF Safe, InstallIsYoung
    <2> QED
      BY <1>0, <1>1, <2>1, <2>2, ReaperAssumption DEF AgeOutlasts
  <1>3. ASSUME NEW r \in secrets PROVE FALSE
    <2>1. objects[o].release = r
      BY <1>0, <1>1 DEF Safe, OneRelease, RecordedLast
    <2>2. r \notin reaper[b].active
      BY <2>1 DEF Orphan
    <2>3. objects[o].age <= InstallTime + ListTime + reaper[b].lag
      BY <1>0, <2>2 DEF Safe, ListedBefore
    <2> QED
      BY <1>0, <1>1, <2>3, ReaperAssumption DEF AgeOutlasts
  <1> QED
    BY <1>2, <1>3

\* On to the next path, or to the next sweep.
LEMMA SafeNextPath ==
  ASSUME TypeOK, Safe, NEW b \in Bridges, NextPath(b), UNCHANGED <<tries, install, secrets>>,
         \A o \in Objects : objects'[o].age <= objects[o].age /\ objects'[o].age \in Nat,
         reaper[b].pc \in {"look", "strip", "delete"}
  PROVE  ListedBefore(b)' /\ Judged(b)'
  <1>1. CASE reaper'[b] = Start
    <2>1. tries \in Nat
      BY DEF TypeOK, Release
    <2> QED
      BY <1>1, <2>1 DEF Start, ListedBefore, Judged
  <1>2. CASE /\ reaper'[b].pc = "look" /\ reaper'[b].active = reaper[b].active
             /\ reaper'[b].lag = reaper[b].lag /\ reaper'[b].release = reaper[b].release
    <2>1. reaper[b].lag \in Nat /\ \A o \in Objects : objects[o].age \in Nat
      BY DEF TypeOK
    <2>2. ListedBefore(b)'
      BY <1>2, <2>1, ReaperAssumption DEF Safe, ListedBefore
    <2>3. Judged(b)'
      BY <1>2 DEF Safe, Judged
    <2> QED
      BY <2>2, <2>3
  <1>3. reaper[b] \in Process /\ reaper \in [Bridges -> Process]
    BY DEF TypeOK, Process
  <1> QED
    BY <1>1, <1>2, <1>3 DEF NextPath, Process

\* What Strip and Delete do to the object of a path; Strip takes none that is alive.
LEMMA CallTakes ==
  ASSUME TypeOK, NEW b \in Bridges, Strip(b) \/ Delete(b), NEW o \in Objects
  PROVE  /\ objects'[o] = Absent \/ /\ objects'[o].release = objects[o].release
                                    /\ objects'[o].age = objects[o].age
                                    /\ objects[o] # Absent
         /\ o # Path(b) => objects'[o] = objects[o]
         /\ Strip(b) /\ objects[o].release # 0 => ~Taken(o)
  <1>1. Path(b) \in Objects /\ objects[o] \in Object /\ objects \in [Objects -> Object]
    BY PathIsObject DEF TypeOK, Object
  <1>2. CASE Strip(b)
    <2>1. \/ objects'[o] = objects[o]
          \/ objects'[o] = Absent /\ objects[o].deleting /\ o = Path(b)
          \/ objects'[o] = [objects[o] EXCEPT !.held = FALSE] /\ o = Path(b)
      BY <1>1, <1>2 DEF Strip
    <2>2. CASE objects'[o] = objects[o]
      BY <1>1, <2>2 DEF Taken
    <2>3. CASE objects'[o] = Absent /\ objects[o].deleting /\ o = Path(b)
      BY <1>1, <2>3 DEF Taken
    <2>4. CASE objects'[o] = [objects[o] EXCEPT !.held = FALSE] /\ o = Path(b)
      <3>1. /\ objects'[o].release = objects[o].release /\ objects'[o].age = objects[o].age
            /\ objects'[o].deleting = objects[o].deleting
        BY <1>1, <2>4 DEF Object
      <3>2. CASE objects[o] = Absent
        <4>0. [Absent EXCEPT !.held = FALSE] = Absent
          <5>1. ASSUME NEW x \in Object, x.held = FALSE PROVE [x EXCEPT !.held = FALSE] = x
            BY <5>1 DEF Object
          <5>2. Absent \in Object /\ Absent.held = FALSE
            BY AbsentType DEF Absent
          <5> QED
            BY <5>1, <5>2
        <4>1. objects'[o] = [objects[o] EXCEPT !.held = FALSE] /\ objects[o] = Absent
          BY <2>4, <3>2
        <4>2. objects'[o] = Absent
          BY <4>0, <4>1, Zenon
        <4> QED
          BY <2>4, <3>2, <4>2 DEF Taken
      <3>3. CASE objects[o] # Absent
        <4>1. objects[o].release # 0 => objects'[o] # Absent
          BY <3>1 DEF Absent
        <4> QED
          BY <2>4, <3>1, <3>3, <4>1 DEF Taken
      <3> QED
        BY <3>2, <3>3
    <2> QED
      BY <2>1, <2>2, <2>3, <2>4
  <1>3. CASE Delete(b)
    <2>0. ~Strip(b)
      BY <1>3 DEF Delete, Strip
    <2>1. \/ objects'[o] = objects[o]
          \/ objects'[o] = Absent /\ o = Path(b)
          \/ objects'[o] = [objects[o] EXCEPT !.deleting = TRUE] /\ objects[o].held /\ o = Path(b)
      BY <1>1, <1>3 DEF Delete
    <2>2. CASE objects'[o] = objects[o]
      BY <1>1, <2>0, <2>2
    <2>3. CASE objects'[o] = Absent /\ o = Path(b)
      BY <1>1, <2>0, <2>3
    <2>4. CASE objects'[o] = [objects[o] EXCEPT !.deleting = TRUE] /\ objects[o].held /\ o = Path(b)
      BY <1>1, <2>0, <2>4 DEF Absent, Object
    <2> QED
      BY <2>1, <2>2, <2>3, <2>4
  <1> QED
    BY <1>2, <1>3

LEMMA SafeReaper ==
  ASSUME AgeOutlasts, TypeOK, Safe,
         NEW b \in Bridges, reap_orphan_helm_artifacts(b) \/ Fail(b)
  PROVE  Safe'
  <1>0. /\ reaper[b] \in Process /\ reaper \in [Bridges -> Process]
        /\ \A c \in Bridges \ {b} : reaper'[c] = reaper[c]
        /\ UNCHANGED <<tries, install, secrets>>
    BY DEF TypeOK, Process, reap_orphan_helm_artifacts, list_tracked_helm_releases, Now, Look,
           Strip, Delete, Fail, NextPath
  <1>1. \A o \in Objects : objects'[o] = Absent \/ /\ objects'[o].release = objects[o].release
                                                   /\ objects'[o].age = objects[o].age
                                                   /\ objects[o] # Absent
    <2>1. CASE Strip(b) \/ Delete(b)
      BY <2>1, CallTakes
    <2>2. CASE ~(Strip(b) \/ Delete(b))
      <3>1. objects' = objects
        BY <2>2 DEF reap_orphan_helm_artifacts, list_tracked_helm_releases, Now, Look, Fail
      <3> QED
        BY <3>1
    <2> QED
      BY <2>1, <2>2
  <1>2. /\ OneRelease' /\ InstallIsYoung' /\ RecordedLast'
        /\ \A o \in Objects : objects'[o].age <= objects[o].age /\ objects'[o].age \in Nat
    BY <1>0, <1>1, SafeElsewhere
  <1>3. \A c \in Bridges : reaper[c].lag \in Nat /\ \A o \in Objects : objects[o].age \in Nat
    BY DEF TypeOK
  <1>4. ASSUME NEW c \in Bridges \ {b} PROVE ListedBefore(c)' /\ Judged(c)'
    <2>1. ListedBefore(c) /\ Judged(c) /\ reaper'[c] = reaper[c] /\ reaper[c].lag \in Nat
      BY <1>0, <1>3 DEF Safe
    <2>2. ListedBefore(c)'
      <3>1. ASSUME NEW n \in Nat, NEW o \in Objects, objects[o].age <= n
            PROVE  objects'[o].age <= n
        BY <1>2, <1>3, <3>1
      <3>2. InstallTime + reaper[c].lag \in Nat /\ InstallTime + ListTime + reaper[c].lag \in Nat
        BY <2>1, ReaperAssumption
      <3> QED
        BY <1>0, <2>1, <3>1, <3>2 DEF ListedBefore
    <2>3. Judged(c)'
      BY <1>0, <2>1 DEF Judged
    <2> QED
      BY <2>2, <2>3
  <1>5. ListedBefore(b) /\ Judged(b)
    BY DEF Safe
  <1>6. ASSUME reaper[b].pc \in {"look", "strip"}, reaper'[b].pc \in {"strip", "delete"},
               reaper'[b].active = reaper[b].active, reaper'[b].lag = reaper[b].lag
        PROVE  ListedBefore(b)'
    BY <1>0, <1>2, <1>3, <1>5, <1>6, ReaperAssumption DEF ListedBefore
  <1>7. ListedBefore(b)' /\ Judged(b)'
    <2>1. CASE list_tracked_helm_releases(b)
      <3>1. /\ reaper'[b].pc = "now" /\ reaper'[b].active = secrets /\ reaper'[b].lag = 0
            /\ reaper'[b].release = 0
        BY <1>0, <2>1 DEF list_tracked_helm_releases, Start
      <3>2. tries \in Nat
        BY DEF TypeOK, Release
      <3> QED
        BY <1>0, <3>1, <3>2, ReaperAssumption DEF ListedBefore, Judged
    <2>2. CASE Now(b)
      <3>1. /\ reaper[b].pc = "now" /\ reaper'[b].pc = "look" /\ reaper'[b].lag = 0
            /\ reaper'[b].active = reaper[b].active /\ reaper'[b].release = reaper[b].release
        BY <1>0, <2>2 DEF Now, Process
      <3>2. ListedBefore(b)'
        <4>1. ASSUME NEW r \in secrets \ reaper[b].active, NEW o \in Objects
              PROVE  objects'[o].age <= InstallTime + ListTime + 0
          <5>1. /\ objects[o].age <= InstallTime + reaper[b].lag /\ reaper[b].lag <= ListTime
                /\ reaper[b].lag \in Nat /\ objects[o].age \in Nat
            BY <1>3, <1>5, <3>1 DEF ListedBefore
          <5>2. objects'[o].age <= objects[o].age /\ objects'[o].age \in Nat
            BY <1>2
          <5> QED
            BY <5>1, <5>2, ReaperAssumption
        <4>2. reaper'[b].active \subseteq secrets /\ secrets' = secrets
          BY <1>0, <1>5, <3>1 DEF ListedBefore
        <4> QED
          BY <3>1, <4>1, <4>2 DEF ListedBefore
      <3>3. Judged(b)'
        BY <1>0, <1>5, <3>1 DEF Judged
      <3> QED
        BY <3>2, <3>3
    <2>3. CASE Look(b) /\ May(b, "list") /\ Orphan(b)
      <3>1. ~install.on /\ secrets = {}
        BY <2>3, OrphanAlone DEF Look
      <3>2. /\ reaper[b].pc = "look" /\ reaper'[b].pc = "strip"
            /\ reaper'[b].active = reaper[b].active /\ reaper'[b].lag = reaper[b].lag
            /\ reaper'[b].release = objects[Path(b)].release
        BY <1>0, <2>3 DEF Look, Process
      <3>3. objects[Path(b)].release = tries /\ tries \in Nat
        BY <2>3, PathIsObject DEF Orphan, Safe, OneRelease, TypeOK, Release
      <3>4. Judged(b)'
        BY <1>0, <3>1, <3>2, <3>3 DEF Judged
      <3> QED
        BY <1>6, <3>2, <3>4
    <2>4. CASE Look(b) /\ ~(May(b, "list") /\ Orphan(b))
      <3>1. NextPath(b) /\ reaper[b].pc = "look"
        BY <2>4 DEF Look
      <3> QED
        BY <1>0, <1>2, <3>1, SafeNextPath
    <2>5. CASE Strip(b) \/ (Fail(b) /\ reaper[b].pc = "strip")
      <3>1. /\ reaper[b].pc = "strip" /\ reaper'[b].pc = "delete"
            /\ reaper'[b].active = reaper[b].active /\ reaper'[b].lag = reaper[b].lag
            /\ reaper'[b].release = reaper[b].release
        BY <1>0, <2>5 DEF Strip, Fail, Process
      <3>2. Judged(b)'
        BY <1>0, <1>5, <3>1 DEF Judged
      <3> QED
        BY <1>6, <3>1, <3>2
    <2>6. CASE Delete(b) \/ (Fail(b) /\ reaper[b].pc # "strip")
      <3>1. NextPath(b) /\ reaper[b].pc \in {"look", "strip", "delete"}
        BY <2>6 DEF Delete, Fail
      <3> QED
        BY <1>0, <1>2, <3>1, SafeNextPath
    <2> QED
      BY <2>1, <2>2, <2>3, <2>4, <2>5, <2>6 DEF reap_orphan_helm_artifacts
  <1> QED
    BY <1>2, <1>4, <1>7 DEF Safe

LEMMA LagKeepsUp ==
  \A a, a1, i, l, l1 \in Nat :
     a <= i + l /\ a1 <= a + 1 /\ l1 = l + 1 => a1 <= i + l1
  OBVIOUS

\* What a tick does to an object.
LEMMA TickAges ==
  ASSUME TypeOK, Tick, NEW o \in Objects
  PROVE  /\ objects'[o].release = objects[o].release
         /\ objects'[o].age <= objects[o].age + 1 /\ objects'[o].age \in Nat
         /\ objects[o].age \in Nat
         /\ objects[o] = Absent => objects'[o] = Absent
         /\ objects[o].release # 0 => ~Taken(o)
  <1>0. objects[o].age \in Nat /\ objects[o] \in Object
    BY DEF TypeOK, Object
  <1>1. CASE objects[o] = Absent
    BY <1>0, <1>1 DEF Tick, Taken
  <1>2. CASE objects[o] # Absent
    <2>1. objects'[o] = [objects[o] EXCEPT !.age = Least(objects[o].age + 1, Old)]
      BY <1>2 DEF Tick
    <2>2. Least(objects[o].age + 1, Old) <= objects[o].age + 1
          /\ Least(objects[o].age + 1, Old) \in Nat
      BY <1>0, ReaperAssumption DEF Least, Old
    <2> QED
      BY <1>0, <1>2, <2>1, <2>2 DEF Object, Absent, Taken
  <1> QED
    BY <1>1, <1>2

LEMMA SafeTick ==
  ASSUME TypeOK, Safe, Tick
  PROVE  Safe'
  <1>1. /\ install'.on = install.on /\ UNCHANGED <<tries, secrets>>
        /\ install.on => install'.age = install.age + 1
        /\ install.age \in Nat
    BY DEF Tick, TypeOK
  <1>2. OneRelease' /\ RecordedLast'
    BY <1>1, TickAges DEF Safe, OneRelease, RecordedLast
  <1>3. InstallIsYoung'
    <2>1. CASE install.on
      <3>1. ASSUME NEW o \in Objects PROVE objects'[o].age <= install'.age
        <4>1. objects[o].age <= install.age
          BY <2>1 DEF Safe, InstallIsYoung
        <4> QED
          BY <1>1, <2>1, <4>1, TickAges
      <3> QED
        BY <1>1, <2>1, <3>1 DEF Safe, InstallIsYoung
    <2>2. CASE ~install.on
      BY <1>1, <2>2 DEF InstallIsYoung
    <2> QED
      BY <2>1, <2>2
  <1>4. ASSUME NEW b \in Bridges PROVE ListedBefore(b)' /\ Judged(b)'
    <2>1. reaper[b].lag \in Nat
      BY DEF TypeOK
    <2>2. /\ reaper'[b].pc = reaper[b].pc /\ reaper'[b].active = reaper[b].active
          /\ reaper'[b].release = reaper[b].release
          /\ reaper[b].pc # "list" => reaper'[b].lag = reaper[b].lag + 1
      BY DEF Tick, TypeOK
    <2>3. Judged(b)'
      BY <1>1, <2>2 DEF Safe, Judged
    <2>4. reaper[b].active \subseteq secrets
      BY DEF Safe, ListedBefore
    <2>5. ASSUME reaper[b].pc = "now"
          PROVE  /\ reaper'[b].lag <= ListTime
                 /\ \A r \in secrets \ reaper[b].active : \A o \in Objects :
                      objects'[o].age <= InstallTime + reaper'[b].lag
      <3>1. reaper'[b].lag = reaper[b].lag + 1 /\ reaper[b].lag < ListTime
        BY <2>2, <2>5 DEF Tick
      <3>2. ASSUME NEW r \in secrets \ reaper[b].active, NEW o \in Objects
            PROVE  objects'[o].age <= InstallTime + reaper'[b].lag
        <4>1. objects[o].age <= InstallTime + reaper[b].lag
          BY <2>5, <3>2 DEF Safe, ListedBefore
        <4> QED
          BY <2>1, <3>1, <4>1, TickAges, LagKeepsUp, ReaperAssumption
      <3> QED
        BY <2>1, <3>1, <3>2, ReaperAssumption
    <2>6. ASSUME reaper[b].pc \in {"look", "strip", "delete"},
                 NEW r \in secrets \ reaper[b].active, NEW o \in Objects
          PROVE  objects'[o].age <= InstallTime + ListTime + reaper'[b].lag
      <3>1. objects[o].age <= InstallTime + ListTime + reaper[b].lag
        BY <2>6 DEF Safe, ListedBefore
      <3>2. reaper'[b].lag = reaper[b].lag + 1 /\ InstallTime + ListTime \in Nat
        BY <2>2, <2>6, ReaperAssumption
      <3> QED
        BY <2>1, <3>1, <3>2, TickAges, LagKeepsUp
    <2>7. ListedBefore(b)'
      BY <1>1, <2>2, <2>4, <2>5, <2>6 DEF ListedBefore
    <2> QED
      BY <2>3, <2>7
  <1> QED
    BY <1>2, <1>3, <1>4 DEF Safe

LEMMA SafeStep ==
  ASSUME AgeOutlasts, TypeOK, Safe, [Next]_vars
  PROVE  Safe'
  <1>1. CASE UNCHANGED vars
    BY <1>1 DEF vars, Safe, OneRelease, InstallIsYoung, RecordedLast, ListedBefore, Judged
  <1> QED
    BY <1>1, SafeHelm, SafeKOG, SafeReaper, SafeTick DEF Next

-----------------------------------------------------------------------------
\* The step that OnlyNamesakesGo is about.
NamesakeOf(o) == \E b \in Bridges : /\ reaper[b].pc \in {"strip", "delete"} /\ Path(b) = o
                                    /\ reaper[b].release < objects[o].release

LEMMA DeleteTakesNamesakes ==
  ASSUME TypeOK, Safe, NEW b \in Bridges, Delete(b), NEW o \in Objects,
         Live(objects[o].release), Taken(o)
  PROVE  NamesakeOf(o)
  <1>1. o = Path(b)
    BY CallTakes DEF Taken
  <1>2. objects[o].release = tries /\ tries \in Nat /\ reaper[b].release \in Nat
    BY DEF Taken, Safe, OneRelease, TypeOK, Release
  <1>3. install.on \/ secrets # {}
    BY DEF Live
  <1>4. reaper[b].pc = "delete"
    BY DEF Delete
  <1>5. reaper[b].release < tries
    BY <1>2, <1>3, <1>4 DEF Safe, Judged
  <1> QED
    BY <1>1, <1>2, <1>4, <1>5 DEF NamesakeOf

LEMMA OnlyDeleteTakes ==
  ASSUME TypeOK, Safe, [Next]_vars, NEW o \in Objects, Live(objects[o].release), Taken(o)
  PROVE  \E b \in Bridges : Delete(b)
  <1>0. objects[o] # Absent /\ objects[o] \in Object /\ objects \in [Objects -> Object]
    BY DEF Taken, TypeOK, Object
  <1>r. objects[o].release # 0
    <2>1. objects[o].release = tries
      BY <1>0 DEF Safe, OneRelease
    <2> QED
      BY <2>1 DEF Live, Safe, InstallIsYoung, RecordedLast
  <1>1. ASSUME NEW b \in Bridges, Strip(b) PROVE FALSE
    BY <1>1, <1>r, CallTakes
  <1>2. ASSUME NEW p \in Objects, Create(p) PROVE FALSE
    <2>1. tries # 0 /\ objects'[p].release = tries /\ ~objects'[p].deleting
          /\ \A q \in Objects \ {p} : objects'[q] = objects[q]
      BY <1>0, <1>2 DEF Create, Safe, InstallIsYoung, Absent
    <2> QED
      BY <2>1 DEF Taken, Absent
  <1>3. ASSUME NEW p \in Objects, Guard(p) PROVE FALSE
    <2>1. \/ objects'[o] = objects[o]
          \/ o = p /\ objects'[o] = [objects[o] EXCEPT !.held = TRUE]
      BY <1>0, <1>3 DEF Guard
    <2> QED
      BY <1>0, <2>1 DEF Taken, Absent, Object
  <1>4. ASSUME NEW p \in Objects, Finalize(p) PROVE FALSE
    BY <1>0, <1>4 DEF Finalize, Taken
  <1>5. ASSUME Tick PROVE FALSE
    BY <1>5, <1>r, TickAges
  <1>6. ASSUME UNCHANGED objects PROVE FALSE
    BY <1>0, <1>6 DEF Taken
  <1> QED
    BY <1>1, <1>2, <1>3, <1>4, <1>5, <1>6
       DEF Next, Helm, KOG, reap_orphan_helm_artifacts, Begin, Record, Abandon,
           list_tracked_helm_releases, Now, Look, Fail, vars

\* As long as ORPHAN_MIN_AGE_SECONDS outlasts an install and a list of the releases,
\* the reaper judges no object of a release that is recorded or being installed: the
\* one it may take all the same is of a later release than the orphan it judged.
THEOREM LiveIsSpared == ASSUME AgeOutlasts PROVE Spec => OnlyNamesakesGo
  <1>1. TypeOK /\ Safe /\ [Next]_vars => (TypeOK /\ Safe)'
    BY SafeStep, StepType
  <1>2. Init => TypeOK /\ Safe
    BY InitType, SafeInit
  <1>3. TypeOK /\ Safe /\ [Next]_vars =>
          [\A o \in Objects : Live(objects[o].release) /\ Taken(o)
             => \E b \in Bridges : /\ reaper[b].pc \in {"strip", "delete"} /\ Path(b) = o
                                   /\ reaper[b].release < objects[o].release]_vars
    BY OnlyDeleteTakes, DeleteTakesNamesakes DEF NamesakeOf
  <1> QED
    BY <1>1, <1>2, <1>3, PTL DEF Spec, OnlyNamesakesGo
=============================================================================
