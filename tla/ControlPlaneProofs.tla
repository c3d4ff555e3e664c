------------------------- MODULE ControlPlaneProofs -------------------------
(***************************************************************************)
(* One CA for every control-plane node, for any number of nodes, renders   *)
(* that come to nothing and re-images; no host is ever taken away; and no  *)
(* replica reports a join that etcd does not count, for any number of      *)
(* replicas, attempts, failures and reboots.                               *)
(***************************************************************************)
EXTENDS ControlPlane, FiniteSetTheorems, TLAPS

\* --- the joins: the parts of the type invariant, and the invariant ---

Pcs == {"gates", "list", "remove", "wait", "join", "learner", "voter", "reset",
        "joined", "failed", "dead"}
Ids == SUBSET (Replicas \X (1..MaxAttempts))
Scripts == [pc : Pcs, attempt : 0..MaxAttempts, failing : BOOLEAN, ids : Ids]
Members == [added : 0..MaxAttempts, voter : BOOLEAN]

\* Only the cleanup has a list, and only with what this host takes for its own; a reboot
\* may leave one behind.
Books(r) ==
  /\ At(r, {"gates"}) => script[r].attempt = 0 /\ member[r] = Gone
  /\ script[r].ids # {} => At(r, {"remove", "dead"})
  /\ \A id \in script[r].ids : id[1] = r \/ <<r, id[1]>> \in partOf

\* What kubeadm join ends with.
Votes(r) == Apart(r) /\ At(r, {"voter", "joined"}) => member[r].voter

\* Two cleanups lie between a failure and the next wait.  This is how many of their calls
\* have failed if a replica still has a ghost of its own: one where the first cleanup is
\* over, or has missed it in its list; two where the second one has.
Kept(r) == <<r, member[r].added>> \notin script[r].ids
Cleaning(r) == Pending(r) =>
  /\ At(r, {"remove"}) /\ script[r].failing /\ Kept(r) => slips >= 1
  /\ At(r, {"reset"}) => slips >= 1
  /\ At(r, {"list", "remove"}) /\ ~script[r].failing => slips >= 1
  /\ At(r, {"remove"}) /\ ~script[r].failing /\ Kept(r) => slips >= 2
  /\ At(r, {"wait"}) => slips >= 2

JoinInv == JoinTypeOK /\ \A r \in Replicas : Books(r) /\ Votes(r) /\ Cleaning(r)

LEMMA Bounds == /\ MaxAttempts \in Nat \ {0} /\ MaxFailures \in Nat /\ MaxSlips \in Nat
                 /\ \A o \in Overlaps : o \subseteq Replicas \X Replicas
  BY JoinAssumption

LEMMA TypeFacts ==
  JoinTypeOK <=> /\ partOf \in Overlaps /\ published \in BOOLEAN
                 /\ script \in [Replicas -> Scripts] /\ member \in [Replicas -> Members]
                 /\ failures \in 0..MaxFailures /\ slips \in 0..MaxSlips
  BY DEF JoinTypeOK, Scripts, Pcs, Ids, Members

LEMMA JoinStart == JoinInit => JoinInv
  <1> SUFFICES ASSUME JoinInit PROVE JoinInv
    OBVIOUS
  <1>1. JoinTypeOK
    <2>1. Script("gates", 0) \in Scripts /\ Gone \in Members
      BY Bounds DEF Script, Gone, Scripts, Members, Pcs, Ids
    <2>2. script \in [Replicas -> Scripts] /\ member \in [Replicas -> Members]
      BY <2>1 DEF JoinInit
    <2>3. partOf \in Overlaps /\ published \in BOOLEAN /\ failures = 0 /\ slips = 0
      BY DEF JoinInit
    <2>4. 0 \in 0..MaxFailures /\ 0 \in 0..MaxSlips
      BY Bounds
    <2> QED
      BY <2>2, <2>3, <2>4, TypeFacts
  <1>2. ASSUME NEW r \in Replicas PROVE Books(r) /\ Votes(r) /\ Cleaning(r)
    BY DEF JoinInit, Books, Votes, Cleaning, Pending, At, Script, Gone
  <1> QED
    BY <1>1, <1>2 DEF JoinInv

\* A step that goes on with one script, adds nothing to its list, and leaves the
\* members alone.
LEMMA JoinTypes ==
  ASSUME JoinTypeOK, NEW r \in Replicas, NEW s \in Scripts,
         script' = [script EXCEPT ![r] = s], partOf' = partOf,
         published' \in BOOLEAN, member' \in [Replicas -> Members],
         failures' \in 0..MaxFailures, slips' \in 0..MaxSlips
  PROVE  JoinTypeOK'
  <1>1. script' \in [Replicas -> Scripts]
    BY TypeFacts
  <1> QED
    BY <1>1, TypeFacts DEF JoinTypeOK, Scripts, Pcs, Ids, Members

\* One replica's step, as seen by the others: their members may only be removed, and
\* only by one whose address is a part of theirs.
LEMMA Others ==
  ASSUME JoinInv, NEW r \in Replicas, NEW q \in Replicas, q # r,
         script'[q] = script[q], partOf' = partOf, slips' \in Nat, slips' >= slips,
         \/ member'[q] = member[q]
         \/ member'[q] = Gone /\ <<r, q>> \in partOf
  PROVE  Books(q)' /\ Votes(q)' /\ Cleaning(q)'
  <1> USE Bounds, TypeFacts DEF JoinInv
  <1>1. Books(q)'
    BY DEF Books, At
  <1>2. Votes(q)'
    BY DEF Votes, Apart, At
  <1>3. CASE member'[q] = Gone
    BY <1>3, <1>1, <1>2 DEF Cleaning, Pending
  <1>4. CASE member'[q] = member[q]
    <2>1. Cleaning(q) /\ slips \in Nat
      OBVIOUS
    <2>2. Cleaning(q)'
      BY <1>4, <2>1 DEF Cleaning, Kept, Pending, At
    <2> QED
      BY <2>2, <1>1, <1>2
  <1> QED
    BY <1>3, <1>4

\* What is left to show of a step.
LEMMA Step ==
  ASSUME JoinInv, NEW r \in Replicas, NEW s \in Scripts,
         script' = [script EXCEPT ![r] = s], partOf' = partOf,
         published' \in BOOLEAN, member' \in [Replicas -> Members],
         failures' \in 0..MaxFailures, slips' \in 0..MaxSlips, slips' >= slips,
         \A q \in Replicas \ {r} : \/ member'[q] = member[q]
                                   \/ member'[q] = Gone /\ <<r, q>> \in partOf,
         Books(r)', Votes(r)', Cleaning(r)'
  PROVE  JoinInv'
  <1>1. JoinTypeOK'
    BY JoinTypes DEF JoinInv
  <1>2. ASSUME NEW q \in Replicas, q # r PROVE Books(q)' /\ Votes(q)' /\ Cleaning(q)'
    <2>1. script'[q] = script[q]
      BY <1>2 DEF JoinInv, JoinTypeOK
    <2>2. \/ member'[q] = member[q]
          \/ member'[q] = Gone /\ <<r, q>> \in partOf
      BY <1>2
    <2> QED
      BY <1>2, <2>1, <2>2, Others
  <1> QED
    BY <1>1, <1>2 DEF JoinInv

LEMMA ScriptFacts ==
  ASSUME JoinInv, NEW r \in Replicas
  PROVE  /\ script[r] \in Scripts /\ member[r] \in Members /\ slips \in Nat
         /\ Books(r) /\ Votes(r) /\ Cleaning(r)
  BY Bounds, TypeFacts DEF JoinInv

\* A step that only moves on in the script: what is left to show.
LEMMA GotoStep ==
  ASSUME JoinInv, NEW r \in Replicas, NEW pc \in Pcs \ {"gates"}, Goto(r, pc),
         script[r].ids # {} => pc = "dead",
         partOf' = partOf, published' \in BOOLEAN, member' \in [Replicas -> Members],
         failures' \in 0..MaxFailures, slips' \in 0..MaxSlips, slips' >= slips,
         \A q \in Replicas \ {r} : member'[q] = member[q],
         Apart(r) /\ pc \in {"voter", "joined"} => member'[r].voter,
         Pending(r)' => /\ pc \in {"reset", "list"} => slips' >= 1
                        /\ pc = "wait" => slips' >= 2,
         pc # "remove"
  PROVE  JoinInv'
  <1> DEFINE s == [script[r] EXCEPT !.pc = pc]
  <1>1. s \in Scripts /\ script' = [script EXCEPT ![r] = s] /\ script'[r] = s
    BY ScriptFacts, TypeFacts DEF JoinInv, Scripts, Goto
  <1>2. /\ script'[r].pc = pc /\ script'[r].ids = script[r].ids
    BY <1>1, ScriptFacts DEF Scripts
  <1>3. Books(r)'
    BY <1>2, ScriptFacts DEF Books, At
  <1>4. Votes(r)'
    BY <1>2 DEF Votes, Apart, At
  <1>5. Cleaning(r)'
    BY <1>2 DEF Cleaning, At
  <1> HIDE DEF s
  <1> QED
    BY <1>1, <1>3, <1>4, <1>5, Step

LEMMA NextAttemptStep ==
  ASSUME JoinInv, NEW r \in Replicas, NextAttempt(r), script[r].attempt # MaxAttempts,
         partOf' = partOf, published' \in BOOLEAN, failures' \in 0..MaxFailures,
         slips' \in 0..MaxSlips, slips' >= slips,
         \/ member' = member
         \/ member' = [member EXCEPT ![r] = Gone],
         Pending(r)' => slips' >= 1
  PROVE  JoinInv'
  <1> DEFINE s == Script("list", script[r].attempt + 1)
  <1>1. s \in Scripts
    <2>1. script[r].attempt + 1 \in 0..MaxAttempts
      BY ScriptFacts, Bounds DEF Scripts
    <2> QED
      BY <2>1 DEF Script, Scripts, Pcs, Ids
  <1>2. script' = [script EXCEPT ![r] = s] /\ script'[r] = s
    BY TypeFacts DEF NextAttempt, JoinInv
  <1>3. member' \in [Replicas -> Members]
    <2>1. Gone \in Members
      BY Bounds DEF Members, Gone
    <2> QED
      BY <2>1, TypeFacts DEF JoinInv
  <1>4. script'[r].pc = "list" /\ script'[r].ids = {}
    BY <1>2 DEF Script
  <1>5. Books(r)' /\ Votes(r)' /\ Cleaning(r)'
    BY <1>4 DEF Books, Votes, Cleaning, At
  <1>6. \A q \in Replicas \ {r} : member'[q] = member[q]
    BY TypeFacts DEF JoinInv
  <1> HIDE DEF s
  <1> QED
    BY <1>1, <1>2, <1>3, <1>5, <1>6, Step

\* What the steps that leave the members alone have in common.
LEMMA Unmoved ==
  ASSUME JoinInv, UNCHANGED <<partOf, published, member>>
  PROVE  /\ partOf' = partOf /\ published' \in BOOLEAN
         /\ member' \in [Replicas -> Members]
         /\ \A q \in Replicas : member'[q] = member[q] /\ (Pending(q)' <=> Pending(q))
         /\ failures \in 0..MaxFailures /\ slips \in 0..MaxSlips /\ slips >= slips
         /\ failures < MaxFailures => failures + 1 \in 0..MaxFailures
         /\ slips < MaxSlips => slips + 1 \in 0..MaxSlips /\ slips + 1 >= slips
  BY Bounds, TypeFacts DEF JoinInv, Pending

LEMMA GatesStep ==
  ASSUME JoinInv, NEW r \in Replicas, Gates(r) \/ GatesTimeOut(r) \/ Reboot(r)
  PROVE  JoinInv'
  <1> USE ScriptFacts
  <1>1. CASE Gates(r)
    <2>1. script[r].attempt = 0 /\ member[r] = Gone
      BY <1>1 DEF Books, Gates, At
    <2>2. script[r].attempt # MaxAttempts /\ ~Pending(r)'
      BY <1>1, <2>1, Bounds DEF Gates, Pending
    <2>3. UNCHANGED <<partOf, published, member, failures, slips>> /\ NextAttempt(r)
      BY <1>1 DEF Gates
    <2> QED
      BY <2>2, <2>3, Unmoved, NextAttemptStep
  <1>2. CASE GatesTimeOut(r)
    <2>1. script[r].ids = {}
      BY <1>2 DEF Books, GatesTimeOut, At
    <2>2. UNCHANGED <<partOf, published, member, failures, slips>> /\ Goto(r, "failed")
      BY <1>2 DEF GatesTimeOut
    <2> QED
      BY <2>1, <2>2, Unmoved, GotoStep DEF Pcs
  <1>3. CASE Reboot(r)
    <2>1. UNCHANGED <<partOf, published, member, failures, slips>> /\ Goto(r, "dead")
      BY <1>3 DEF Reboot
    <2> QED
      BY <2>1, Unmoved, GotoStep DEF Pcs
  <1> QED
    BY <1>1, <1>2, <1>3

\* --- the cleanups ---

LEMMA GhostsFacts ==
  ASSUME JoinInv, NEW r \in Replicas, NEW id \in Ghosts(r)
  PROVE  id \in Replicas \X (1..MaxAttempts) /\ (id[1] = r \/ <<r, id[1]>> \in partOf)
  <1>1. PICK q \in Replicas : /\ Pending(q) /\ (q = r \/ <<r, q>> \in partOf)
                              /\ id = <<q, member[q].added>>
    BY DEF Ghosts
  <1>2. member[q] \in Members /\ member[q] # Gone /\ ~member[q].voter
    BY <1>1, ScriptFacts DEF Pending
  <1>3. member[q] = [added |-> member[q].added, voter |-> FALSE]
    BY <1>2 DEF Members
  <1>4. member[q].added # 0
    BY <1>2, <1>3 DEF Gone
  <1>5. member[q].added \in 1..MaxAttempts
    BY <1>2, <1>4, Bounds DEF Members
  <1> QED
    BY <1>1, <1>5

\* A step of a cleanup, to a place that it may be at, with a shorter list or a new one.
LEMMA CleanupStep ==
  ASSUME JoinInv, NEW r \in Replicas, NEW pc \in {"remove", "reset", "wait"}, NEW ids \in Ids,
         script' = [script EXCEPT ![r].ids = ids, ![r].pc = pc],
         ids # {} => pc = "remove", \A id \in ids : id[1] = r \/ <<r, id[1]>> \in partOf,
         partOf' = partOf, published' \in BOOLEAN, member' \in [Replicas -> Members],
         failures' \in 0..MaxFailures, slips' \in 0..MaxSlips, slips' >= slips,
         \A q \in Replicas \ {r} : \/ member'[q] = member[q]
                                   \/ member'[q] = Gone /\ <<r, q>> \in partOf,
         Pending(r)' =>
           /\ pc = "remove" /\ script[r].failing /\ <<r, member'[r].added>> \notin ids
                => slips' >= 1
           /\ pc = "reset" \/ ~script[r].failing => slips' >= 1
           /\ pc = "remove" /\ ~script[r].failing /\ <<r, member'[r].added>> \notin ids
                => slips' >= 2
           /\ pc = "wait" => slips' >= 2
  PROVE  JoinInv'
  <1> DEFINE s == [[script[r] EXCEPT !.ids = ids] EXCEPT !.pc = pc]
  <1>1. s \in Scripts
    BY ScriptFacts DEF Scripts, Pcs
  <1>2. /\ s.pc = pc /\ s.ids = ids /\ s.failing = script[r].failing
    BY ScriptFacts DEF Scripts
  <1>3. script' = [script EXCEPT ![r] = s] /\ script'[r] = s
    BY TypeFacts DEF JoinInv
  <1> HIDE DEF s
  <1>4. Books(r)'
    BY <1>2, <1>3 DEF Books, At
  <1>5. Votes(r)'
    BY <1>2, <1>3 DEF Votes, Apart, At
  <1>6. Cleaning(r)'
    BY <1>2, <1>3 DEF Cleaning, At, Kept
  <1> QED
    BY <1>1, <1>3, <1>4, <1>5, <1>6, Step

LEMMA ListStep ==
  ASSUME JoinInv, NEW r \in Replicas, ListGhosts(r)
  PROVE  JoinInv'
  <1> DEFINE pc == IF Ghosts(r) = {} THEN Cleaned(r) ELSE "remove"
  <1>1. /\ At(r, {"list"}) /\ UNCHANGED <<partOf, published, member, failures, slips>>
        /\ script' = [script EXCEPT ![r].ids = Ghosts(r), ![r].pc = pc]
    BY DEF ListGhosts
  <1>2. Ghosts(r) \in Ids /\ pc \in {"remove", "reset", "wait"}
    BY GhostsFacts DEF Cleaned, Ids
  <1>3. \A id \in Ghosts(r) : id[1] = r \/ <<r, id[1]>> \in partOf
    BY GhostsFacts
  <1>4. ASSUME Pending(r)
        PROVE  /\ <<r, member[r].added>> \in Ghosts(r) /\ pc = "remove"
               /\ ~script[r].failing => slips >= 1
    BY <1>1, <1>4, ScriptFacts DEF Ghosts, Cleaning, At
  <1>5. Ghosts(r) # {} => pc = "remove"
    OBVIOUS
  <1> HIDE DEF pc
  <1> QED
    BY <1>1, <1>2, <1>3, <1>4, <1>5, Unmoved, CleanupStep

LEMMA ListFailsStep ==
  ASSUME JoinInv, NEW r \in Replicas, ListFails(r)
  PROVE  JoinInv'
  <1>1. /\ At(r, {"list"}) /\ slips' = slips + 1 /\ slips < MaxSlips
        /\ UNCHANGED <<partOf, published, member, failures>> /\ Goto(r, Cleaned(r))
    BY DEF ListFails
  <1>2. script[r].ids = {} /\ Cleaned(r) \in {"reset", "wait"}
    BY <1>1, ScriptFacts DEF Books, At, Cleaned
  <1>3. Pending(r) /\ Cleaned(r) = "wait" => slips >= 1
    BY <1>1, ScriptFacts DEF Cleaning, At, Cleaned
  <1> QED
    BY <1>1, <1>2, <1>3, ScriptFacts, Unmoved, GotoStep DEF Pcs

\* Taking an id from the list, whether the call removed the member or not.
LEMMA DropFacts ==
  ASSUME JoinInv, NEW r \in Replicas, NEW id \in script[r].ids, At(r, {"remove"}), Drop(r, id)
  PROVE  LET ids == script[r].ids \ {id}
             pc == IF script[r].ids = {id} THEN Cleaned(r) ELSE "remove"
         IN  /\ ids \in Ids /\ pc \in {"remove", "reset", "wait"} /\ (ids # {} => pc = "remove")
             /\ script' = [script EXCEPT ![r].ids = ids, ![r].pc = pc]
             /\ \A i \in ids : i[1] = r \/ <<r, i[1]>> \in partOf
             /\ id[1] \in Replicas /\ (id[1] = r \/ <<r, id[1]>> \in partOf)
  <1>1. script[r].ids \in Ids /\ script[r].pc = "remove" /\ script[r] \in Scripts
    BY ScriptFacts DEF Scripts, At
  <1>2. \A i \in script[r].ids : i[1] = r \/ <<r, i[1]>> \in partOf
    BY ScriptFacts DEF Books
  <1>3. script' = [script EXCEPT ![r].ids = script[r].ids \ {id},
                     ![r].pc = IF script[r].ids = {id} THEN Cleaned(r) ELSE "remove"]
    BY <1>1, TypeFacts DEF Drop, JoinInv
  <1> QED
    BY <1>1, <1>2, <1>3 DEF Ids, Cleaned

LEMMA RemoveStep ==
  ASSUME JoinInv, NEW r \in Replicas, RemoveGhost(r)
  PROVE  JoinInv'
  <1>1. PICK id \in script[r].ids :
          /\ At(r, {"remove"}) /\ Drop(r, id)
          /\ member' = IF member[id[1]].added = id[2] THEN [member EXCEPT ![id[1]] = Gone]
                                                      ELSE member
          /\ UNCHANGED <<partOf, published, failures, slips>>
    BY DEF RemoveGhost
  <1> DEFINE ids == script[r].ids \ {id}
             pc == IF script[r].ids = {id} THEN Cleaned(r) ELSE "remove"
  <1>2. /\ ids \in Ids /\ pc \in {"remove", "reset", "wait"} /\ (ids # {} => pc = "remove")
        /\ script' = [script EXCEPT ![r].ids = ids, ![r].pc = pc]
        /\ \A i \in ids : i[1] = r \/ <<r, i[1]>> \in partOf
        /\ id[1] \in Replicas /\ (id[1] = r \/ <<r, id[1]>> \in partOf)
    BY <1>1, DropFacts
  <1>3. /\ member' \in [Replicas -> Members]
        /\ \A q \in Replicas \ {r} : \/ member'[q] = member[q]
                                     \/ member'[q] = Gone /\ <<r, q>> \in partOf
    <2>1. Gone \in Members /\ member \in [Replicas -> Members]
      BY Bounds, TypeFacts DEF Members, Gone, JoinInv
    <2> QED
      BY <1>1, <1>2, <2>1
  \* A pending member of its own was not the one removed: then it was none of the list.
  <1>4. Pending(r)' => Pending(r) /\ member'[r] = member[r]
    BY <1>1, <1>2, TypeFacts DEF Pending, JoinInv
  <1>5. ASSUME Pending(r)', <<r, member'[r].added>> \notin ids PROVE Kept(r)
    <2>1. id = <<id[1], id[2]>>
      BY <1>1, ScriptFacts DEF Scripts, Ids
    <2>2. CASE id[1] = r
      <3>1. member[r].added # id[2]
        BY <1>1, <2>2, <1>5, TypeFacts DEF Pending, JoinInv
      <3> QED
        BY <1>4, <1>5, <2>1, <3>1 DEF Kept
    <2>3. CASE id[1] # r
      BY <1>4, <1>5, <2>1, <2>3 DEF Kept
    <2> QED
      BY <2>2, <2>3
  <1>6. ASSUME Pending(r)'
        PROVE  /\ script[r].failing /\ Kept(r) => slips >= 1
               /\ ~script[r].failing => slips >= 1
               /\ ~script[r].failing /\ Kept(r) => slips >= 2
    BY <1>1, <1>4, <1>6, ScriptFacts DEF Cleaning, At
  <1>7. pc # "remove" => ids = {} /\ (pc = "reset" <=> script[r].failing)
    BY DEF Cleaned
  <1> HIDE DEF ids, pc
  <1>8. slips' = slips /\ failures' = failures /\ partOf' = partOf /\ published' = published
    BY <1>1
  <1>9. /\ partOf' = partOf /\ published' \in BOOLEAN
        /\ failures' \in 0..MaxFailures /\ slips' \in 0..MaxSlips /\ slips' >= slips
    BY <1>8, Bounds, TypeFacts DEF JoinInv
  <1>10. Pending(r)' =>
           /\ pc = "remove" /\ script[r].failing /\ <<r, member'[r].added>> \notin ids
                => slips' >= 1
           /\ pc = "reset" \/ ~script[r].failing => slips' >= 1
           /\ pc = "remove" /\ ~script[r].failing /\ <<r, member'[r].added>> \notin ids
                => slips' >= 2
           /\ pc = "wait" => slips' >= 2
    BY <1>2, <1>5, <1>6, <1>7, <1>8
  <1> QED
    BY <1>2, <1>3, <1>9, <1>10, CleanupStep

LEMMA RemoveFailsStep ==
  ASSUME JoinInv, NEW r \in Replicas, RemoveFails(r)
  PROVE  JoinInv'
  <1>1. PICK id \in script[r].ids :
          /\ At(r, {"remove"}) /\ Drop(r, id) /\ slips < MaxSlips /\ slips' = slips + 1
          /\ UNCHANGED <<partOf, published, member, failures>>
    BY DEF RemoveFails
  <1> DEFINE ids == script[r].ids \ {id}
             pc == IF script[r].ids = {id} THEN Cleaned(r) ELSE "remove"
  <1>2. /\ ids \in Ids /\ pc \in {"remove", "reset", "wait"} /\ (ids # {} => pc = "remove")
        /\ script' = [script EXCEPT ![r].ids = ids, ![r].pc = pc]
        /\ \A i \in ids : i[1] = r \/ <<r, i[1]>> \in partOf
    BY <1>1, DropFacts
  <1>3. Pending(r) /\ ~script[r].failing => slips >= 1
    BY <1>1, ScriptFacts DEF Cleaning, At
  <1>4. pc = "wait" => ~script[r].failing
    BY DEF Cleaned
  <1> HIDE DEF ids, pc
  <1>5. /\ partOf' = partOf /\ published' \in BOOLEAN /\ member' \in [Replicas -> Members]
        /\ failures' \in 0..MaxFailures /\ slips' \in 0..MaxSlips /\ slips' >= slips
        /\ \A q \in Replicas : member'[q] = member[q] /\ (Pending(q)' <=> Pending(q))
    BY <1>1, Unmoved
  <1>6. slips \in Nat /\ slips' = slips + 1
    BY <1>1, ScriptFacts
  <1>7. Pending(r)' => slips' >= 1 /\ (~script[r].failing => slips' >= 2)
    BY <1>3, <1>5, <1>6
  <1> QED
    BY <1>2, <1>4, <1>5, <1>7, CleanupStep

\* --- the wait, kubeadm join and reset ---

LEMMA WaitStep ==
  ASSUME JoinInv, NEW r \in Replicas, Quiet(r) \/ PollsRunOut(r)
  PROVE  JoinInv'
  <1>1. /\ At(r, {"wait"}) /\ Goto(r, "join") /\ UNCHANGED <<partOf, published, member, slips>>
        /\ failures' = failures \/ (failures < MaxFailures /\ failures' = failures + 1)
    BY DEF Quiet, PollsRunOut
  <1>2. script[r].ids = {}
    BY <1>1, ScriptFacts DEF Books, At
  <1> QED
    BY <1>1, <1>2, Unmoved, GotoStep DEF Pcs

LEMMA JoinStep ==
  ASSUME JoinInv, NEW r \in Replicas, Add(r) \/ Promote(r) \/ Joined(r)
  PROVE  JoinInv'
  <1>1. script[r].ids = {} /\ script[r].attempt \in 0..MaxAttempts
    BY ScriptFacts DEF Books, At, Add, Promote, Joined, Scripts
  <1>2. CASE Add(r)
    <2>1. member' \in [Replicas -> Members] /\ \A q \in Replicas \ {r} : member'[q] = member[q]
      BY <1>1, <1>2, TypeFacts DEF Add, JoinInv, Members
    <2> QED
      BY <1>1, <1>2, <2>1, Bounds, TypeFacts, GotoStep DEF Add, Pcs, JoinInv
  <1>3. CASE Promote(r)
    <2>1. /\ member' \in [Replicas -> Members] /\ member'[r].voter
          /\ \A q \in Replicas \ {r} : member'[q] = member[q]
      BY <1>3, TypeFacts DEF Promote, JoinInv, Members
    <2>2. /\ Goto(r, "voter") /\ partOf' = partOf /\ published' \in BOOLEAN
          /\ failures' \in 0..MaxFailures /\ slips' \in 0..MaxSlips /\ slips' >= slips
      BY <1>3, Bounds, TypeFacts DEF Promote, JoinInv
    <2> QED
      BY <1>1, <2>1, <2>2, GotoStep DEF Pcs
  <1>4. CASE Joined(r)
    <2>1. Apart(r) => member[r].voter
      BY <1>4, ScriptFacts DEF Votes, Joined, At
    <2> QED
      BY <1>1, <1>4, <2>1, Unmoved, GotoStep DEF Joined, Pcs
  <1> QED
    BY <1>2, <1>3, <1>4

LEMMA FailStep ==
  ASSUME JoinInv, NEW r \in Replicas, Refused(r) \/ KubeadmFails(r)
  PROVE  JoinInv'
  <1>1. /\ At(r, {"join", "learner", "voter"}) /\ Fails(r)
        /\ UNCHANGED <<partOf, published, member, slips>>
        /\ failures' = failures \/ (failures < MaxFailures /\ failures' = failures + 1)
    BY DEF Refused, KubeadmFails, At
  <1> DEFINE s == [[script[r] EXCEPT !.pc = "list"] EXCEPT !.failing = TRUE]
  <1>2. s \in Scripts
    BY ScriptFacts DEF Scripts, Pcs
  <1>3. s.pc = "list" /\ s.failing /\ s.ids = {}
    BY <1>1, ScriptFacts DEF Scripts, Books, At
  <1>4. script' = [script EXCEPT ![r] = s] /\ script'[r] = s
    BY <1>1, TypeFacts DEF Fails, JoinInv
  <1> HIDE DEF s
  <1>5. Books(r)' /\ Votes(r)' /\ Cleaning(r)'
    BY <1>3, <1>4 DEF Books, Votes, Cleaning, At
  <1> QED
    BY <1>1, <1>2, <1>4, <1>5, Unmoved, Step

LEMMA ResetStep ==
  ASSUME JoinInv, NEW r \in Replicas, Reset(r) \/ ResetLeaves(r)
  PROVE  JoinInv'
  <1>1. /\ At(r, {"reset"}) /\ AttemptEnds(r) /\ UNCHANGED <<partOf, published, failures>>
        /\ slips' = slips \/ (slips < MaxSlips /\ slips' = slips + 1)
        /\ member' = member \/ (member' = [member EXCEPT ![r] = Gone])
    BY DEF Reset, ResetLeaves
  <1>2. script[r].ids = {}
    BY <1>1, ScriptFacts DEF Books, At
  <1>3. /\ failures' \in 0..MaxFailures /\ slips' \in 0..MaxSlips /\ slips' >= slips
        /\ member' \in [Replicas -> Members] /\ published' \in BOOLEAN
        /\ \A q \in Replicas \ {r} : member'[q] = member[q]
    <2>1. Gone \in Members /\ member \in [Replicas -> Members] /\ published \in BOOLEAN
      BY Bounds, TypeFacts DEF JoinInv, Members, Gone
    <2>2. failures \in 0..MaxFailures /\ slips \in 0..MaxSlips
      BY TypeFacts DEF JoinInv
    <2> QED
      BY <1>1, <2>1, <2>2, Bounds
  <1>4. Pending(r)' => slips' >= 1
    <2>1. Pending(r)' => Pending(r)
      BY <1>1, TypeFacts DEF Pending, JoinInv
    <2>2. Pending(r) => slips >= 1
      BY <1>1, ScriptFacts DEF Cleaning, At
    <2> QED
      BY <1>1, <2>1, <2>2, ScriptFacts
  <1>5. CASE script[r].attempt = MaxAttempts
    BY <1>1, <1>2, <1>3, <1>5, GotoStep DEF AttemptEnds, Pcs
  <1>6. CASE script[r].attempt # MaxAttempts
    BY <1>1, <1>3, <1>4, <1>6, NextAttemptStep DEF AttemptEnds
  <1> QED
    BY <1>5, <1>6

LEMMA NoScriptStep ==
  ASSUME JoinInv, Publish \/ UNCHANGED joinVars
  PROVE  JoinInv'
  <1>1. UNCHANGED <<partOf, script, member, failures, slips>> /\ published' \in BOOLEAN
    BY TypeFacts DEF Publish, joinVars, JoinInv
  <1> QED
    BY <1>1 DEF JoinInv, JoinTypeOK, Books, Votes, Cleaning, Kept, Pending, Apart, At

LEMMA JoinKeeps == JoinInv /\ [JoinNext]_joinVars => JoinInv'
  <1> SUFFICES ASSUME JoinInv, [JoinNext]_joinVars PROVE JoinInv'
    OBVIOUS
  <1>1. CASE Publish \/ UNCHANGED joinVars
    BY <1>1, NoScriptStep
  <1>2. ASSUME NEW r \in Replicas,
               \/ join_sh(r) \/ GatesTimeOut(r) \/ Reboot(r)
               \/ ListFails(r) \/ RemoveFails(r) \/ KubeadmFails(r)
        PROVE  JoinInv'
    BY <1>2, GatesStep, ListStep, ListFailsStep, RemoveStep, RemoveFailsStep, WaitStep,
       JoinStep, FailStep, ResetStep
       DEF join_sh, remove_ghost_etcd_members, kubeadm_join
  <1> QED
    BY <1>1, <1>2 DEF JoinNext

-----------------------------------------------------------------------------
\* --- the PKI ---

USE PkiAssumption DEF Bundles, CPs

LEMMA InitType == Init => TypeOK
  <1> SUFFICES ASSUME Init PROVE TypeOK
    OBVIOUS
  <1>1. NoHosts \in [CPs -> Bundles] /\ Everywhere \in [CPs -> Bundles]
    BY DEF NoHosts, Everywhere
  <1>2. secret \in {0, 1} /\ minted = secret
    BY DEF Init
  <1>3. trusted \in BOOLEAN /\ client \in BOOLEAN /\ legacy \in BOOLEAN
    BY DEF Init
  <1>4. manifest \in [secret : Bundles, hosts : [CPs -> Bundles]]
    BY <1>1 DEF Init
  <1> QED
    BY <1>1, <1>2, <1>3, <1>4 DEF Init, TypeOK

\* Only a controller that has applied nothing yet generates bundles; it stops, by
\* the bound in Discard, before it runs out of them.
Room == ~client => minted <= IF cdc = "render" THEN MaxBundles - N - 1 ELSE MaxBundles

LEMMA InitRoom == Init => Room
  BY DEF Init, Room

LEMMA RenderType == TypeOK /\ Room /\ Render => TypeOK' /\ Room'
  <1> SUFFICES ASSUME TypeOK, Room, Render PROVE TypeOK' /\ Room'
    OBVIOUS
  <1> USE DEF TypeOK
  <1>1. minted' \in Bundles /\ Room'
    BY DEF Render, Room
  <1>2. \A i \in 1..(N + 1) : kubeadmPkiBundle(i) \in Bundles
    BY DEF Render, Room, kubeadmPkiBundle
  <1>3. \A c \in CPs : CpHost(c) \in Bundles
    BY <1>2 DEF CpHost
  <1>4. manifest' \in [secret : Bundles, hosts : [CPs -> Bundles]]
    BY <1>2, <1>3 DEF Render
  <1> QED
    BY <1>1, <1>4 DEF Render

LEMMA StepType == TypeOK /\ Room /\ [Next]_vars => TypeOK' /\ Room'
  <1> SUFFICES ASSUME TypeOK, Room, [Next]_vars PROVE TypeOK' /\ Room'
    OBVIOUS
  <1> USE DEF TypeOK, Room
  <1>1. CASE Discard
    BY <1>1 DEF Discard
  <1>2. CASE Trust
    BY <1>2 DEF Trust
  <1>3. CASE Apply
    BY <1>3 DEF Apply
  <1>4. ASSUME NEW c \in CPs, Deploy(c) PROVE TypeOK' /\ Room'
    <2>1. disk' \in [CPs -> Bundles]
      BY <1>4 DEF Deploy
    <2> QED
      BY <1>4, <2>1 DEF Deploy
  <1>5. ASSUME NEW c \in CPs, Wipe(c) PROVE TypeOK' /\ Room'
    <2>1. disk' \in [CPs -> Bundles]
      <3>1. 0 \in Bundles
        OBVIOUS
      <3> QED
        BY <1>5, <3>1 DEF Wipe
    <2>2. wipes' \in 0..MaxWipes
      BY <1>5 DEF Wipe
    <2>3. UNCHANGED <<legacy, secret, client, trusted, minted, manifest, cdc, hosts>>
      BY <1>5 DEF Wipe
    <2> QED
      BY <2>1, <2>2, <2>3
  <1>6. CASE UNCHANGED vars
    BY <1>6 DEF vars
  <1> QED
    BY <1>1, <1>2, <1>3, <1>4, <1>5, <1>6, RenderType DEF Next

LEMMA Types == Spec => [](TypeOK /\ Room)
  BY InitType, InitRoom, StepType, PTL DEF Spec

\* Every variable keeps its type.
THEOREM TypeCorrect == Spec => []TypeOK
  BY Types, PTL

-----------------------------------------------------------------------------
\* Before the Secret nobody has a bundle; a manifest that waits was rendered from
\* the Secret of now, or from none and then without hosts.
SecretFirst ==
  /\ ~client => secret = 0 /\ \A c \in CPs : hosts[c] = 0 /\ disk[c] = 0
  /\ cdc = "apply" /\ ~client => \A c \in CPs : manifest.hosts[c] = 0
  /\ cdc = "apply" /\ client
       => manifest.secret = secret /\ \A c \in CPs : manifest.hosts[c] \in {0, secret}

\* On a legacy cluster the second conjunct of SecretFirst fails at once.
Fresh == ~legacy => SecretFirst /\ OneBundle

LEMMA FreshInit == Init => Fresh
  BY DEF Init, Fresh, SecretFirst, OneBundle, Everywhere, NoHosts

LEMMA FreshStep == TypeOK /\ Fresh /\ [Next]_vars => Fresh'
  <1>0. [Next]_vars => legacy' = legacy
    BY DEF Next, Render, Discard, Apply, Trust, Deploy, Wipe, vars
  <1> SUFFICES ASSUME TypeOK, ~legacy, SecretFirst, OneBundle, [Next]_vars
               PROVE  SecretFirst' /\ OneBundle'
    BY <1>0 DEF Fresh
  <1> USE DEF TypeOK, SecretFirst, OneBundle
  <1>1. CASE Render
    <2>1. ~client => \A c \in CPs : CpHost(c) = 0
      BY DEF CpHost, kubeadmPkiReady
    <2>2. client => kubeadmPkiBundle(1) = secret /\ \A c \in CPs : CpHost(c) \in {0, secret}
      BY DEF CpHost, kubeadmPkiBundle
    <2> QED
      BY <1>1, <2>1, <2>2 DEF Render
  <1>2. CASE Discard
    BY <1>2 DEF Discard
  <1>3. CASE Trust
    BY <1>3 DEF Trust
  <1>4. CASE Apply
    BY <1>4 DEF Apply
  <1>5. ASSUME NEW c \in CPs, Deploy(c) PROVE SecretFirst' /\ OneBundle'
    BY <1>5 DEF Deploy
  <1>6. ASSUME NEW c \in CPs, Wipe(c) PROVE SecretFirst' /\ OneBundle'
    BY <1>6 DEF Wipe
  <1>7. CASE UNCHANGED vars
    BY <1>7 DEF vars
  <1> QED
    BY <1>1, <1>2, <1>3, <1>4, <1>5, <1>6, <1>7 DEF Next

\* The two-pass apply of a cluster of this chart: host and node, each has the
\* Secret's bundle or none.
THEOREM ClusterAgrees == Spec => []OneBundle
  <1>1. TypeOK /\ Fresh => OneBundle
    BY DEF Fresh, OneBundle
  <1> QED
    BY <1>1, FreshInit, FreshStep, TypeCorrect, PTL DEF Spec

-----------------------------------------------------------------------------
Gate(c) == secret # 0 /\ (c = 1 \/ trusted)

\* A host is there only after its gates opened, and gates that are open stay so.
HostsGated ==
  /\ client => secret # 0
  /\ \A c \in CPs : hosts[c] # 0 => Gate(c)
  /\ cdc = "apply" => /\ manifest.secret # 0
                      /\ \A c \in CPs : /\ hosts[c] # 0 => manifest.hosts[c] # 0
                                        /\ manifest.hosts[c] # 0 => c = 1 \/ trusted

LEMMA GatedInit == Init => HostsGated
  BY DEF Init, HostsGated, Gate, Everywhere, NoHosts

LEMMA GatedStep == TypeOK /\ HostsGated /\ [Next]_vars => HostsGated'
  <1> SUFFICES ASSUME TypeOK, HostsGated, [Next]_vars PROVE HostsGated'
    OBVIOUS
  <1> USE DEF TypeOK, HostsGated, Gate
  <1>1. CASE Render
    <2>1. \A i \in 1..(N + 1) : kubeadmPkiBundle(i) # 0
      BY DEF kubeadmPkiBundle
    <2>2. \A c \in CPs : Gate(c) => CpHost(c) # 0
      BY <2>1 DEF CpHost, kubeadmPkiReady, mgmtCaBundle
    <2>3. \A c \in CPs : CpHost(c) # 0 => c = 1 \/ trusted
      BY DEF CpHost, mgmtCaBundle
    <2> QED
      BY <1>1, <2>1, <2>2, <2>3 DEF Render
  <1>2. CASE Discard
    BY <1>2 DEF Discard
  <1>3. CASE Trust
    BY <1>3 DEF Trust
  <1>4. CASE Apply
    BY <1>4 DEF Apply
  <1>5. ASSUME NEW c \in CPs, Deploy(c) PROVE HostsGated'
    BY <1>5 DEF Deploy
  <1>6. ASSUME NEW c \in CPs, Wipe(c) PROVE HostsGated'
    BY <1>6 DEF Wipe
  <1>7. CASE UNCHANGED vars
    BY <1>7 DEF vars
  <1> QED
    BY <1>1, <1>2, <1>3, <1>4, <1>5, <1>6, <1>7 DEF Next

\* No upgrade of the release prunes a control-plane host, on a fresh cluster or on
\* one whose Secret is from before 0.12.6.
THEOREM NoHostPruned == Spec => HostsAreKept
  <1>1. Spec => []HostsGated
    BY GatedInit, GatedStep, TypeCorrect, PTL DEF Spec
  <1>2. TypeOK /\ HostsGated /\ [Next]_vars
          => [\A c \in CPs : hosts[c] # 0 => hosts'[c] # 0]_vars
    <2> SUFFICES ASSUME TypeOK, HostsGated, Next
                 PROVE  \A c \in CPs : hosts[c] # 0 => hosts'[c] # 0
      OBVIOUS
    <2> QED
      BY DEF HostsGated, Next, Render, Discard, Apply, Trust, Deploy, Wipe
  <1> QED
    BY <1>1, <1>2, TypeCorrect, PTL DEF Spec, HostsAreKept

-----------------------------------------------------------------------------
\* --- both parts together ---

LEMMA Joining == ControlPlaneSpec => []JoinInv
  <1>1. ControlPlaneInit => JoinInv
    BY JoinStart DEF ControlPlaneInit
  <1>2. JoinInv /\ [ControlPlaneNext]_controlPlaneVars => JoinInv'
    <2> SUFFICES ASSUME JoinInv, [ControlPlaneNext]_controlPlaneVars
                 PROVE  [JoinNext]_joinVars
      BY JoinKeeps
    <2> QED
      BY DEF ControlPlaneNext, controlPlaneVars, InPki, InJoin, Booted, joinVars
  <1> QED
    BY <1>1, <1>2, PTL DEF ControlPlaneSpec

\* Every variable of the joins keeps its type.
THEOREM JoinTypeCorrect == ControlPlaneSpec => []JoinTypeOK
  <1>1. JoinInv => JoinTypeOK
    BY DEF JoinInv
  <1> QED
    BY <1>1, Joining, PTL

\* join.sh ends with success only where etcd has the node as a voter, and no cleanup of
\* another replica takes that away, unless the address of one is part of another's.
THEOREM JoinedVote == ControlPlaneSpec => []JoinedAreMembers
  <1>1. JoinInv => JoinedAreMembers
    BY DEF JoinInv, Votes, JoinedAreMembers, At
  <1> QED
    BY <1>1, Joining, PTL

\* Both remove_ghost_etcd_members of join.sh must fail before a replica waits for its
\* own learner.
THEOREM OwnGhostsGo == ControlPlaneSpec => []NeverWaitsForItself
  <1>1. JoinInv => NeverWaitsForItself
    <2> SUFFICES ASSUME JoinInv, slips <= 1, NEW r \in Replicas, At(r, {"wait"})
                 PROVE  ~Pending(r)
      BY DEF NeverWaitsForItself
    <2> QED
      BY ScriptFacts DEF Cleaning
  <1> QED
    BY <1>1, Joining, PTL

\* The composition does to the PKI what ClusterPki allows: the joins only read the Secret.
THEOREM ImplementsPki == ControlPlaneSpec => Spec
  <1>1. ControlPlaneInit => Init
    BY DEF ControlPlaneInit
  <1>2. [ControlPlaneNext]_controlPlaneVars => [Next]_vars
    BY DEF ControlPlaneNext, controlPlaneVars, InPki, InJoin, Booted
  <1> QED
    BY <1>1, <1>2, PTL DEF ControlPlaneSpec, Spec

\* So every replica that joins pins the same CA, and its host stays in the release.
THEOREM JoinsWithOneCA == ControlPlaneSpec => []OneBundle /\ HostsAreKept
  BY ImplementsPki, ClusterAgrees, NoHostPruned

HIDE PkiAssumption DEF Bundles, CPs

(* --- how the attempts of a replica are used up ----------------------------- *)

\* A member that no failure has been counted for yet.
Holding(r) == At(r, {"learner", "voter", "joined"})
Ahead(r) == {s \in Replicas \ {r} : Holding(s)}

\* One more than the attempts that a replica has lost, and what these can be charged to: a
\* failure, a slip, or another replica that added a member and still has it.
Used(r) == IF script[r].failing THEN script[r].attempt + 1 ELSE script[r].attempt
Charge(r) == failures + slips + Cardinality(Ahead(r))

\* No reasons but failures.
Calm == slips <= 1 /\ \A s \in Replicas : Apart(s) /\ ~Left(s)

Trying(r) ==
  /\ ~At(r, {"gates", "failed", "dead"}) => script[r].attempt > 0
  /\ At(r, {"reset"}) => script[r].failing
  /\ At(r, {"gates", "wait", "join", "learner", "voter", "joined"}) => ~script[r].failing
  /\ At(r, {"failed"}) /\ script[r].attempt > 0
       => script[r].failing /\ script[r].attempt = MaxAttempts

\* The next attempt will be lost if the host has a voter already, or if somebody added a
\* member since the wait was over: it is charged for beforehand.
Account(r) ==
  /\ At(r, {"learner"}) => member[r] # Gone
  /\ At(r, {"join"}) => ~Pending(r)
  /\ Used(r) <= Charge(r) + 1
  /\ member[r].voter /\ ~script[r].failing /\ ~At(r, {"voter", "joined"}) => Used(r) <= Charge(r)
  /\ At(r, {"join"}) /\ ~NonePending => Used(r) <= Charge(r)

AccountInv == \A r \in Replicas : Trying(r) /\ (Calm => Account(r))

Moves(r) == \/ join_sh(r) \/ GatesTimeOut(r) \/ Reboot(r)
            \/ ListFails(r) \/ RemoveFails(r) \/ KubeadmFails(r)

LEMMA Counts ==
  ASSUME JoinInv, NEW r \in Replicas
  PROVE  /\ IsFiniteSet(Ahead(r)) /\ Cardinality(Ahead(r)) \in Nat
         /\ Cardinality(Ahead(r)) <= Cardinality(Replicas) - 1 /\ Cardinality(Replicas) \in Nat
         /\ script[r].attempt \in Nat /\ script[r].failing \in BOOLEAN
         /\ failures \in Nat /\ slips \in Nat /\ Used(r) \in Nat /\ Charge(r) \in Nat
  <1>1. IsFiniteSet(Replicas) /\ IsFiniteSet(Replicas \ {r})
    BY JoinAssumption, FS_RemoveElement
  <1>2. Cardinality(Replicas \ {r}) = Cardinality(Replicas) - 1 /\ Cardinality(Replicas) \in Nat
    BY <1>1, FS_RemoveElement, FS_CardinalityType
  <1>3. Ahead(r) \subseteq Replicas \ {r}
    BY DEF Ahead
  <1>4. /\ IsFiniteSet(Ahead(r)) /\ Cardinality(Ahead(r)) \in Nat
        /\ Cardinality(Ahead(r)) <= Cardinality(Replicas \ {r})
    BY <1>1, <1>3, FS_Subset, FS_CardinalityType
  <1>5. script[r].attempt \in Nat /\ script[r].failing \in BOOLEAN
    BY ScriptFacts, Bounds DEF Scripts
  <1>6. failures \in Nat /\ slips \in Nat
    BY TypeFacts, Bounds DEF JoinInv
  <1> QED
    BY <1>2, <1>4, <1>5, <1>6 DEF Used, Charge

\* A step of one replica does nothing to the script of another, and to its member only
\* with an address that is part of the other's.
LEMMA Shape ==
  ASSUME JoinInv, NEW r \in Replicas, Moves(r)
  PROVE  /\ ~At(r, {"joined", "failed", "dead"})
         /\ partOf' = partOf /\ slips' >= slips /\ failures' >= failures
         /\ \A q \in Replicas \ {r} :
              script'[q] = script[q] /\ (Apart(q) => member'[q] = member[q])
  <1> USE DEF Moves, join_sh, remove_ghost_etcd_members, kubeadm_join
  <1>0. failures \in Nat /\ slips \in Nat /\ script \in [Replicas -> Scripts]
        /\ member \in [Replicas -> Members]
    BY TypeFacts, Bounds DEF JoinInv
  <1>1. ~At(r, {"joined", "failed", "dead"})
    BY DEF At, Gates, GatesTimeOut, Reboot, ListGhosts, ListFails, RemoveGhost, RemoveFails, Quiet,
           PollsRunOut, Add, Promote, Joined, Refused, KubeadmFails, Reset, ResetLeaves
  <1>2. partOf' = partOf /\ slips' >= slips /\ failures' >= failures
    BY <1>0 DEF Gates, GatesTimeOut, Reboot, ListGhosts, ListFails, RemoveGhost, RemoveFails, Quiet,
           PollsRunOut, Add, Promote, Joined, Refused, KubeadmFails, Reset, ResetLeaves
  <1>3. ASSUME NEW q \in Replicas \ {r} PROVE script'[q] = script[q]
    BY <1>0, <1>3 DEF Gates, GatesTimeOut, Reboot, ListGhosts, ListFails, RemoveGhost, RemoveFails, Quiet,
           PollsRunOut, Add, Promote, Joined, Refused, KubeadmFails, Reset, ResetLeaves,
           Goto, NextAttempt, AttemptEnds, Drop, Fails
  <1>4. ASSUME NEW q \in Replicas \ {r}, Apart(q) PROVE member'[q] = member[q]
    <2>1. CASE RemoveGhost(r)
      <3>1. PICK id \in script[r].ids :
              member' = IF member[id[1]].added = id[2] THEN [member EXCEPT ![id[1]] = Gone] ELSE member
        BY <2>1 DEF RemoveGhost
      <3>2. id[1] = r \/ <<r, id[1]>> \in partOf
        BY <3>1, ScriptFacts DEF Books
      <3>3. id[1] # q
        BY <3>2, <1>4 DEF Apart
      <3> QED
        BY <1>0, <3>1, <3>3
    <2>2. CASE ~RemoveGhost(r)
      BY <1>0, <2>2 DEF Gates, GatesTimeOut, Reboot, ListGhosts, ListFails, RemoveFails, Quiet,
           PollsRunOut, Add, Promote, Joined, Refused, KubeadmFails, Reset, ResetLeaves
    <2> QED
      BY <2>1, <2>2
  <1> QED
    BY <1>1, <1>2, <1>3, <1>4

\* What is left behind stays: whoever could remove it makes two replicas not apart.
LEMMA CalmBefore ==
  ASSUME JoinInv, JoinInv', NEW r \in Replicas, Moves(r), Calm'
  PROVE  Calm
  <1>1. \A s \in Replicas : Apart(s)
    BY Shape DEF Calm, Apart
  <1>2. slips <= 1
    <2>1. slips' \in Nat
      BY Bounds DEF JoinInv, JoinTypeOK
    <2> QED
      BY <2>1, Shape, Counts DEF Calm
  <1>3. ASSUME NEW s \in Replicas, Left(s) PROVE FALSE
    <2>1. s # r
      BY <1>3, Shape DEF Left, At
    <2>2. script'[s] = script[s] /\ member'[s] = member[s]
      BY <1>1, <2>1, Shape
    <2> QED
      BY <1>3, <2>2 DEF Calm, Left, At
  <1> QED
    BY <1>1, <1>2, <1>3 DEF Calm

\* What a step of one replica is to the others: a member less is a failure more.
Effect(r) ==
  /\ Holding(r) /\ ~Holding(r)' => failures' = failures + 1
  /\ Pending(r)' /\ ~Pending(r) => Holding(r)' /\ ~Holding(r)

LEMMA OthersAccount ==
  ASSUME JoinInv, JoinInv', NEW r \in Replicas, Moves(r), Effect(r), Calm, Calm',
         NEW q \in Replicas \ {r}, Account(q)
  PROVE  Account(q)'
  <1>1. /\ \A s \in Replicas \ {r} : script'[s] = script[s] /\ member'[s] = member[s]
        /\ slips' >= slips /\ failures' >= failures
    BY Shape DEF Calm
  <1>2. /\ Cardinality(Ahead(q)) \in Nat /\ Cardinality(Ahead(q)') \in Nat
        /\ IsFiniteSet(Ahead(q)) /\ IsFiniteSet(Ahead(q)')
        /\ failures \in Nat /\ slips \in Nat /\ failures' \in Nat /\ slips' \in Nat /\ Used(q) \in Nat
    <2>1. failures' \in Nat /\ slips' \in Nat
      BY Bounds, TypeFacts DEF JoinInv, JoinTypeOK
    <2>2. Ahead(q)' \subseteq Replicas
      BY DEF Ahead
    <2> QED
      BY <2>1, <2>2, Counts, JoinAssumption, FS_Subset, FS_CardinalityType
  <1>3. \A s \in Replicas \ {r} : Holding(s)' <=> Holding(s)
    BY <1>1 DEF Holding, At
  <1>4. /\ Charge(q)' >= Charge(q)
        /\ Holding(r)' /\ ~Holding(r) => Charge(q)' >= Charge(q) + 1
    <2>1. CASE Holding(r)' <=> Holding(r)
      <3>1. Ahead(q)' = Ahead(q)
        BY <1>3, <2>1 DEF Ahead
      <3> QED
        BY <1>1, <1>2, <2>1, <3>1 DEF Charge
    <2>2. CASE Holding(r)' /\ ~Holding(r)
      <3>1. Ahead(q)' = Ahead(q) \cup {r} /\ r \notin Ahead(q)
        BY <1>3, <2>2 DEF Ahead
      <3>2. Cardinality(Ahead(q)') = Cardinality(Ahead(q)) + 1
        BY <1>2, <3>1, FS_AddElement
      <3> QED
        BY <1>1, <1>2, <3>2 DEF Charge
    <2>3. CASE Holding(r) /\ ~Holding(r)'
      <3>1. Ahead(q)' = Ahead(q) \ {r} /\ r \in Ahead(q)
        BY <1>3, <2>3 DEF Ahead
      <3>2. Cardinality(Ahead(q)') = Cardinality(Ahead(q)) - 1
        BY <1>2, <3>1, FS_RemoveElement
      <3>3. failures' = failures + 1
        BY <2>3 DEF Effect
      <3> QED
        BY <1>1, <1>2, <2>3, <3>2, <3>3 DEF Charge
    <2> QED
      BY <2>1, <2>2, <2>3
  <1>5. Used(q)' = Used(q) /\ Charge(q) \in Nat /\ Charge(q)' \in Nat
    BY <1>1, <1>2 DEF Used, Charge
  <1>6. ~NonePending' => ~NonePending \/ Charge(q)' >= Charge(q) + 1
    BY <1>1, <1>4 DEF NonePending, Pending, Effect
  <1>7. script'[q] = script[q] /\ member'[q] = member[q] /\ (Pending(q)' <=> Pending(q))
    BY <1>1 DEF Pending
  <1> QED
    BY <1>2, <1>4, <1>5, <1>6, <1>7 DEF Account, At

\* Where a step leaves the replica that took it.
LEMMA AfterGoto ==
  ASSUME JoinInv, NEW r \in Replicas, NEW pc, Goto(r, pc)
  PROVE  /\ script'[r].pc = pc /\ script'[r].attempt = script[r].attempt
         /\ script'[r].failing = script[r].failing
  BY TypeFacts DEF Goto, JoinInv, Scripts

LEMMA AfterNext ==
  ASSUME JoinInv, NEW r \in Replicas, NextAttempt(r)
  PROVE  /\ script'[r].pc = "list" /\ script'[r].attempt = script[r].attempt + 1
         /\ script'[r].failing = FALSE
  BY TypeFacts DEF NextAttempt, Script, JoinInv

LEMMA AfterFails ==
  ASSUME JoinInv, NEW r \in Replicas, Fails(r)
  PROVE  /\ script'[r].pc = "list" /\ script'[r].attempt = script[r].attempt
         /\ script'[r].failing = TRUE
  BY TypeFacts DEF Fails, JoinInv, Scripts

LEMMA AfterCleanup ==
  ASSUME JoinInv, NEW r \in Replicas,
         ListGhosts(r) \/ ListFails(r) \/ RemoveGhost(r) \/ RemoveFails(r)
  PROVE  /\ At(r, {"list", "remove"}) /\ script'[r].pc \in {"remove", Cleaned(r)}
         /\ script'[r].attempt = script[r].attempt /\ script'[r].failing = script[r].failing
         /\ failures' = failures /\ slips' >= slips
         /\ member'[r] = member[r] \/ member'[r] = Gone
  <1>0. /\ script \in [Replicas -> Scripts] /\ member \in [Replicas -> Members]
        /\ slips \in Nat /\ script[r] \in Scripts
    BY TypeFacts, Bounds DEF JoinInv
  <1>1. CASE ListGhosts(r)
    BY <1>0, <1>1 DEF ListGhosts, Scripts, At
  <1>2. CASE ListFails(r)
    BY <1>0, <1>2, AfterGoto DEF ListFails, At
  <1>3. CASE RemoveGhost(r)
    <2>1. PICK id \in script[r].ids :
            /\ At(r, {"remove"}) /\ Drop(r, id) /\ UNCHANGED <<failures, slips>>
            /\ member' = IF member[id[1]].added = id[2] THEN [member EXCEPT ![id[1]] = Gone] ELSE member
      BY <1>3 DEF RemoveGhost
    <2> QED
      BY <1>0, <2>1 DEF Drop, At, Scripts
  <1>4. CASE RemoveFails(r)
    <2>1. PICK id \in script[r].ids :
            /\ At(r, {"remove"}) /\ Drop(r, id) /\ slips' = slips + 1 /\ UNCHANGED <<failures, member>>
      BY <1>4 DEF RemoveFails
    <2> QED
      BY <1>0, <2>1 DEF Drop, At, Scripts
  <1> QED
    BY <1>1, <1>2, <1>3, <1>4

LEMMA TryingStep ==
  ASSUME JoinInv, NEW r \in Replicas, Moves(r), Trying(r)
  PROVE  Trying(r)'
  <1> USE Counts
  <1>1. CASE Gates(r)
    <2>1. script'[r].pc = "list" /\ script'[r].attempt = script[r].attempt + 1
      BY <1>1, AfterNext DEF Gates
    <2> QED
      BY <2>1 DEF Trying, At
  <1>2. CASE GatesTimeOut(r)
    <2>1. script[r].attempt = 0
      BY <1>2, ScriptFacts DEF GatesTimeOut, Books, At
    <2> QED
      BY <1>2, <2>1, AfterGoto DEF GatesTimeOut, Trying, At
  <1>3. CASE Reboot(r)
    BY <1>3, AfterGoto DEF Reboot, Trying, At
  <1>4. CASE ListGhosts(r) \/ ListFails(r) \/ RemoveGhost(r) \/ RemoveFails(r)
    BY <1>4, AfterCleanup DEF Trying, At, Cleaned
  <1>5. CASE Quiet(r) \/ PollsRunOut(r)
    BY <1>5, AfterGoto DEF Quiet, PollsRunOut, Trying, At
  <1>6. CASE Add(r) \/ Promote(r) \/ Joined(r)
    BY <1>6, AfterGoto DEF Add, Promote, Joined, Trying, At
  <1>7. CASE Refused(r) \/ KubeadmFails(r)
    BY <1>7, AfterFails DEF Refused, KubeadmFails, Trying, At
  <1>8. CASE Reset(r) \/ ResetLeaves(r)
    <2>1. At(r, {"reset"}) /\ AttemptEnds(r)
      BY <1>8 DEF Reset, ResetLeaves
    <2>2. CASE script[r].attempt = MaxAttempts
      BY <2>1, <2>2, AfterGoto DEF AttemptEnds, Trying, At
    <2>3. CASE script[r].attempt # MaxAttempts
      <3>1. script'[r].pc = "list" /\ script'[r].attempt = script[r].attempt + 1
        BY <2>1, <2>3, AfterNext DEF AttemptEnds
      <3> QED
        BY <3>1 DEF Trying, At
    <2> QED
      BY <2>2, <2>3
  <1> QED
    BY <1>1, <1>2, <1>3, <1>4, <1>5, <1>6, <1>7, <1>8
       DEF Moves, join_sh, remove_ghost_etcd_members, kubeadm_join

LEMMA OwnAccount ==
  ASSUME JoinInv, JoinInv', Brisk, NEW r \in Replicas, Moves(r), Trying(r),
         Calm, Calm', Account(r)
  PROVE  Account(r)' /\ Effect(r)
  <1>1. /\ Ahead(r)' = Ahead(r) /\ slips' >= slips /\ failures' >= failures
        /\ \A s \in Replicas \ {r} : Pending(s)' <=> Pending(s)
    BY Shape DEF Calm, Ahead, Holding, At, Pending
  <1>2. /\ Cardinality(Ahead(r)) \in Nat /\ failures \in Nat /\ slips \in Nat
        /\ failures' \in Nat /\ slips' \in Nat /\ script[r].attempt \in Nat
        /\ member[r] \in Members /\ Charge(r) = failures + slips + Cardinality(Ahead(r))
        /\ Charge(r)' = failures' + slips' + Cardinality(Ahead(r))
        /\ script[r].failing \in BOOLEAN
    BY <1>1, Counts, ScriptFacts, Bounds, TypeFacts DEF Charge, JoinInv, JoinTypeOK
  <1>3. ~Gone.voter
    BY DEF Gone
  <1>4. CASE Gates(r)
    <2>1. script[r].attempt = 0 /\ member[r] = Gone /\ member' = member
      BY <1>4, ScriptFacts DEF Gates, Books, At
    <2>2. /\ script'[r].pc = "list" /\ script'[r].attempt = script[r].attempt + 1
          /\ script'[r].failing = FALSE
      BY <1>4, AfterNext DEF Gates
    <2>3. Used(r)' = 1 /\ ~Pending(r)' /\ ~member'[r].voter /\ Charge(r)' \in Nat
      BY <1>2, <1>3, <2>1, <2>2 DEF Used, Pending
    <2>4. At(r, {"gates"})
      BY <1>4 DEF Gates
    <2> QED
      BY <2>2, <2>3, <2>4 DEF Account, Effect, Holding, At
  <1>5. CASE GatesTimeOut(r)
    <2>1. script[r].attempt = 0 /\ member[r] = Gone /\ member' = member /\ ~script[r].failing
      BY <1>5, ScriptFacts DEF GatesTimeOut, Books, At, Trying
    <2> QED
      BY <1>2, <1>3, <1>5, <2>1, AfterGoto DEF GatesTimeOut, Account, Effect, Used, Holding, Pending, At
  <1>6. CASE Reboot(r)
    <2>1. member' = member /\ failures' = failures /\ slips' = slips /\ script'[r].pc = "dead"
          /\ script'[r].attempt = script[r].attempt /\ script'[r].failing = script[r].failing
      BY <1>6, AfterGoto DEF Reboot
    <2>2. member[r] = Gone
      BY <2>1 DEF Calm, Left, At
    <2>3. ~Holding(r)
      BY <1>3, <1>6, <2>2, ScriptFacts DEF Holding, Account, Votes, Calm, Reboot, At
    <2> QED
      BY <1>2, <1>3, <2>1, <2>2, <2>3 DEF Account, Effect, Used, Holding, Pending, At
  <1>7. CASE ListGhosts(r) \/ ListFails(r) \/ RemoveGhost(r) \/ RemoveFails(r)
    <2>1. /\ At(r, {"list", "remove"}) /\ script'[r].pc \in {"remove", "reset", "wait"}
          /\ script'[r].attempt = script[r].attempt /\ script'[r].failing = script[r].failing
          /\ member'[r] = member[r] \/ member'[r] = Gone
      BY <1>7, AfterCleanup DEF Cleaned
    <2>2. Charge(r)' >= Charge(r)
      BY <1>1, <1>2
    <2> QED
      BY <1>2, <1>3, <2>1, <2>2 DEF Account, Effect, Used, Holding, Pending, At
  <1>8. CASE Quiet(r) \/ PollsRunOut(r)
    <2>1. /\ script'[r].pc = "join" /\ script'[r].attempt = script[r].attempt
          /\ script'[r].failing = script[r].failing /\ member' = member /\ slips' = slips
          /\ At(r, {"wait"})
      BY <1>8, AfterGoto DEF Quiet, PollsRunOut
    <2>2. \A s \in Replicas : At(s, {"wait"}) => ~Pending(s)
      BY <1>2, ScriptFacts DEF Cleaning, Calm
    <2>3. \A s \in Replicas : ~Stays(s)
      BY <2>2 DEF Stays, Calm, Left, Pending, At
    <2>4. NonePending' \/ failures' = failures + 1
      BY <1>8, <2>1, <2>3 DEF Quiet, PollsRunOut, NonePending, Pending
    <2>5. Used(r)' = Used(r) /\ Charge(r)' >= Charge(r) /\ (Pending(r)' <=> Pending(r))
      BY <1>1, <1>2, <2>1 DEF Used, Pending
    <2>6. ~NonePending' => Charge(r)' = Charge(r) + 1
      BY <1>2, <2>1, <2>4
    <2> QED
      BY <1>2, <2>1, <2>2, <2>5, <2>6 DEF Account, Effect, Used, Holding, At
  <1>9. CASE Add(r)
    <2>1. /\ script'[r].pc = "learner" /\ script'[r].attempt = script[r].attempt
          /\ script'[r].failing = script[r].failing /\ failures' = failures /\ slips' = slips
          /\ At(r, {"join"})
      BY <1>9, AfterGoto DEF Add
    <2>2. member'[r].added = script[r].attempt /\ ~member'[r].voter
      BY <1>2, <1>3, <1>9, TypeFacts DEF Add, JoinInv, Members
    <2>3. member'[r] # Gone
      BY <2>1, <2>2 DEF Trying, At, Gone
    <2> QED
      BY <1>2, <2>1, <2>2, <2>3 DEF Account, Effect, Used, Holding, At
  <1>10. CASE Promote(r) \/ Joined(r)
    <2>1. /\ script'[r].pc \in {"voter", "joined"} /\ script'[r].attempt = script[r].attempt
          /\ script'[r].failing = script[r].failing /\ failures' = failures /\ slips' = slips
          /\ At(r, {"learner", "voter"})
      BY <1>10, AfterGoto DEF Promote, Joined, At
    <2>2. Pending(r)' => Pending(r)
      BY <1>10, TypeFacts DEF Promote, Joined, Pending, JoinInv, Members
    <2> QED
      BY <1>2, <2>1, <2>2 DEF Account, Effect, Used, Holding, At
  <1>11. CASE Refused(r)
    <2>1. /\ script'[r].pc = "list" /\ script'[r].attempt = script[r].attempt
          /\ script'[r].failing = TRUE /\ failures' = failures /\ slips' = slips /\ member' = member
      BY <1>11, AfterFails DEF Refused
    <2>2. At(r, {"join"}) /\ (~NonePending \/ member[r] # Gone)
      BY <1>11 DEF Refused, Account
    <2>3. ~script[r].failing /\ Used(r) <= Charge(r)
      BY <2>2 DEF Account, Trying, Pending, At
    <2> QED
      BY <1>2, <2>1, <2>2, <2>3 DEF Account, Effect, Used, Holding, Pending, At
  <1>12. CASE KubeadmFails(r)
    <2>1. /\ script'[r].pc = "list" /\ script'[r].attempt = script[r].attempt
          /\ script'[r].failing = TRUE /\ failures' = failures + 1 /\ slips' = slips /\ member' = member
          /\ ~script[r].failing
      BY <1>12, AfterFails DEF KubeadmFails, Trying, At
    <2> QED
      BY <1>2, <2>1 DEF Account, Effect, Used, Holding, Pending, At
  <1>13. CASE Reset(r) \/ ResetLeaves(r)
    <2>1. At(r, {"reset"}) /\ AttemptEnds(r) /\ failures' = failures /\ script[r].failing
      BY <1>13 DEF Reset, ResetLeaves, Trying
    <2>2. Used(r)' = Used(r) /\ script'[r].pc \in {"list", "failed"}
      <3>1. CASE script[r].attempt = MaxAttempts
        BY <2>1, <3>1, AfterGoto DEF AttemptEnds, Used
      <3>2. CASE script[r].attempt # MaxAttempts
        BY <2>1, <3>2, AfterNext DEF AttemptEnds, Used
      <3> QED
        BY <3>1, <3>2
    <2>3. member'[r].voter => slips' = slips + 1
      BY <1>3, <1>13, TypeFacts DEF Reset, ResetLeaves, Pending, JoinInv
    <2>4. Pending(r)' => Pending(r)
      BY <1>13, TypeFacts DEF Reset, ResetLeaves, Pending, JoinInv
    <2>5. Used(r)' <= Charge(r)' + 1 /\ (member'[r].voter => Used(r)' <= Charge(r)')
      BY <1>1, <1>2, <2>1, <2>2, <2>3 DEF Account, Used
    <2> QED
      BY <2>1, <2>2, <2>4, <2>5 DEF Account, Effect, Holding, At
  <1> QED
    BY <1>4, <1>5, <1>6, <1>7, <1>8, <1>9, <1>10, <1>11, <1>12, <1>13
       DEF Moves, join_sh, remove_ghost_etcd_members, kubeadm_join

LEMMA AccountStart == JoinInit /\ JoinInv => AccountInv
  <1> SUFFICES ASSUME JoinInit, JoinInv, NEW r \in Replicas PROVE Trying(r) /\ Account(r)
    BY DEF AccountInv
  <1>1. script[r] = Script("gates", 0) /\ member[r] = Gone
    BY DEF JoinInit
  <1> QED
    BY <1>1, Counts DEF Trying, Account, Used, Script, Gone, At, Pending

LEMMA AccountKeeps ==
  ASSUME JoinInv, JoinInv', Brisk, AccountInv, [JoinNext]_joinVars
  PROVE  AccountInv'
  <1>1. ASSUME NEW r \in Replicas, Moves(r) PROVE AccountInv'
    <2>1. ASSUME NEW q \in Replicas PROVE Trying(q)'
      <3>1. CASE q = r
        BY <1>1, <3>1, TryingStep DEF AccountInv
      <3>2. CASE q # r
        BY <1>1, <3>2, Shape DEF AccountInv, Trying, At
      <3> QED
        BY <3>1, <3>2
    <2>2. ASSUME Calm', NEW q \in Replicas PROVE Account(q)'
      <3>1. Calm /\ Account(q) /\ Account(r) /\ Trying(r)
        BY <1>1, <2>2, CalmBefore DEF AccountInv
      <3>2. Account(r)' /\ Effect(r)
        BY <1>1, <2>2, <3>1, OwnAccount
      <3> QED
        BY <1>1, <2>2, <3>1, <3>2, OthersAccount
    <2> QED
      BY <2>1, <2>2 DEF AccountInv
  <1>2. CASE Publish \/ UNCHANGED joinVars
    <2>1. UNCHANGED <<partOf, script, member, failures, slips>>
      BY <1>2 DEF Publish, joinVars
    <2> QED
      BY <2>1 DEF AccountInv, Trying, Account, Calm, Left, Apart, Used, Charge, Ahead, Holding,
                  NonePending, Pending, At
  <1> QED
    BY <1>1, <1>2 DEF JoinNext, Moves


\* Where no kubeadm join outlasts another replica's polls, the attempts of a join.sh that
\* gives up are lost to failures, to slips, and to each other replica once, or one replica
\* has left a member behind, or one takes another's address for its own.
THEOREM LostAttemptsAreCharged == Brisk => (ControlPlaneSpec => []GivesUpForAReason)
  <1> SUFFICES ASSUME Brisk PROVE ControlPlaneSpec => []GivesUpForAReason
    OBVIOUS
  <1>1. AccountInv /\ JoinInv => GivesUpForAReason
    <2> SUFFICES ASSUME AccountInv, JoinInv, slips <= 1, NEW r \in Replicas,
                        At(r, {"failed"}), script[r].attempt > 0,
                        \A s \in Replicas : Apart(s) /\ ~Left(s)
                 PROVE  failures + slips + Cardinality(Replicas) - 1 >= MaxAttempts
      BY DEF GivesUpForAReason
    <2>1. Trying(r) /\ Account(r)
      BY DEF AccountInv, Calm
    <2>2. Used(r) = MaxAttempts + 1 /\ Used(r) <= Charge(r) + 1
      BY <2>1 DEF Trying, Account, Used
    <2>3. /\ Cardinality(Ahead(r)) <= Cardinality(Replicas) - 1 /\ Cardinality(Ahead(r)) \in Nat
          /\ Cardinality(Replicas) \in Nat /\ failures \in Nat /\ slips \in Nat
      BY Counts
    <2> QED
      BY <2>2, <2>3, Bounds DEF Charge
  <1>2. ControlPlaneInit => AccountInv
    BY JoinStart, AccountStart DEF ControlPlaneInit
  <1>3. JoinInv /\ JoinInv' /\ AccountInv /\ [ControlPlaneNext]_controlPlaneVars => AccountInv'
    <2> SUFFICES ASSUME JoinInv, JoinInv', AccountInv, [ControlPlaneNext]_controlPlaneVars
                 PROVE  AccountInv'
      OBVIOUS
    <2>1. [JoinNext]_joinVars
      BY DEF ControlPlaneNext, controlPlaneVars, InPki, InJoin, Booted, joinVars
    <2> QED
      BY <2>1, AccountKeeps
  <1> QED
    BY <1>1, <1>2, <1>3, Joining, PTL DEF ControlPlaneSpec

(* --- every step of a script brings it nearer to its end -------------------- *)

Length == Cardinality(Replicas \X (1..MaxAttempts))

\* What is left of an attempt: two cleanups, each with a list of at most Length ids.
Rest(r) ==
  LET longer == IF script[r].failing THEN 0 ELSE Length + 6
      step == CASE At(r, {"gates", "list"}) -> Length + 6
                [] At(r, {"remove"})        -> Cardinality(script[r].ids) + 5
                [] At(r, {"wait"})          -> 4
                [] At(r, {"join"})          -> 3
                [] At(r, {"learner"})       -> 2
                [] At(r, {"voter"})         -> 1
                [] At(r, {"reset"})         -> 4
                [] OTHER                    -> 0
  IN  IF Over(r) THEN 0 ELSE longer + step

\* A later attempt, or the same one with less of it left.
Nearer(r) == \/ script'[r].attempt > script[r].attempt
             \/ script'[r].attempt = script[r].attempt /\ Rest(r)' < Rest(r)
EveryStepCounts == [][\A r \in Replicas : script'[r] # script[r] => Nearer(r)]_script

LEMMA Lengths ==
  ASSUME JoinInv, JoinInv', NEW r \in Replicas
  PROVE  /\ Length \in Nat
         /\ IsFiniteSet(script[r].ids) /\ Cardinality(script[r].ids) \in 0..Length
         /\ Cardinality(script'[r].ids) \in 0..Length
  <1> DEFINE All == Replicas \X (1..MaxAttempts)
  <1>1. IsFiniteSet(All)
    <2>1. IsFiniteSet(1..MaxAttempts)
      BY Bounds, FS_Interval
    <2> QED
      BY <2>1, JoinAssumption, FS_Product
  <1>2. script[r].ids \subseteq All /\ script'[r].ids \subseteq All
    <2>1. script[r] \in Scripts /\ script'[r] \in Scripts
      BY ScriptFacts DEF JoinInv, JoinTypeOK, Scripts, Pcs, Ids
    <2> QED
      BY <2>1 DEF Scripts, Ids
  <1> QED
    BY <1>1, <1>2, FS_CardinalityType, FS_Subset DEF Length

\* A call of a cleanup leaves one id less, or ends it.
LEMMA CleanupShrinks ==
  ASSUME JoinInv, JoinInv', NEW r \in Replicas,
         ListGhosts(r) \/ ListFails(r) \/ RemoveGhost(r) \/ RemoveFails(r)
  PROVE  \/ script'[r].pc = Cleaned(r)
         \/ At(r, {"list"}) /\ script'[r].pc = "remove"
         \/ /\ At(r, {"remove"}) /\ script'[r].pc = "remove"
            /\ Cardinality(script'[r].ids) < Cardinality(script[r].ids)
  <1>1. CASE ListGhosts(r)
    BY <1>1, TypeFacts DEF ListGhosts, JoinInv, Scripts
  <1>2. CASE ListFails(r)
    BY <1>2, AfterGoto DEF ListFails
  <1>3. CASE RemoveGhost(r) \/ RemoveFails(r)
    <2>1. PICK id \in script[r].ids : At(r, {"remove"}) /\ Drop(r, id)
      BY <1>3 DEF RemoveGhost, RemoveFails
    <2>2. script'[r].ids = script[r].ids \ {id} /\ script'[r].pc \in {Cleaned(r), "remove"}
      BY <2>1, TypeFacts DEF Drop, JoinInv, Scripts, At
    <2>3. Cardinality(script'[r].ids) = Cardinality(script[r].ids) - 1
      BY <2>2, Lengths, FS_RemoveElement
    <2> QED
      BY <2>1, <2>2, <2>3, Lengths
  <1> QED
    BY <1>1, <1>2, <1>3

LEMMA OwnNearer ==
  ASSUME JoinInv, JoinInv', NEW r \in Replicas, Moves(r), Trying(r)
  PROVE  Nearer(r)
  <1>0. /\ Length \in Nat /\ Cardinality(script[r].ids) \in 0..Length
        /\ Cardinality(script'[r].ids) \in 0..Length
        /\ script[r].attempt \in Nat /\ script[r].failing \in BOOLEAN
    BY Lengths, Counts
  <1>1. script[r].pc \in Pcs
    BY ScriptFacts DEF Scripts
  <1>2. ~Over(r) /\ Rest(r) > 0 /\ Rest(r) \in Nat
    BY <1>0, <1>1, Shape DEF Rest, Over, At, Pcs
  <1>3. CASE Gates(r)
    <2>1. script'[r].attempt = script[r].attempt + 1
      BY <1>3, AfterNext DEF Gates
    <2> QED
      BY <1>0, <2>1 DEF Nearer
  <1>4. CASE GatesTimeOut(r) \/ Reboot(r)
    <2>1. script'[r].pc \in {"failed", "dead"} /\ script'[r].attempt = script[r].attempt
      BY <1>4, AfterGoto DEF GatesTimeOut, Reboot
    <2> QED
      BY <1>2, <2>1 DEF Nearer, Rest, Over, At
  <1>5. CASE ListGhosts(r) \/ ListFails(r) \/ RemoveGhost(r) \/ RemoveFails(r)
    <2>1. /\ At(r, {"list", "remove"}) /\ script'[r].attempt = script[r].attempt
          /\ script'[r].failing = script[r].failing
      BY <1>5, AfterCleanup
    <2>2. \/ script'[r].pc \in {"reset", "wait"}
          \/ At(r, {"list"}) /\ script'[r].pc = "remove"
          \/ /\ At(r, {"remove"}) /\ script'[r].pc = "remove"
             /\ Cardinality(script'[r].ids) < Cardinality(script[r].ids)
      BY <1>5, CleanupShrinks DEF Cleaned
    <2> QED
      BY <1>0, <2>1, <2>2 DEF Nearer, Rest, Over, At
  <1>6. CASE Quiet(r) \/ PollsRunOut(r)
    <2>1. /\ At(r, {"wait"}) /\ script'[r].pc = "join" /\ script'[r].attempt = script[r].attempt
          /\ script'[r].failing = script[r].failing
      BY <1>6, AfterGoto DEF Quiet, PollsRunOut
    <2> QED
      BY <1>0, <2>1 DEF Nearer, Rest, Over, At
  <1>7. CASE Add(r) \/ Promote(r) \/ Joined(r)
    <2>1. /\ \/ At(r, {"join"}) /\ script'[r].pc = "learner"
             \/ At(r, {"learner"}) /\ script'[r].pc = "voter"
             \/ At(r, {"voter"}) /\ script'[r].pc = "joined"
          /\ script'[r].attempt = script[r].attempt /\ script'[r].failing = script[r].failing
      BY <1>7, AfterGoto DEF Add, Promote, Joined
    <2> QED
      BY <1>0, <2>1 DEF Nearer, Rest, Over, At
  <1>8. CASE Refused(r) \/ KubeadmFails(r)
    <2>1. /\ At(r, {"join", "learner", "voter"}) /\ ~script[r].failing
          /\ script'[r].pc = "list" /\ script'[r].attempt = script[r].attempt
          /\ script'[r].failing = TRUE
      BY <1>8, AfterFails DEF Refused, KubeadmFails, Trying, At
    <2> QED
      BY <1>0, <2>1 DEF Nearer, Rest, Over, At
  <1>9. CASE Reset(r) \/ ResetLeaves(r)
    <2>1. AttemptEnds(r)
      BY <1>9 DEF Reset, ResetLeaves
    <2>2. CASE script[r].attempt = MaxAttempts
      <3>1. script'[r].pc = "failed" /\ script'[r].attempt = script[r].attempt
        BY <2>1, <2>2, AfterGoto DEF AttemptEnds
      <3> QED
        BY <1>2, <3>1 DEF Nearer, Rest, Over, At
    <2>3. CASE script[r].attempt # MaxAttempts
      <3>1. script'[r].attempt = script[r].attempt + 1
        BY <2>1, <2>3, AfterNext DEF AttemptEnds
      <3> QED
        BY <1>0, <3>1 DEF Nearer
    <2> QED
      BY <2>2, <2>3
  <1> QED
    BY <1>3, <1>4, <1>5, <1>6, <1>7, <1>8, <1>9
       DEF Moves, join_sh, remove_ghost_etcd_members, kubeadm_join

\* Between its gates and its end a script has an attempt that runs.
LEMMA Accounting == ControlPlaneSpec => [](\A r \in Replicas : Trying(r))
  <1> DEFINE Try == \A r \in Replicas : Trying(r)
  <1>1. ControlPlaneInit => Try
    BY JoinStart, AccountStart DEF ControlPlaneInit, AccountInv
  <1>2. JoinInv /\ Try /\ [ControlPlaneNext]_controlPlaneVars => Try'
    <2> SUFFICES ASSUME JoinInv, Try, [ControlPlaneNext]_controlPlaneVars, NEW q \in Replicas
                 PROVE  Trying(q)'
      OBVIOUS
    <2>1. [JoinNext]_joinVars
      BY DEF ControlPlaneNext, controlPlaneVars, InPki, InJoin, Booted, joinVars
    <2>2. CASE Publish \/ UNCHANGED joinVars
      BY <2>2 DEF Publish, joinVars, Trying, At
    <2>3. ASSUME NEW r \in Replicas, Moves(r) PROVE Trying(q)'
      <3>1. CASE q = r
        BY <2>3, <3>1, TryingStep
      <3>2. CASE q # r
        BY <2>3, <3>2, Shape DEF Trying, At
      <3> QED
        BY <3>1, <3>2
    <2> QED
      BY <2>1, <2>2, <2>3 DEF JoinNext, Moves
  <1> HIDE DEF Try
  <1>3. ControlPlaneSpec => []Try
    BY <1>1, <1>2, Joining, PTL DEF ControlPlaneSpec
  <1> QED
    BY <1>3 DEF Try

\* The safety half of JoinsEnd: every step of a join.sh, whatever fails in it and whatever
\* the other replicas do, uses up an attempt or a part of one, so that it cannot go on for ever.
THEOREM ScriptsRunOut == ControlPlaneSpec => EveryStepCounts
  <1> DEFINE Try == \A r \in Replicas : Trying(r)
  <1>1. JoinInv /\ JoinInv' /\ Try /\ [ControlPlaneNext]_controlPlaneVars
          => [\A r \in Replicas : script'[r] # script[r] => Nearer(r)]_script
    <2> SUFFICES ASSUME JoinInv, JoinInv', Try, [ControlPlaneNext]_controlPlaneVars,
                        NEW r \in Replicas, script'[r] # script[r]
                 PROVE  Nearer(r)
      OBVIOUS
    <2>1. [JoinNext]_joinVars
      BY DEF ControlPlaneNext, controlPlaneVars, InPki, InJoin, Booted, joinVars
    <2>2. PICK q \in Replicas : Moves(q)
      BY <2>1 DEF JoinNext, Moves, Publish, joinVars
    <2>3. q = r
      BY <2>2, Shape
    <2> QED
      BY <2>2, <2>3, OwnNearer
  <1>2. ControlPlaneSpec => []Try
    BY Accounting
  <1> HIDE DEF Try
  <1> QED
    BY <1>1, <1>2, Joining, PTL DEF ControlPlaneSpec, EveryStepCounts
=============================================================================
