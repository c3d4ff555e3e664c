------------------------- MODULE WorkerRemovalProofs -------------------------
(***************************************************************************)
(* A member is never wiped before it is drained, for any number of edits.  *)
(* The argument follows an undeploy back to its cause: a host that demands *)
(* one was applied from a manifest that was rendered over a finished Job,  *)
(* and the very upgrade that created that Job had pruned the host.         *)
(***************************************************************************)
EXTENDS WorkerRemoval, TLAPS

\* While the Job of a removal is there, the host cannot deploy any more.
JobMeansGone == job # "none" /\ ~forced => host # "deploy" \/ deleting

\* Nor while an undeploy, decided on by that Job, waits to be applied.
UndeployMeansGone ==
  cdc = "apply" /\ manifest.host = "undeploy" /\ ~forced => host # "deploy" \/ deleting

Books ==
  /\ list = "failedNodes" => forced
  /\ host = "none" => node = "none"
  /\ host # "none" /\ ~deleting => "host" \in release
  /\ job # "none" => "job" \in release
  /\ manifest.job => manifest.host = "none"

IInv ==
  /\ Books
  /\ JobMeansGone
  /\ UndeployMeansGone
  /\ host = "undeploy" /\ ~deleting /\ ~forced => node # "deployed"

-----------------------------------------------------------------------------
LEMMA StepType == TypeOK /\ [Next]_vars => TypeOK'
  <1> SUFFICES ASSUME TypeOK, [Next]_vars PROVE TypeOK'
    OBVIOUS
  <1> USE DEF TypeOK, cluster, machine
  <1>1. ASSUME NEW to \in Lists, Move(to) PROVE TypeOK'
    BY <1>1, EditsAssumption DEF Move
  <1>2. CASE Uncordon \/ Mirror \/ Join
    BY <1>2 DEF Uncordon, Mirror, Join
  <1>3. CASE Render
    <2>1. WorkerHost \in HostSpecs /\ DrainJob \in BOOLEAN
      BY DEF WorkerHost, HostSpecs, DrainJob
    <2> QED
      BY <1>3, <2>1 DEF Render
  <1>4. CASE Apply
    <2>1. release' \subseteq Kinds /\ cdc' = "render"
      BY <1>4 DEF Apply
    <2>2. job' \in {"none", "running", "succeeded", "failed"} /\ host' \in HostSpecs
      BY <1>4 DEF Apply
    <2>3. {pki', secret', deleting', forced'} \subseteq BOOLEAN
      BY <1>4 DEF Apply
    <2> QED
      BY <1>4, <2>1, <2>2, <2>3 DEF Apply
  <1>5. CASE Worker
    BY <1>5 DEF Worker, Enrol, Deploy, Undeploy, Released, DeleteHost, HostSpecs
  <1>6. CASE Drain \/ JobSucceeds \/ JobFails \/ JobExpires
    BY <1>6 DEF Drain, JobSucceeds, JobFails, JobExpires
  <1>7. CASE UNCHANGED vars
    BY <1>7 DEF vars
  <1> QED
    BY <1>1, <1>2, <1>3, <1>4, <1>5, <1>6, <1>7 DEF Next, Cdc

LEMMA InitType == Init => TypeOK
  <1> SUFFICES ASSUME Init PROVE TypeOK
    OBVIOUS
  <1>1. manifest \in [host : HostSpecs, job : BOOLEAN, secret : BOOLEAN]
    BY DEF Init, HostSpecs, Empty
  <1>2. edits \in 0..MaxEdits
    BY EditsAssumption DEF Init
  <1> QED
    BY <1>1, <1>2 DEF Init, TypeOK, Lists, HostSpecs

\* Every variable keeps its type.
THEOREM TypeCorrect == Spec => []TypeOK
  BY InitType, StepType, PTL DEF Spec

-----------------------------------------------------------------------------
LEMMA InitInv == Init => IInv
  BY DEF Init, IInv, Books, JobMeansGone, UndeployMeansGone, Empty

LEMMA RenderInv == TypeOK /\ IInv /\ Render => IInv'
  <1> SUFFICES ASSUME TypeOK, IInv, Render PROVE IInv'
    OBVIOUS
  <1>1. DrainJob => WorkerHost = "none"
    BY DEF DrainJob, WorkerHost, workerDrainComplete
  <1>2. WorkerHost = "undeploy" => list = "failedNodes" \/ job = "succeeded"
    BY DEF WorkerHost, workerDrainComplete
  <1>3. Books'
    BY <1>1 DEF Render, IInv, Books, machine
  <1>4. UndeployMeansGone'
    BY <1>2 DEF Render, IInv, Books, JobMeansGone, UndeployMeansGone
  <1> QED
    BY <1>3, <1>4 DEF Render, IInv, JobMeansGone, machine

LEMMA ApplyInv == TypeOK /\ IInv /\ Apply => IInv'
  <1> SUFFICES ASSUME TypeOK, IInv, Apply PROVE IInv'
    OBVIOUS
  <1> USE DEF IInv, Books, TypeOK
  <1>0. /\ cdc = "apply" /\ cdc' = "render" /\ list' = list /\ node' = node
        /\ manifest' = manifest
        /\ "host" \in release' <=> manifest.host # "none"
        /\ "job" \in release' <=> manifest.job
        /\ host' = IF manifest.host # "none" THEN manifest.host ELSE host
        /\ forced' = (forced /\ (manifest.host # "deploy" \/ list = "failedNodes"))
    BY DEF Apply, machine, Kinds
  <1>1. deleting' = (deleting \/ ("host" \in release /\ manifest.host = "none" /\ host # "none"))
    BY DEF Apply
  <1>2. job' = IF manifest.job /\ job = "none" THEN "running"
               ELSE IF "job" \in release /\ ~manifest.job THEN "none" ELSE job
    BY DEF Apply
  <1>3. Books'
    BY <1>0, <1>1, <1>2 DEF HostSpecs
  <1>4. JobMeansGone'
    BY <1>0, <1>1, <1>2 DEF JobMeansGone
  <1>5. UndeployMeansGone'
    BY <1>0 DEF UndeployMeansGone
  <1>6. (host = "undeploy" /\ ~deleting /\ ~forced => node # "deployed")'
    BY <1>0, <1>1 DEF UndeployMeansGone, HostSpecs
  <1> QED
    BY <1>3, <1>4, <1>5, <1>6

LEMMA OtherInv ==
  ASSUME TypeOK, IInv,
         \/ \E to \in Lists : Move(to)
         \/ Uncordon \/ Mirror \/ Join \/ Worker
         \/ Drain \/ JobSucceeds \/ JobFails \/ JobExpires
         \/ UNCHANGED vars
  PROVE  IInv'
  <1> USE DEF IInv, Books, JobMeansGone, UndeployMeansGone, cluster, machine
  <1>1. ASSUME NEW to \in Lists, Move(to) PROVE IInv'
    BY <1>1 DEF Move, TypeOK
  <1>2. CASE Uncordon \/ Mirror \/ Join
    BY <1>2 DEF Uncordon, Mirror, Join
  <1>3. CASE Enrol \/ Deploy \/ Undeploy \/ Released
    BY <1>3 DEF Enrol, Deploy, Undeploy, Released
  <1>4. CASE DeleteHost
    BY <1>4 DEF DeleteHost
  <1>5. CASE Drain \/ JobSucceeds \/ JobFails \/ JobExpires
    BY <1>5 DEF Drain, JobSucceeds, JobFails, JobExpires
  <1>6. CASE UNCHANGED vars
    BY <1>6 DEF vars
  <1> QED
    BY <1>1, <1>2, <1>3, <1>4, <1>5, <1>6 DEF Worker

LEMMA StepInv == TypeOK /\ IInv /\ [Next]_vars => IInv'
  BY RenderInv, ApplyInv, OtherInv DEF Next, Cdc

-----------------------------------------------------------------------------
\* Only Undeploy starts to clean a machine, and only on the demand of its host.
LEMMA WipeCause ==
  ASSUME TypeOK, IInv, [Next]_vars, node = "deployed", node' = "cleaning"
  PROVE  forced
  <1>1. Undeploy
    BY DEF Next, vars, Move, Uncordon, Mirror, Join, Cdc, Render, Apply, Worker, Enrol,
           Deploy, Released, DeleteHost, Drain, JobSucceeds, JobFails, JobExpires, machine
  <1> QED
    BY <1>1 DEF Undeploy, IInv, TypeOK

RemovalNeverWipes == [][node = "deployed" /\ node' = "cleaning" => forced]_vars

\* What starts to clean a deployed worker is failedNodes, always: workers.removed
\* never does, because the upgrade that creates the drain Job prunes the host that
\* the finished drain is to undeploy.
THEOREM RemovedNeverUndeploys == Spec => RemovalNeverWipes
  <1>1. Spec => []IInv
    BY InitInv, StepInv, TypeCorrect, PTL DEF Spec
  <1>2. TypeOK /\ IInv /\ [Next]_vars
          => [node = "deployed" /\ node' = "cleaning" => forced]_vars
    BY WipeCause
  <1> QED
    BY <1>1, <1>2, TypeCorrect, PTL DEF Spec, RemovalNeverWipes

\* No member is wiped before it is drained, whatever was edited, rendered and
\* applied in whatever order, but on the operator's word in failedNodes.
THEOREM NeverWipedUndrained == Spec => DrainedBeforeWiped
  <1>1. [node = "deployed" /\ node' = "cleaning" => forced]_vars
          => [node = "deployed" /\ node' = "cleaning" => member # "yes" \/ forced]_vars
    OBVIOUS
  <1> QED
    BY <1>1, RemovedNeverUndeploys, PTL DEF RemovalNeverWipes, DrainedBeforeWiped
=============================================================================
