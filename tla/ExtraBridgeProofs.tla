-------------------------- MODULE ExtraBridgeProofs --------------------------
(***************************************************************************)
(* What holds of the extra-bridge for any number of bridges, publications  *)
(* and failures, and for every set of keys that a blade may publish.       *)
(*                                                                         *)
(* TypeOK stands alone.  The other two invariants are each inductive over  *)
(* it once they also speak of the copies that are under way: the maps that *)
(* a bridge has listed and got, and the one that rdc is about to PATCH.    *)
(***************************************************************************)
EXTENDS ExtraBridge, TLAPS

USE DEF Maps

LEMMA NothingType == Nothing \in Maps
  BY BridgeAssumption DEF Nothing

LEMMA HashIsAKey == Hash \in Keys
  BY DEF Keys

LEMMA HashUnmanaged == Hash \notin Managed
  BY DEF Managed, EXTRA_KEYS, Hash

LEMMA BundleManaged == Bundle \subseteq Managed /\ Bundle \subseteq Keys
  BY DEF Bundle, Managed, EXTRA_KEYS, Keys, JoinKeys

LEMMA ManagedKeys == Managed \subseteq Keys
  BY DEF Managed

-----------------------------------------------------------------------------
LEMMA StartType == Start \in [pc : {"list", "get", "clearIronic", "clearCR", "mirror"},
                              cr : Maps, ir : Maps]
  BY NothingType DEF Start

LEMMA InitType == Init => TypeOK
  <1> SUFFICES ASSUME Init PROVE TypeOK
    OBVIOUS
  <1>1. extra \in Maps /\ crExtra \in Maps /\ latest \in Maps
    BY NothingType DEF Init
  <1>2. bridge \in [Bridges -> [pc : {"list", "get", "clearIronic", "clearCR", "mirror"},
                                cr : Maps, ir : Maps]]
    BY StartType DEF Init
  <1>3. replay \in [on : BOOLEAN, map : Maps]
    BY NothingType DEF Init, Silent
  <1> QED
    BY <1>1, <1>2, <1>3, BridgeAssumption DEF Init, TypeOK

LEMMA MachineType == TypeOK /\ Machine => TypeOK'
  <1> SUFFICES ASSUME TypeOK, Machine PROVE TypeOK'
    OBVIOUS
  <1>1. ASSUME NEW ks, Publish(ks) PROVE TypeOK'
    <2>1. pubs + 1 \in 0..MaxPubs
      BY <1>1, BridgeAssumption DEF Publish, TypeOK
    <2>2. extra' \in Maps /\ latest' \in Maps
      BY <1>1, <2>1 DEF Publish, TypeOK
    <2> QED
      BY <1>1, <2>1, <2>2 DEF Publish, TypeOK
  <1>2. CASE PublishHash \/ PublishStage \/ PublishDrain \/ PublishJoin
    BY <1>1, <1>2 DEF PublishHash, PublishStage, PublishDrain, PublishJoin
  <1>3. CASE Deploy
    <2>1. latest' \in Maps
      BY <1>3, NothingType DEF Deploy
    <2> QED
      BY <1>3, <2>1, BridgeAssumption DEF Deploy, TypeOK, ACTIVE_LIKE_STATES
  <1>4. CASE AgentCalls \/ BootOS \/ TearDown \/ Released
    BY <1>4, BridgeAssumption
       DEF AgentCalls, BootOS, TearDown, Released, TypeOK, ACTIVE_LIKE_STATES
  <1> QED
    BY <1>2, <1>3, <1>4 DEF Machine

LEMMA BridgeType ==
  ASSUME TypeOK, NEW b \in Bridges, reconcile_once(b) \/ Fail(b)
  PROVE  TypeOK'
  <1> DEFINE Procs == [pc : {"list", "get", "clearIronic", "clearCR", "mirror"},
                       cr : Maps, ir : Maps]
  <1>0. bridge[b] \in Procs /\ Start \in Procs
    BY StartType DEF TypeOK
  <1>1. ASSUME NEW q \in Procs, bridge' = [bridge EXCEPT ![b] = q]
        PROVE  bridge' \in [Bridges -> Procs]
    BY <1>1 DEF TypeOK
  <1>2. CASE List(b)
    <2>1. [pc |-> "get", cr |-> crExtra, ir |-> Nothing] \in Procs
      BY NothingType DEF TypeOK
    <2>2. bridge' \in [Bridges -> Procs]
      BY <1>1, <1>2, <2>1 DEF List
    <2> QED
      BY <1>2, <2>2 DEF List, TypeOK, node
  <1>3. CASE Get(b)
    <2>1. bridge' \in [Bridges -> Procs]
      BY <1>3, <1>0 DEF Get, TypeOK
    <2> QED
      BY <1>3, <2>1 DEF Get, TypeOK, node
  <1>4. CASE ClearIronic(b)
    <2>1. extra' \in Maps
      BY <1>4, BridgeAssumption DEF ClearIronic, TypeOK
    <2>2. bridge' \in [Bridges -> Procs]
      BY <1>4, <1>0 DEF ClearIronic, TypeOK
    <2> QED
      BY <1>4, <2>1, <2>2 DEF ClearIronic, TypeOK, node
  <1>5. CASE ClearCR(b)
    <2>1. crExtra' \in Maps
      BY <1>5, BridgeAssumption DEF ClearCR, TypeOK
    <2>2. bridge' \in [Bridges -> Procs]
      BY <1>5, <1>1, <1>0 DEF ClearCR
    <2>3. rounds' \in 0..2
      BY <1>5 DEF ClearCR, TypeOK
    <2> QED
      BY <1>5, <2>1, <2>2, <2>3 DEF ClearCR, TypeOK, node
  <1>6. CASE Mirror(b)
    <2>1. crExtra' \in Maps
      BY <1>6, <1>0 DEF Mirror, TypeOK
    <2>2. bridge' \in [Bridges -> Procs]
      BY <1>6, <1>1, <1>0 DEF Mirror
    <2> QED
      BY <1>6, <2>1, <2>2 DEF Mirror, TypeOK, node
  <1>7. CASE Fail(b)
    <2>1. bridge' \in [Bridges -> Procs]
      BY <1>7, <1>0 DEF Fail, TypeOK
    <2>2. failures' \in 0..MaxFailures
      BY <1>7, BridgeAssumption DEF Fail, TypeOK
    <2> QED
      BY <1>7, <2>1, <2>2 DEF Fail, TypeOK, node
  <1> QED
    BY <1>2, <1>3, <1>4, <1>5, <1>6, <1>7 DEF reconcile_once

LEMMA RdcType == TypeOK /\ (RdcCompare \/ RdcReplay) => TypeOK'
  <1> SUFFICES ASSUME TypeOK, RdcCompare \/ RdcReplay PROVE TypeOK'
    OBVIOUS
  <1>1. CASE RdcCompare
    BY <1>1 DEF RdcCompare, TypeOK, node
  <1>2. CASE RdcReplay
    <2>1. extra' \in Maps /\ replay' \in [on : BOOLEAN, map : Maps]
      BY <1>2, NothingType DEF RdcReplay, TypeOK, Silent
    <2> QED
      BY <1>2, <2>1 DEF RdcReplay, TypeOK, node
  <1> QED
    BY <1>1, <1>2

LEMMA StepType == TypeOK /\ [Next]_vars => TypeOK'
  <1> SUFFICES ASSUME TypeOK, [Next]_vars PROVE TypeOK'
    OBVIOUS
  <1>1. CASE UNCHANGED vars
    BY <1>1 DEF vars, TypeOK
  <1> QED
    BY <1>1, MachineType, BridgeType, RdcType DEF Next

\* Every variable keeps its type: no copy between blade, Ironic, bridge and CR
\* makes a value that no publication wrote.
THEOREM TypeCorrect == Spec => []TypeOK
  BY InitType, StepType, PTL DEF Spec

-----------------------------------------------------------------------------
(* The hash.  It is in no copy on the Kubernetes side, under way or stored.  *)

HashStaysOut ==
  /\ crExtra[Hash] = 0
  /\ \A b \in Bridges : bridge[b].cr[Hash] = 0

LEMMA HashInit == Init => HashStaysOut
  BY HashIsAKey DEF Init, HashStaysOut, Nothing, Start

LEMMA HashBridge ==
  ASSUME TypeOK, HashStaysOut, NEW b \in Bridges, reconcile_once(b) \/ Fail(b)
  PROVE  HashStaysOut'
  <1> USE HashIsAKey
  <1>0. Start.cr[Hash] = 0
    BY DEF Start, Nothing
  <1>1. CASE List(b)
    BY <1>1 DEF List, HashStaysOut, TypeOK
  <1>2. CASE Get(b)
    BY <1>2 DEF Get, HashStaysOut, TypeOK
  <1>3. CASE ClearIronic(b)
    BY <1>3 DEF ClearIronic, HashStaysOut, TypeOK
  <1>4. CASE ClearCR(b)
    <2>1. crExtra'[Hash] = 0
      BY <1>4 DEF ClearCR, HashStaysOut
    <2> QED
      BY <1>0, <1>4, <2>1 DEF ClearCR, HashStaysOut, TypeOK
  <1>5. CASE Mirror(b)
    <2>1. Hash \notin Deltas(b)
      BY HashUnmanaged DEF Deltas
    <2>2. crExtra'[Hash] = 0
      BY <1>5, <2>1 DEF Mirror, HashStaysOut
    <2> QED
      BY <1>0, <1>5, <2>2 DEF Mirror, HashStaysOut, TypeOK
  <1>6. CASE Fail(b)
    BY <1>0, <1>6 DEF Fail, HashStaysOut, TypeOK
  <1> QED
    BY <1>1, <1>2, <1>3, <1>4, <1>5, <1>6 DEF reconcile_once

LEMMA HashOthers ==
  ASSUME Machine \/ RdcCompare \/ RdcReplay
  PROVE  UNCHANGED <<crExtra, bridge>>
  BY DEF Machine, Deploy, AgentCalls, BootOS, TearDown, Released, PublishHash,
         PublishStage, PublishDrain, PublishJoin, Publish, RdcCompare, RdcReplay

LEMMA HashStep == TypeOK /\ HashStaysOut /\ [Next]_vars => HashStaysOut'
  <1> SUFFICES ASSUME TypeOK, HashStaysOut, [Next]_vars PROVE HashStaysOut'
    OBVIOUS
  <1>1. CASE UNCHANGED <<crExtra, bridge>>
    BY <1>1 DEF HashStaysOut
  <1> QED
    BY <1>1, HashBridge, HashOthers DEF Next, vars

\* The redeploy gate of baremetal-host never opens, because deployed_configdrive_hash
\* reaches no CR: not by a mirror, nor by a mirror of a map listed long before.
THEOREM RedeployGateShut == Spec => []NoAutoRedeploy
  <1>1. HashStaysOut => NoAutoRedeploy
    BY DEF HashStaysOut, NoAutoRedeploy, shouldAutoRedeploy, observedConfigDriveHash
  <1>2. Spec => []HashStaysOut
    BY HashInit, HashStep, TypeCorrect, PTL DEF Spec
  <1> QED
    BY <1>1, <1>2, PTL

-----------------------------------------------------------------------------
(* The bundle.  Every map, wherever it is, has its keys from one publication. *)

LEMMA CoherentInit == Init => BundleCoherent
  BY BundleManaged DEF Init, BundleCoherent, Coherent, Nothing, Silent, Start

LEMMA CoherentPublish ==
  ASSUME TypeOK, BundleCoherent, NEW ks, ks \cap Bundle = {} \/ Bundle \subseteq ks,
         Publish(ks)
  PROVE  BundleCoherent'
  <1>1. Coherent(extra')
    BY BundleManaged DEF Publish, BundleCoherent, Coherent
  <1> QED
    BY <1>1 DEF Publish, BundleCoherent

LEMMA CoherentMachine == TypeOK /\ BundleCoherent /\ Machine => BundleCoherent'
  <1> SUFFICES ASSUME TypeOK, BundleCoherent, Machine PROVE BundleCoherent'
    OBVIOUS
  <1>1. CASE PublishHash \/ PublishStage \/ PublishDrain
    <2>1. ({Hash} \cap Published) \cap Bundle = {}
      BY DEF Hash, Bundle, JoinKeys
    <2>2. ({"cp_stage"} \cap Published) \cap Bundle = {}
      BY DEF Bundle, JoinKeys
    <2>3. ({"drain_kubeconfig"} \cap Published) \cap Bundle = {}
      BY DEF Bundle, JoinKeys
    <2> QED
      BY <1>1, <2>1, <2>2, <2>3, CoherentPublish DEF PublishHash, PublishStage, PublishDrain
  <1>2. CASE PublishJoin
    BY <1>2, CoherentPublish DEF PublishJoin
  <1>3. CASE Deploy \/ AgentCalls \/ BootOS \/ TearDown \/ Released
    BY <1>3 DEF Deploy, AgentCalls, BootOS, TearDown, Released, BundleCoherent
  <1> QED
    BY <1>1, <1>2, <1>3 DEF Machine

LEMMA CoherentBridge ==
  ASSUME TypeOK, BundleCoherent, NEW b \in Bridges, reconcile_once(b) \/ Fail(b)
  PROVE  BundleCoherent'
  <1> DEFINE Whole(q) == Coherent(q.cr) /\ Coherent(q.ir)
  <1>0. Coherent(Nothing) /\ Whole(Start)
    BY BundleManaged DEF Coherent, Nothing, Start
  <1>1. Coherent(crExtra) /\ Coherent(extra) /\ Whole(bridge[b])
    BY DEF BundleCoherent
  <1>2. ASSUME NEW q, Whole(q), bridge' = [bridge EXCEPT ![b] = q]
        PROVE  \A c \in Bridges : Whole(bridge'[c])
    BY <1>2 DEF TypeOK, BundleCoherent
  <1>3. CASE List(b)
    BY <1>0, <1>1, <1>2, <1>3 DEF List, BundleCoherent
  <1>4. CASE Get(b)
    <2>1. \A c \in Bridges : Whole(bridge'[c])
      BY <1>1, <1>4 DEF Get, TypeOK, BundleCoherent
    <2> QED
      BY <1>4, <2>1 DEF Get, BundleCoherent
  <1>5. CASE ClearIronic(b)
    <2>1. Coherent(extra')
      BY <1>1, <1>5, BundleManaged DEF ClearIronic, Coherent
    <2>2. \A c \in Bridges : Whole(bridge'[c])
      BY <1>1, <1>5 DEF ClearIronic, TypeOK, BundleCoherent
    <2> QED
      BY <1>5, <2>1, <2>2 DEF ClearIronic, BundleCoherent
  <1>6. CASE ClearCR(b)
    <2>1. Coherent(crExtra')
      BY <1>1, <1>6, BundleManaged DEF ClearCR, Coherent
    <2>2. \A c \in Bridges : Whole(bridge'[c])
      BY <1>0, <1>2, <1>6 DEF ClearCR
    <2> QED
      BY <1>6, <2>1, <2>2 DEF ClearCR, BundleCoherent
  <1>7. CASE Mirror(b)
    <2>1. \A k, l \in Bundle : k \in Deltas(b) <=> l \in Deltas(b)
      BY <1>1, BundleManaged DEF Deltas, Coherent
    <2>2. Coherent(crExtra')
      BY <1>1, <1>7, <2>1, BundleManaged DEF Mirror, Coherent
    <2>3. \A c \in Bridges : Whole(bridge'[c])
      BY <1>0, <1>2, <1>7 DEF Mirror
    <2> QED
      BY <1>7, <2>2, <2>3 DEF Mirror, BundleCoherent
  <1>8. CASE Fail(b)
    <2>1. \A c \in Bridges : Whole(bridge'[c])
      BY <1>0, <1>1, <1>8 DEF Fail, TypeOK, BundleCoherent
    <2> QED
      BY <1>8, <2>1 DEF Fail, BundleCoherent
  <1> QED
    BY <1>3, <1>4, <1>5, <1>6, <1>7, <1>8 DEF reconcile_once

LEMMA CoherentStep == TypeOK /\ BundleCoherent /\ [Next]_vars => BundleCoherent'
  <1> SUFFICES ASSUME TypeOK, BundleCoherent, [Next]_vars PROVE BundleCoherent'
    OBVIOUS
  <1>1. CASE RdcCompare
    BY <1>1 DEF RdcCompare, BundleCoherent
  <1>2. CASE RdcReplay
    <2>1. Coherent(Silent.map)
      BY BundleManaged DEF Coherent, Silent, Nothing
    <2> QED
      BY <1>2, <2>1 DEF RdcReplay, BundleCoherent
  <1>3. CASE UNCHANGED vars
    BY <1>3 DEF vars, BundleCoherent
  <1> QED
    BY <1>1, <1>2, <1>3, CoherentMachine, CoherentBridge DEF Next

\* A join command on the CR always comes with the endpoint and the etcd address
\* of its own publication, however bridges, clears, failures and rdc interleave.
THEOREM BundleArrivesWhole == Spec => []BundleCoherent
  BY CoherentInit, CoherentStep, TypeCorrect, PTL DEF Spec

-----------------------------------------------------------------------------
(* The age of a value, for one bridge under Timely.  Outside the active      *)
(* states the first whole poll empties the CR and whatever rdc reads from it *)
(* then; the second one also empties Ironic, which a replay of the map that  *)
(* rdc had read before could still refill during the first.  A deploy waits  *)
(* for both.                                                                 *)

Gone(m) == \A k \in Managed : m[k] = 0
Fresh(m) == \A k \in Managed : m[k] = 0 \/ m[k] > deployed
Outside == state \notin ACTIVE_LIKE_STATES

\* The only bridge is the only writer of the CR: what it listed is still there.
CopiesAgree ==
  /\ \A b \in Bridges : /\ bridge[b].pc # "list" => bridge[b].cr = crExtra
                        /\ bridge[b].pc \in {"list", "get"} => Gone(bridge[b].ir)
  /\ ~replay.on => Gone(replay.map)

CurrentInside ==
  ~Outside => /\ Fresh(extra) /\ Fresh(crExtra) /\ Fresh(replay.map)
              /\ \A b \in Bridges : Fresh(bridge[b].ir)

FirstPoll ==
  Outside /\ rounds >= 1 =>
    /\ Gone(crExtra)
    /\ \A b \in Bridges :
         /\ bridge[b].pc # "mirror"
         /\ bridge[b].pc # "list" => Gone(replay.map)
         /\ bridge[b].pc = "clearIronic" =>
              \/ Gone(extra)
              \/ \A k \in Managed : extra[k] = bridge[b].ir[k]
         /\ bridge[b].pc = "clearCR" => Gone(extra)

SecondPoll ==
  Outside /\ rounds = 2 =>
    /\ Gone(extra) /\ Gone(replay.map)
    /\ \A b \in Bridges : Gone(bridge[b].ir)

AgeInv == /\ deployed <= pubs
          /\ CopiesAgree /\ CurrentInside /\ FirstPoll /\ SecondPoll

LEMMA GoneStart == Gone(Nothing) /\ Gone(Start.ir) /\ Gone(Silent.map)
  BY ManagedKeys DEF Gone, Nothing, Start, Silent

LEMMA CallBackIsNoOther == WaitCallBack # "available" /\ WaitCallBack # "deleting"
  BY DEF WaitCallBack

LEMMA AgeInit == Init => AgeInv
  <1> SUFFICES ASSUME Init PROVE AgeInv
    OBVIOUS
  <1>1. /\ deployed = 0 /\ pubs = 0 /\ rounds = 0
        /\ extra = Nothing /\ crExtra = Nothing /\ replay.map = Nothing
        /\ \A b \in Bridges : bridge[b].pc = "list" /\ bridge[b].ir = Nothing
    BY DEF Init, Start, Silent
  <1>2. \A k \in Managed : Nothing[k] = 0
    BY GoneStart DEF Gone
  <1>3. CopiesAgree /\ CurrentInside
    BY <1>1, <1>2 DEF CopiesAgree, CurrentInside, Gone, Fresh
  <1> QED
    BY <1>1, <1>3 DEF AgeInv, FirstPoll, SecondPoll

LEMMA AgePublish ==
  ASSUME TypeOK, AgeInv, NEW ks, Publish(ks)
  PROVE  AgeInv'
  <1> USE DEF TypeOK, AgeInv
  <1>1. /\ state = "active" /\ pubs' = pubs + 1 /\ pubs \in Nat /\ deployed \in Nat
        /\ UNCHANGED <<state, crExtra, bridge, replay, deployed, rounds>>
    BY BridgeAssumption DEF Publish
  <1>2. ~Outside /\ ~Outside'
    BY <1>1 DEF Outside, ACTIVE_LIKE_STATES
  <1>3. \A k \in Managed : extra'[k] = pubs + 1 \/ extra'[k] = extra[k]
    BY ManagedKeys DEF Publish
  <1>4. \A k \in Managed : extra'[k] = 0 \/ extra'[k] > deployed
    BY <1>1, <1>2, <1>3 DEF CurrentInside, Fresh
  <1>5. CurrentInside'
    BY <1>1, <1>2, <1>4 DEF CurrentInside, Fresh
  <1>6. FirstPoll' /\ SecondPoll'
    BY <1>2 DEF FirstPoll, SecondPoll
  <1>7. CopiesAgree'
    BY <1>1 DEF CopiesAgree, Gone
  <1> QED
    BY <1>1, <1>5, <1>6, <1>7

LEMMA AgeMachine ==
  ASSUME Timely, TypeOK, AgeInv, Machine
  PROVE  AgeInv'
  <1> USE CallBackIsNoOther DEF TypeOK, AgeInv, ACTIVE_LIKE_STATES
  <1>1. CASE PublishHash \/ PublishStage \/ PublishDrain \/ PublishJoin
    BY <1>1, AgePublish DEF PublishHash, PublishStage, PublishDrain, PublishJoin
  <1>2. CASE Deploy
    <2>1. Outside /\ rounds = 2
      BY <1>2 DEF Deploy, Outside
    <2>2. /\ Gone(extra) /\ Gone(crExtra) /\ Gone(replay.map)
          /\ \A b \in Bridges : Gone(bridge[b].ir)
      BY <2>1 DEF FirstPoll, SecondPoll
    <2>3. UNCHANGED <<extra, crExtra, replay, bridge, pubs>> /\ deployed' = pubs
      BY <1>2 DEF Deploy
    <2>4. CurrentInside'
      BY <2>2, <2>3 DEF CurrentInside, Fresh, Gone
    <2>5. CopiesAgree'
      BY <2>3 DEF CopiesAgree, Gone
    <2>6. ~Outside'
      BY <1>2 DEF Deploy, Outside
    <2>7. deployed' <= pubs'
      BY <2>3, BridgeAssumption
    <2> QED
      BY <2>4, <2>5, <2>6, <2>7 DEF FirstPoll, SecondPoll
  <1>3. CASE AgentCalls \/ BootOS \/ TearDown \/ Released
    <2>1. UNCHANGED <<extra, crExtra, replay, bridge, pubs, deployed>>
      BY <1>3 DEF AgentCalls, BootOS, TearDown, Released
    <2>2. \/ ~Outside /\ ~Outside'
          \/ ~Outside /\ Outside' /\ rounds' = 0
          \/ Outside /\ Outside' /\ rounds' = rounds
      BY <1>3 DEF AgentCalls, BootOS, TearDown, Released, Outside
    <2>3. CopiesAgree'
      BY <2>1 DEF CopiesAgree, Gone
    <2>4. CurrentInside'
      BY <2>1, <2>2 DEF CurrentInside, Fresh
    <2>5. FirstPoll' /\ SecondPoll'
      BY <2>1, <2>2 DEF FirstPoll, SecondPoll, Gone
    <2> QED
      BY <2>1, <2>3, <2>4, <2>5
  <1> QED
    BY <1>1, <1>2, <1>3 DEF Machine

LEMMA AgeBridge ==
  ASSUME Timely, NEW b, Bridges = {b}, TypeOK, AgeInv, reconcile_once(b) \/ Fail(b)
  PROVE  AgeInv'
  <1> USE DEF AgeInv
  <1>0. UNCHANGED <<state, pubs, deployed, replay>> /\ (Outside' <=> Outside)
        /\ rounds \in 0..2
    BY DEF reconcile_once, List, Get, ClearIronic, ClearCR, Mirror, Fail, node, Outside,
           TypeOK
  <1>1. CASE List(b)
    <2>1. /\ bridge[b].pc = "list" /\ ~replay.on
          /\ bridge'[b] = [pc |-> "get", cr |-> crExtra, ir |-> Nothing]
          /\ UNCHANGED <<extra, crExtra, rounds>>
      BY <1>1 DEF List, TypeOK
    <2>2. Gone(replay.map)
      BY <2>1 DEF CopiesAgree
    <2>3. \A k \in Managed : Nothing[k] = 0
      BY GoneStart DEF Gone
    <2>4. CopiesAgree'
      BY <1>0, <2>1, <2>3, <2>2 DEF CopiesAgree, Gone
    <2>5. CurrentInside'
      BY <1>0, <2>1, <2>3 DEF CurrentInside, Fresh
    <2>6. FirstPoll' /\ SecondPoll'
      BY <1>0, <2>1, <2>2, <2>3 DEF FirstPoll, SecondPoll, Gone
    <2> QED
      BY <1>0, <2>4, <2>5, <2>6
  <1>2. CASE Get(b)
    <2>1. /\ bridge[b].pc = "get"
          /\ bridge'[b].cr = bridge[b].cr /\ bridge'[b].ir = extra
          /\ bridge'[b].pc = IF Outside THEN "clearIronic" ELSE "mirror"
          /\ UNCHANGED <<extra, crExtra, rounds>>
      BY <1>2 DEF Get, TypeOK, Outside
    <2>2. CopiesAgree'
      BY <1>0, <2>1 DEF CopiesAgree, Gone
    <2>3. CurrentInside'
      BY <1>0, <2>1 DEF CurrentInside, Fresh
    <2>4. FirstPoll' /\ SecondPoll'
      BY <1>0, <2>1 DEF FirstPoll, SecondPoll, Gone
    <2> QED
      BY <1>0, <2>2, <2>3, <2>4
  <1>3. CASE ClearIronic(b)
    <2>1. /\ bridge[b].pc = "clearIronic" /\ bridge'[b].pc = "clearCR"
          /\ bridge'[b].cr = bridge[b].cr /\ bridge'[b].ir = bridge[b].ir
          /\ UNCHANGED <<crExtra, rounds>>
      BY <1>3 DEF ClearIronic, TypeOK
    <2>2. \A k \in Managed : extra'[k] \in {0, extra[k]}
      BY <1>3, ManagedKeys DEF ClearIronic, TypeOK
    <2>3. ASSUME \A k \in Managed : extra[k] = bridge[b].ir[k]
          PROVE  \A k \in Managed : extra'[k] = 0
      BY <1>3, <2>3, ManagedKeys DEF ClearIronic, TypeOK
    <2>4. CopiesAgree'
      BY <1>0, <2>1 DEF CopiesAgree, Gone
    <2>5. CurrentInside'
      BY <1>0, <2>1, <2>2 DEF CurrentInside, Fresh
    <2>6. FirstPoll' /\ SecondPoll'
      BY <1>0, <2>1, <2>2, <2>3 DEF FirstPoll, SecondPoll, Gone
    <2> QED
      BY <1>0, <2>4, <2>5, <2>6
  <1>4. CASE ClearCR(b)
    <2>1. /\ bridge[b].pc = "clearCR" /\ bridge'[b] = Start
          /\ UNCHANGED extra
          /\ rounds' = IF ~Outside \/ rounds = 2 THEN rounds ELSE rounds + 1
      BY <1>4 DEF ClearCR, TypeOK, Outside
    <2>2. \A k \in Managed : crExtra'[k] = 0
      BY <1>4, <2>1, ManagedKeys DEF ClearCR, TypeOK, CopiesAgree
    <2>3. /\ \A k \in Managed : Start.ir[k] = 0
          /\ Start.pc = "list"
      BY GoneStart DEF Gone, Start
    <2>4. CopiesAgree'
      BY <1>0, <2>1, <2>3 DEF CopiesAgree, Gone
    <2>5. CurrentInside'
      BY <1>0, <2>1, <2>2, <2>3 DEF CurrentInside, Fresh
    <2>6. FirstPoll'
      BY <1>0, <2>1, <2>2, <2>3 DEF FirstPoll, Gone
    <2>7. SecondPoll'
      <3>1. Outside /\ rounds' = 2 => rounds >= 1
        BY <1>0, <2>1
      <3>2. Outside /\ rounds >= 1 => Gone(extra) /\ Gone(replay.map)
        BY <2>1 DEF FirstPoll
      <3> QED
        BY <1>0, <2>1, <2>3, <3>1, <3>2 DEF SecondPoll, Gone
    <2> QED
      BY <1>0, <2>4, <2>5, <2>6, <2>7
  <1>5. CASE Mirror(b)
    <2>1. /\ bridge[b].pc = "mirror" /\ bridge'[b] = Start
          /\ UNCHANGED <<extra, rounds>>
      BY <1>5 DEF Mirror, TypeOK
    <2>2. \A k \in Managed : crExtra'[k] \in {crExtra[k], bridge[b].ir[k]}
      BY <1>5, <2>1, ManagedKeys DEF Mirror, TypeOK, CopiesAgree
    <2>3. /\ \A k \in Managed : Start.ir[k] = 0
          /\ Start.pc = "list"
      BY GoneStart DEF Gone, Start
    <2>4. CopiesAgree'
      BY <1>0, <2>1, <2>3 DEF CopiesAgree, Gone
    <2>5. CurrentInside'
      BY <1>0, <2>1, <2>2, <2>3 DEF CurrentInside, Fresh
    <2>6. ~(Outside /\ rounds >= 1)
      BY <2>1 DEF FirstPoll
    <2> QED
      BY <1>0, <2>1, <2>4, <2>5, <2>6 DEF FirstPoll, SecondPoll
  <1>6. CASE Fail(b)
    <2>1. /\ rounds' = 0 /\ UNCHANGED <<extra, crExtra>>
          /\ \/ bridge'[b] = Start
             \/ /\ bridge[b].pc = "clearIronic"
                /\ bridge'[b] = [bridge[b] EXCEPT !.pc = "clearCR"]
      BY <1>6 DEF Fail, TypeOK
    <2>2. /\ \A k \in Managed : Start.ir[k] = 0
          /\ Start.pc = "list"
      BY GoneStart DEF Gone, Start
    <2>3. \/ bridge'[b] = Start
          \/ /\ bridge[b].pc = "clearIronic" /\ bridge'[b].pc = "clearCR"
             /\ bridge'[b].cr = bridge[b].cr /\ bridge'[b].ir = bridge[b].ir
      BY <2>1 DEF TypeOK
    <2>4. CopiesAgree'
      BY <1>0, <2>1, <2>2, <2>3 DEF CopiesAgree, Gone
    <2>5. CurrentInside'
      BY <1>0, <2>1, <2>2, <2>3 DEF CurrentInside, Fresh
    <2> QED
      BY <1>0, <2>1, <2>4, <2>5 DEF FirstPoll, SecondPoll
  <1> QED
    BY <1>1, <1>2, <1>3, <1>4, <1>5, <1>6 DEF reconcile_once

LEMMA AgeRdc ==
  ASSUME NEW b, Bridges = {b}, TypeOK, AgeInv, RdcCompare \/ RdcReplay
  PROVE  AgeInv'
  <1> USE DEF AgeInv
  <1>0. UNCHANGED <<state, pubs, deployed, crExtra, bridge, rounds>>
        /\ (Outside' <=> Outside)
    BY DEF RdcCompare, RdcReplay, node, Outside
  <1>1. CASE RdcCompare
    <2>1. replay'.on = TRUE /\ replay'.map = crExtra /\ UNCHANGED extra
      BY <1>1 DEF RdcCompare
    <2>2. CopiesAgree'
      BY <1>0, <2>1 DEF CopiesAgree, Gone
    <2>3. CurrentInside'
      BY <1>0, <2>1 DEF CurrentInside, Fresh
    <2>4. FirstPoll' /\ SecondPoll'
      BY <1>0, <2>1 DEF FirstPoll, SecondPoll, Gone
    <2> QED
      BY <1>0, <2>2, <2>3, <2>4
  <1>2. CASE RdcReplay
    <2>1. extra' = replay.map /\ replay' = Silent
      BY <1>2 DEF RdcReplay
    <2>2. \A k \in Managed : Silent.map[k] = 0
      BY GoneStart DEF Gone
    <2>3. CopiesAgree'
      BY <1>0, <2>1, <2>2 DEF CopiesAgree, Gone
    <2>4. CurrentInside'
      BY <1>0, <2>1, <2>2 DEF CurrentInside, Fresh
    <2>5. FirstPoll' /\ SecondPoll'
      BY <1>0, <2>1, <2>2 DEF FirstPoll, SecondPoll, Gone
    <2> QED
      BY <1>0, <2>3, <2>4, <2>5
  <1> QED
    BY <1>1, <1>2

LEMMA AgeStep ==
  ASSUME Timely, NEW b, Bridges = {b}
  PROVE  TypeOK /\ AgeInv /\ [Next]_vars => AgeInv'
  <1> SUFFICES ASSUME TypeOK, AgeInv, [Next]_vars PROVE AgeInv'
    OBVIOUS
  <1>1. CASE UNCHANGED vars
    BY <1>1 DEF vars, AgeInv, CopiesAgree, CurrentInside, FirstPoll, SecondPoll, Gone,
                Fresh, Outside
  <1>2. CASE Machine
    BY <1>2, AgeMachine
  <1>3. CASE reconcile_once(b) \/ Fail(b)
    BY <1>3, AgeBridge
  <1>4. CASE RdcCompare \/ RdcReplay
    BY <1>4, AgeRdc
  <1> QED
    BY <1>1, <1>2, <1>3, <1>4 DEF Next

\* While a node is being deployed or in use, no managed key on its CR is of an earlier
\* deploy, whatever is published, replayed by rdc or fails: given one bridge, and a deploy
\* that waits for two polls in a row.
THEOREM JoinStaysCurrent ==
  ASSUME Timely, NEW CONSTANT b, Bridges = {b}
  PROVE  Spec => []JoinIsCurrent
  <1>1. AgeInv => JoinIsCurrent
    BY DEF AgeInv, CurrentInside, Fresh, Outside, JoinIsCurrent
  <1>2. TypeOK /\ AgeInv /\ [Next]_vars => AgeInv'
    BY AgeStep
  <1>3. Spec => []AgeInv
    BY <1>2, AgeInit, TypeCorrect, PTL DEF Spec
  <1> QED
    BY <1>1, <1>3, PTL
=============================================================================
