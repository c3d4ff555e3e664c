--------------------------- MODULE CrdRegeneration ---------------------------
(***************************************************************************)
(* regenerate-restdefinition-crds.py: after an upgrade of oasgen-provider  *)
(* the generated CRDs are those of the old generator, since Observe looks  *)
(* at hashes and not at its own version.  The script edits the OAS files,  *)
(* applies their ConfigMaps, and waits until the hash that oasgen reports  *)
(* of each definition has moved.                                           *)
(*                                                                         *)
(* The content of an OAS document is the stamp of its marker; 0 has none.  *)
(***************************************************************************)
EXTENDS Naturals, Sequences

CONSTANTS Definitions,  \* the RestDefinitions that may be live
          HasFile,      \* those whose oasPath leads to a file of oas/
          Applied,      \* the ConfigMaps create-ironic-oas-configmap.sh applies, in order
          Checked,      \* the definitions that STORED_CHECKS looks at
          Fixed,        \* the first generator that writes them as expected
          Polls,        \* the looks that fit into --timeout
          MaxGenerators, MaxClock, MaxRuns, MaxFailures   \* bounds

ASSUME RegenAssumption ==
  /\ HasFile \subseteq Definitions /\ Checked \subseteq Definitions
  /\ Applied \in Seq(Definitions)
  /\ Fixed \in Nat /\ Polls \in Nat /\ MaxGenerators \in Nat /\ MaxClock \in Nat \ {0}
  /\ MaxRuns \in Nat /\ MaxFailures \in Nat

VARIABLES
  generator,  \* the version of the oasgen that runs
  live,       \* the RestDefinitions that exist
  file,       \* per definition: the stamp in oas/
  cm,         \* per definition: the stamp in its ConfigMap
  crd,        \* per definition: the generator that wrote its CRD, and from what
  oasHash,    \* per definition: what its status says it was generated from
  clock,      \* in seconds
  script,     \* where the script is and what it knows
  runs, failures

oasgenVars == <<crd, oasHash>>
regenVars == <<generator, live, file, cm, crd, oasHash, clock, script, runs, failures>>

Idle == [pc |-> "idle", started |-> 0, before |-> [n \in {} |-> 0], at |-> 1,
         pending |-> {}, polls |-> 0, verdict |-> "none", stored |-> {}]

RegenInit ==
  /\ generator = 0 /\ live \in SUBSET Definitions
  /\ file = [n \in Definitions |-> 0] /\ cm = file /\ oasHash = file
  /\ crd = [n \in Definitions |-> [by |-> 0, from |-> 0]]
  /\ clock = 1 /\ script = Idle /\ runs = 0 /\ failures = 0

(* --- oasgen-provider, the cluster and the clock --------------------------- *)

\* The new pod has nothing of what the old one was about to report, and takes longer
\* to come up than the second that a stamp resolves.
Upgrade ==
  /\ generator < MaxGenerators /\ generator' = generator + 1
  /\ clock < MaxClock /\ clock' = clock + 1
  /\ UNCHANGED <<live, file, cm, oasgenVars, script, runs, failures>>

\* Observe: the hash of the document, not the version of the generator.
Regenerate(n) ==
  /\ n \in live /\ oasHash[n] # cm[n]
  /\ crd' = [crd EXCEPT ![n] = [by |-> generator, from |-> cm[n]]]
  /\ UNCHANGED <<generator, live, file, cm, oasHash, clock, script, runs, failures>>

Report(n) ==
  /\ n \in live /\ crd[n].by = generator /\ oasHash[n] # crd[n].from
  /\ oasHash' = [oasHash EXCEPT ![n] = crd[n].from]
  /\ UNCHANGED <<generator, live, file, cm, crd, clock, script, runs, failures>>

Vanish(n) ==
  /\ n \in live /\ failures < MaxFailures
  /\ live' = live \ {n} /\ failures' = failures + 1
  /\ UNCHANGED <<generator, file, cm, oasgenVars, clock, script, runs>>

Second ==
  /\ clock < MaxClock /\ clock' = clock + 1
  /\ UNCHANGED <<generator, live, file, cm, oasgenVars, script, runs, failures>>

(* --- the script ------------------------------------------------------------ *)

definitions == [n \in live |-> oasHash[n]]
crd_has(n) == crd[n].by >= Fixed
report_stored == {n \in Checked \cap live : ~crd_has(n)}

End(verdict) == [script EXCEPT !.pc = "end", !.verdict = verdict]

oas_files(names) == names \cap HasFile

\* --check-only stops after the report.
Begun == [Idle EXCEPT !.pc = "nudge", !.started = generator, !.before = definitions,
                      !.pending = live, !.stored = report_stored]
Start ==
  /\ script.pc \in {"idle", "end"} /\ runs < MaxRuns
  /\ script' = CASE live = {} -> [Begun EXCEPT !.pc = "end", !.verdict = "no definitions"]
                 [] live \ oas_files(live) # {} ->
                      [Begun EXCEPT !.pc = "end", !.verdict = "refused"]
                 [] OTHER -> Begun
  /\ runs' = runs + 1
  /\ UNCHANGED <<generator, live, file, cm, oasgenVars, clock, failures>>

CheckOnly ==
  /\ script.pc \in {"idle", "end"} /\ live # {} /\ runs < MaxRuns
  /\ script' = [Idle EXCEPT !.pc = "end", !.verdict = "reported", !.stored = report_stored]
  /\ runs' = runs + 1
  /\ UNCHANGED <<generator, live, file, cm, oasgenVars, clock, failures>>

\* Mutant: a marker that is there already is left as it is.
NudgeOnce ==
  /\ script.pc = "nudge"
  /\ file' = [n \in Definitions |-> IF n \in oas_files(DOMAIN script.before) /\ file[n] = 0
                                    THEN clock ELSE file[n]]
  /\ script' = [script EXCEPT !.pc = "apply"]
  /\ UNCHANGED <<generator, live, cm, oasgenVars, clock, runs, failures>>

nudge ==
  /\ script.pc = "nudge"
  /\ file' = [n \in Definitions |-> IF n \in oas_files(DOMAIN script.before) THEN clock
                                    ELSE file[n]]
  /\ script' = [script EXCEPT !.pc = "apply"]
  /\ UNCHANGED <<generator, live, cm, oasgenVars, clock, runs, failures>>

create_ironic_oas_configmap ==
  /\ script.pc = "apply"
  /\ IF script.at > Len(Applied)
     THEN script' = [script EXCEPT !.pc = "poll"] /\ UNCHANGED cm
     ELSE /\ cm' = [cm EXCEPT ![Applied[script.at]] = file[Applied[script.at]]]
          /\ script' = [script EXCEPT !.at = @ + 1]
  /\ UNCHANGED <<generator, live, file, oasgenVars, clock, runs, failures>>

\* sh() raises on a failed kubectl: the ConfigMaps that follow are not applied, the hashes
\* no longer polled.  Before the nudge, which makes no call, it would leave nothing behind.
Fail ==
  /\ script.pc \in {"apply", "poll"} /\ failures < MaxFailures
  /\ script' = End("failed")
  /\ failures' = failures + 1
  /\ UNCHANGED <<generator, live, file, cm, oasgenVars, clock, runs>>

\* Mutant: what was applied is taken for what was read.
AppliedMoved(n) == n \in live /\ cm[n] # script.before[n]

Moved(n) == n \in live /\ oasHash[n] # script.before[n]

\* Mutant: there is no deadline.
PollForever ==
  /\ script.pc = "poll" /\ script.pending # {}
  /\ script' = [script EXCEPT !.polls = @ + 1, !.pending = {n \in @ : ~Moved(n)}]
  /\ UNCHANGED <<generator, live, file, cm, oasgenVars, clock, runs, failures>>

\* A definition that has gone has no hash to print: the KeyError ends the script.
Poll ==
  /\ script.pc = "poll" /\ script.pending # {} /\ script.polls < Polls
  /\ script' = IF script.pending \subseteq live
               THEN [script EXCEPT !.polls = @ + 1,
                                   !.pending = {n \in @ : ~Moved(n)}]
               ELSE End("KeyError")
  /\ UNCHANGED <<generator, live, file, cm, oasgenVars, clock, runs, failures>>

Finish ==
  /\ script.pc = "poll" /\ (script.pending = {} \/ script.polls = Polls)
  /\ script' = [End(IF script.pending = {} THEN "0" ELSE "2") EXCEPT !.stored = report_stored]
  /\ UNCHANGED <<generator, live, file, cm, oasgenVars, clock, runs, failures>>

RegenNext ==
  \/ Upgrade \/ Second
  \/ \E n \in Definitions : Regenerate(n) \/ Report(n) \/ Vanish(n)
  \/ Start \/ CheckOnly \/ nudge \/ create_ironic_oas_configmap \/ Fail \/ Poll \/ Finish

RegenSpec == RegenInit /\ [][RegenNext]_regenVars

\* oasgen reconciles every definition again and again.
RegenFairness == \A n \in Definitions :
  WF_regenVars(Regenerate(n)) /\ WF_regenVars(Report(n))

-----------------------------------------------------------------------------
Stamps == [Definitions -> 0..MaxClock]
Hashes == UNION {[D -> 0..MaxClock] : D \in SUBSET Definitions}
Scripts ==
  [pc : {"idle", "nudge", "apply", "poll", "end"}, started : Nat,
   before : Hashes, at : 1..Len(Applied) + 1,
   pending : SUBSET Definitions, polls : 0..Polls, stored : SUBSET Checked,
   verdict : {"none", "0", "2", "reported", "no definitions", "refused", "failed", "KeyError"}]

\* The shape of the state; the script waits for definitions that it had seen.
RegenTypeOK ==
  /\ generator \in Nat /\ live \subseteq Definitions
  /\ file \in Stamps /\ cm \in Stamps /\ oasHash \in Stamps
  /\ crd \in [Definitions -> [by : Nat, from : 0..MaxClock]]
  /\ clock \in 0..MaxClock /\ runs \in Nat /\ failures \in Nat
  /\ script \in Scripts /\ script.pending \subseteq DOMAIN script.before

\* Exit 0 says "all definitions re-read their OAS", and the stored side printed with it
\* is read as a verdict on the generator: each CRD was written by the one that ran
\* when the script started, or a later one, whatever was upgraded, lost or left from
\* an earlier run in between.
ZeroIsTrue ==
  script.verdict = "0" =>
    /\ \A n \in DOMAIN script.before \cap live : crd[n].by >= script.started
    /\ Fixed <= script.started => script.stored = {}

\* Once the ConfigMaps are applied the script need not see it: also when it gives up, or
\* trips over a definition that went away, the definitions do not stay split
\* between two generators, and a second upgrade can be nudged like the first.
NudgeReaches ==
  \A g \in 1..MaxGenerators :
    script.pc = "poll" /\ script.started = g
      ~> \A i \in 1..Len(Applied) : Applied[i] \in live => crd[Applied[i]].by >= g
=============================================================================
