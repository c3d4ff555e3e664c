----------------------------- MODULE TokenRenewal -----------------------------
(***************************************************************************)
(* A credential that expires, and the job that renews it on a timer.  Two  *)
(* of them keep the system going:                                          *)
(*                                                                         *)
(*  - keystone-token-refresher, a CronJob: a Keystone token in the Secret  *)
(*    that every generated controller authenticates to Ironic with;        *)
(*  - kubeadm-token-refresh, a systemd timer on the bootstrap blade: the   *)
(*    join token in the extra of its node (ExtraBridge carries it on).     *)
(*                                                                         *)
(* Time is discrete; the unit is the instance's.  Ages stop at Lifetime.   *)
(***************************************************************************)
EXTENDS Naturals

CONSTANTS Period,     \* between two firings of the timer
          Jitter,     \* RandomizedDelaySec
          Lifetime,   \* of a token
          Delay,      \* the longest run, its retries included
          Tolerated,  \* runs that may fail in a row before anyone notices
          MaxMisses,  \* bound: runs that fail in a row
          MaxReboots, \* bound: reboots of the machine the timer runs on
          Baked       \* users present the first token, not the published one

ASSUME RenewalAssumption ==
  /\ {Period, Jitter, Lifetime, Delay, Tolerated, MaxMisses, MaxReboots} \subseteq Nat
  /\ Delay < Period /\ 0 < Lifetime /\ Baked \in BOOLEAN

VARIABLES
  age,     \* of the published token
  first,   \* of the token that the chart baked into every configDrive
  due,     \* until the timer fires
  running,
  run,     \* how long the run has taken so far
  missed,  \* runs that failed since the last success
  reboots,
  use      \* what came of the latest use of the credential

renewalVars == <<age, first, due, running, run, missed, reboots, use>>

RenewalInit ==
  /\ age = 0 /\ first = 0
  /\ due = Period /\ running = FALSE /\ run = 0
  /\ missed = 0 /\ reboots = 0 /\ use = "none"

Older(a) == IF a < Lifetime THEN a + 1 ELSE a

RenewalTick ==
  /\ due > 0 /\ (running => run < Delay)
  /\ due' = due - 1
  /\ run' = IF running THEN run + 1 ELSE run
  /\ age' = Older(age) /\ first' = Older(first)
  /\ UNCHANGED <<running, missed, reboots, use>>

Fire ==
  /\ due = 0
  /\ due' \in Period..(Period + Jitter)
  /\ running' = TRUE /\ run' = 0
  /\ UNCHANGED <<age, first, missed, reboots, use>>

\* Mutant: the token minted, and nothing published: it was read from the body.
MintOnly ==
  /\ running /\ running' = FALSE /\ run' = 0 /\ missed' = 0
  /\ UNCHANGED <<age, first, due, reboots, use>>

\* Minted and published in one go.
Renew ==
  /\ running /\ running' = FALSE /\ run' = 0
  /\ age' = 0 /\ missed' = 0
  /\ UNCHANGED <<first, due, reboots, use>>

\* Every failure exits with a status and leaves what is published alone.
Miss ==
  /\ running /\ running' = FALSE /\ run' = 0
  /\ missed < MaxMisses /\ missed' = missed + 1
  /\ UNCHANGED <<age, first, due, reboots, use>>

\* OnBootSec counts from the boot: what was due is due a whole period later.
Reboot ==
  /\ reboots < MaxReboots /\ reboots' = reboots + 1
  /\ due' \in Period..(Period + Jitter)
  /\ running' = FALSE /\ run' = 0
  /\ UNCHANGED <<age, first, missed, use>>

presented == IF Baked THEN first ELSE age

Use ==
  /\ use' = IF presented < Lifetime THEN "served" ELSE "refused"
  /\ UNCHANGED <<age, first, due, running, run, missed, reboots>>

-----------------------------------------------------------------------------
RenewalNext == RenewalTick \/ Fire \/ Renew \/ Miss \/ Reboot \/ Use

RenewalSpec == RenewalInit /\ [][RenewalNext]_renewalVars
-----------------------------------------------------------------------------
RenewalTypeOK ==
  /\ age \in 0..Lifetime /\ first \in 0..Lifetime
  /\ due \in 0..(Period + Jitter) /\ running \in BOOLEAN /\ run \in 0..Delay
  /\ missed \in 0..MaxMisses /\ reboots \in 0..MaxReboots
  /\ use \in {"none", "served", "refused"}

\* Whoever presents the credential is served.
NeverRefused == use # "refused"

\* The margin between period and lifetime: a credential that was good is refused
\* only after more failed runs in a row than that, or after a reboot.
MarginHolds ==
  [][use # "refused" /\ use' = "refused" => missed > Tolerated \/ reboots > 0]_renewalVars
=============================================================================
