-------------------------- MODULE TokenRenewalProofs --------------------------
(***************************************************************************)
(* The lifetime that a renewed credential needs: how many runs may fail    *)
(* and how many reboots may come for a given period, jitter and length of  *)
(* a run.                                                                  *)
(***************************************************************************)
EXTENDS TokenRenewal, TLAPS

Cycle == Period + Jitter

\* A token lasts all the periods that missed runs cost, all that reboots cost
\* (each loses a run that may have been almost done), and the run that renews it.
LongEnough ==
  Cycle + MaxMisses * Cycle + MaxReboots * (Cycle + Delay) + Delay < Lifetime

\* Spent on misses and reboots since the last success.
Spent == missed * Cycle + reboots * (Cycle + Delay)

\* A run is over before the timer is due again; the age is accounted for.
AgeInv ==
  /\ running => Period <= due + run /\ due + run <= Cycle
  /\ ~running => age <= Spent + (Cycle - due)
  /\ running => age <= Spent + Cycle + run

LEMMA Nats == /\ Period \in Nat /\ Jitter \in Nat /\ Lifetime \in Nat /\ Delay \in Nat
              /\ MaxMisses \in Nat /\ MaxReboots \in Nat /\ Tolerated \in Nat
              /\ Delay < Period /\ 0 < Lifetime
              /\ Cycle \in Nat /\ Delay < Cycle
BY RenewalAssumption DEF Cycle

LEMMA Product == ASSUME NEW a \in Nat, NEW b \in Nat PROVE a * b \in Nat
BY SMT

LEMMA PlusZero == ASSUME NEW a \in Nat PROVE a + 0 = a
BY SMT

LEMMA NextProduct == ASSUME NEW a \in Nat, NEW b \in Nat
                     PROVE (a + 1) * b = a * b + b
BY SMT

LEMMA Monotone == ASSUME NEW a \in Nat, NEW c \in Nat, NEW b \in Nat, a <= c
                  PROVE a * b <= c * b
<1>1. PICK k \in Nat : c = a + k
  <2>1. c - a \in Nat BY SMT
  <2>2. c = a + (c - a) BY SMT
  <2> QED BY <2>1, <2>2
<1>2. (a + k) * b = a * b + k * b BY SMT
<1>3. k * b \in Nat /\ a * b \in Nat BY Product
<1> QED BY <1>1, <1>2, <1>3, SMT

LEMMA InitTypes == ASSUME RenewalInit PROVE RenewalTypeOK
<1>1. /\ age \in 0..Lifetime /\ first \in 0..Lifetime
      /\ due \in 0..(Period + Jitter) /\ run \in 0..Delay
      /\ missed \in 0..MaxMisses /\ reboots \in 0..MaxReboots
  BY Nats, SMT DEF RenewalInit
<1>2. running \in BOOLEAN /\ use \in {"none", "served", "refused"}
  BY DEF RenewalInit
<1> QED BY <1>1, <1>2 DEF RenewalTypeOK

LEMMA TypeStep == ASSUME RenewalTypeOK, [RenewalNext]_renewalVars PROVE RenewalTypeOK'
<1>1. CASE RenewalTick BY <1>1, Nats, SMT DEF RenewalTick, Older, RenewalTypeOK
<1>2. CASE Fire
  <2>1. running' \in BOOLEAN /\ use' \in {"none", "served", "refused"}
    BY <1>2 DEF Fire, RenewalTypeOK
  <2>2. /\ age' \in 0..Lifetime /\ first' \in 0..Lifetime
        /\ due' \in 0..(Period + Jitter) /\ run' \in 0..Delay
        /\ missed' \in 0..MaxMisses /\ reboots' \in 0..MaxReboots
    BY <1>2, Nats, SMT DEF Fire, RenewalTypeOK
  <2> QED BY <2>1, <2>2 DEF RenewalTypeOK
<1>3. CASE Renew
  <2>1. running' \in BOOLEAN /\ use' \in {"none", "served", "refused"}
    BY <1>3 DEF Renew, RenewalTypeOK
  <2>2. /\ age' \in 0..Lifetime /\ first' \in 0..Lifetime
        /\ due' \in 0..(Period + Jitter) /\ run' \in 0..Delay
        /\ missed' \in 0..MaxMisses /\ reboots' \in 0..MaxReboots
    BY <1>3, Nats, SMT DEF Renew, RenewalTypeOK
  <2> QED BY <2>1, <2>2 DEF RenewalTypeOK
<1>4. CASE Miss
  <2>1. running' \in BOOLEAN /\ use' \in {"none", "served", "refused"}
    BY <1>4 DEF Miss, RenewalTypeOK
  <2>2. /\ age' \in 0..Lifetime /\ first' \in 0..Lifetime
        /\ due' \in 0..(Period + Jitter) /\ run' \in 0..Delay
        /\ missed' \in 0..MaxMisses /\ reboots' \in 0..MaxReboots
    BY <1>4, Nats, SMT DEF Miss, RenewalTypeOK
  <2> QED BY <2>1, <2>2 DEF RenewalTypeOK
<1>5. CASE Reboot
  <2>1. running' \in BOOLEAN /\ use' \in {"none", "served", "refused"}
    BY <1>5 DEF Reboot, RenewalTypeOK
  <2>2. /\ age' \in 0..Lifetime /\ first' \in 0..Lifetime
        /\ due' \in 0..(Period + Jitter) /\ run' \in 0..Delay
        /\ missed' \in 0..MaxMisses /\ reboots' \in 0..MaxReboots
    BY <1>5, Nats, SMT DEF Reboot, RenewalTypeOK
  <2> QED BY <2>1, <2>2 DEF RenewalTypeOK
<1>6. CASE Use BY <1>6, SMT DEF Use, RenewalTypeOK
<1>7. CASE UNCHANGED renewalVars BY <1>7, SMT DEF renewalVars, RenewalTypeOK
<1> QED BY <1>1, <1>2, <1>3, <1>4, <1>5, <1>6, <1>7 DEF RenewalNext

\* The type invariant of the specification (TokenRenewal!TypeOK).
THEOREM TypeCorrect == RenewalSpec => []RenewalTypeOK
<1> QED BY InitTypes, TypeStep, PTL DEF RenewalSpec

LEMMA SpentIsNat == ASSUME RenewalTypeOK PROVE /\ missed * Cycle \in Nat
                                        /\ reboots * (Cycle + Delay) \in Nat
                                        /\ Spent \in Nat
<1>1. missed \in Nat /\ reboots \in Nat /\ Cycle + Delay \in Nat
  BY Nats, SMT DEF RenewalTypeOK
<1>2. missed * Cycle \in Nat /\ reboots * (Cycle + Delay) \in Nat
  BY <1>1, Nats, Product
<1> QED BY <1>2, SMT DEF Spent

LEMMA SpentIsBounded ==
  ASSUME RenewalTypeOK
  PROVE  Spent <= MaxMisses * Cycle + MaxReboots * (Cycle + Delay)
<1>1. missed \in Nat /\ missed <= MaxMisses /\ reboots \in Nat /\ reboots <= MaxReboots
  BY Nats, SMT DEF RenewalTypeOK
<1>2. Cycle \in Nat /\ Cycle + Delay \in Nat
  BY Nats, SMT
<1>3. missed * Cycle <= MaxMisses * Cycle
  BY <1>1, <1>2, Nats, Monotone
<1>4. reboots * (Cycle + Delay) <= MaxReboots * (Cycle + Delay)
  BY <1>1, <1>2, Nats, Monotone
<1>5. MaxMisses * Cycle \in Nat /\ MaxReboots * (Cycle + Delay) \in Nat
  BY <1>2, Nats, Product
<1> QED BY <1>3, <1>4, <1>5, SpentIsNat, SMT DEF Spent

\* What a failed run and a reboot add to the account.
LEMMA MissSpends ==
  ASSUME RenewalTypeOK, missed' = missed + 1, reboots' = reboots PROVE Spent' = Spent + Cycle
<1>1. Cycle' = Cycle BY DEF Cycle
<1>2. (missed + 1) * Cycle = missed * Cycle + Cycle
  BY NextProduct, Nats DEF RenewalTypeOK
<1> QED BY <1>1, <1>2, SpentIsNat, Nats, SMT DEF Spent

LEMMA RebootSpends ==
  ASSUME RenewalTypeOK, reboots' = reboots + 1, missed' = missed
  PROVE  Spent' = Spent + Cycle + Delay
<1>1. Cycle' = Cycle BY DEF Cycle
<1>2. Cycle + Delay \in Nat BY Nats, SMT
<1>3. (reboots + 1) * (Cycle + Delay) = reboots * (Cycle + Delay) + (Cycle + Delay)
  BY <1>2, NextProduct DEF RenewalTypeOK
<1> QED BY <1>1, <1>2, <1>3, SpentIsNat, Nats, SMT DEF Spent

LEMMA Unspent == ASSUME UNCHANGED <<missed, reboots>> PROVE Spent' = Spent
BY DEF Spent, Cycle

LEMMA Types == ASSUME RenewalTypeOK
               PROVE /\ age \in Nat /\ due \in Nat /\ due <= Cycle
                     /\ run \in Nat /\ run <= Delay /\ age <= Lifetime
BY Nats, SMT DEF RenewalTypeOK, Cycle

LEMMA AgeStep == ASSUME RenewalTypeOK, AgeInv, [RenewalNext]_renewalVars PROVE AgeInv'
<1> USE DEF AgeInv
<1> Cycle' = Cycle BY DEF Cycle
<1>1. CASE RenewalTick
  <2>1. age' <= age + 1 /\ age' \in Nat BY <1>1, Types, Nats, SMT DEF RenewalTick, Older
  <2>2. Spent' = Spent BY <1>1, Unspent DEF RenewalTick
  <2>3. due' = due - 1 /\ due > 0 /\ running' = running BY <1>1 DEF RenewalTick
  <2>4. CASE running
    <3>1. run' = run + 1 BY <1>1, <2>4 DEF RenewalTick
    <3> QED BY <2>1, <2>2, <2>3, <2>4, <3>1, Types, SpentIsNat, Nats, SMT
  <2>5. CASE ~running
    <3> QED BY <2>1, <2>2, <2>3, <2>5, Types, SpentIsNat, Nats, SMT
  <2> QED BY <2>4, <2>5
<1>2. CASE Fire
  <2>1. Spent' = Spent BY <1>2, Unspent DEF Fire
  <2>2. due = 0 /\ run' = 0 /\ age' = age BY <1>2 DEF Fire
  <2>3. due' \in Nat /\ Period <= due' /\ due' <= Cycle
    BY <1>2, Nats, SMT DEF Fire, Cycle
  <2>4. ~running
    <3> SUFFICES ASSUME running PROVE FALSE OBVIOUS
    <3>1. Period <= due + run OBVIOUS
    <3> QED BY <3>1, <2>2, Types, Nats, SMT
  <2>5. age <= Spent + (Cycle - due) BY <2>4
  <2>6. Period <= due' + run' /\ due' + run' <= Cycle
    <3>1. due' \in Nat BY <2>3
    <3>2. due' + 0 = due' BY <3>1, PlusZero, Zenon
    <3>3. run' = 0 BY <2>2
    <3> QED BY <2>3, <3>2, <3>3
  <2>7. age' <= Spent' + Cycle + run'
    <3>1. age <= Spent + Cycle BY <2>2, <2>5, Types, Nats, SMT
    <3> QED BY <2>1, <2>2, <3>1, Types, SpentIsNat, Nats, SMT
  <2>8. running' = TRUE BY <1>2 DEF Fire
  <2> QED BY <2>6, <2>7, <2>8
<1>3. CASE Renew
  <2>1. ~running' /\ age' = 0 /\ due' = due /\ missed' = 0 /\ reboots' = reboots
    BY <1>3 DEF Renew
  <2>2. 0 * Cycle = 0 BY Nats, SMT
  <2>3. Spent' = reboots * (Cycle + Delay)
    BY <2>1, <2>2, SpentIsNat, SMT DEF Spent
  <2>4. Spent' \in Nat BY <2>3, SpentIsNat
  <2> QED BY <2>1, <2>4, Types, Nats, SMT
<1>4. CASE Miss
  <2>1. ~running' /\ running /\ age' = age /\ due' = due BY <1>4 DEF Miss
  <2>2. Spent' = Spent + Cycle BY <1>4, MissSpends DEF Miss
  <2>3. due + run <= Cycle /\ age <= Spent + Cycle + run BY <2>1
  <2> QED BY <2>1, <2>2, <2>3, Types, SpentIsNat, Nats, SMT
<1>5. CASE Reboot
  <2>1. ~running' /\ age' = age BY <1>5 DEF Reboot
  <2>2. due' \in Nat /\ due' <= Cycle BY <1>5, Nats, SMT DEF Reboot, Cycle
  <2>3. Spent' = Spent + Cycle + Delay BY <1>5, RebootSpends DEF Reboot
  <2>4. age <= Spent + Cycle + Delay
    <3>1. CASE running BY <3>1, Types, SpentIsNat, Nats, SMT
    <3>2. CASE ~running BY <3>2, Types, SpentIsNat, Nats, SMT
    <3> QED BY <3>1, <3>2
  <2> QED BY <2>1, <2>2, <2>3, <2>4, Types, SpentIsNat, Nats, SMT
<1>6. CASE Use
  BY <1>6, Unspent DEF Use
<1>7. CASE UNCHANGED renewalVars
  BY <1>7, Unspent DEF renewalVars
<1> QED BY <1>1, <1>2, <1>3, <1>4, <1>5, <1>6, <1>7 DEF RenewalNext

LEMMA InitAge == ASSUME RenewalInit PROVE AgeInv
<1>1. RenewalTypeOK BY InitTypes
<1>2. ~running /\ age = 0 /\ due <= Cycle /\ due \in Nat
  BY Nats, SMT DEF RenewalInit, Cycle
<1> QED BY <1>1, <1>2, SpentIsNat, Nats, SMT DEF AgeInv

LEMMA Ages == RenewalSpec => [](RenewalTypeOK /\ AgeInv)
<1> QED BY InitTypes, InitAge, TypeStep, AgeStep, PTL DEF RenewalSpec

LEMMA AgeIsBounded == ASSUME RenewalTypeOK, AgeInv PROVE age <= Spent + Cycle + Delay
<1>1. CASE running BY <1>1, Types, SpentIsNat, Nats, SMT DEF AgeInv
<1>2. CASE ~running BY <1>2, Types, SpentIsNat, Nats, SMT DEF AgeInv
<1> QED BY <1>1, <1>2

LEMMA GoodIsServed == ASSUME ~Baked, age < Lifetime, [RenewalNext]_renewalVars, NeverRefused
                      PROVE  NeverRefused'
<1>1. CASE Use
  <2>1. presented < Lifetime BY DEF presented
  <2> QED BY <1>1, <2>1 DEF Use, NeverRefused
<1>2. CASE use' = use BY <1>2 DEF NeverRefused
<1> QED BY <1>1, <1>2 DEF RenewalNext, RenewalTick, Fire, Renew, Miss, Reboot, renewalVars

\* A credential that is read where it is published (~Baked) and lives LongEnough
\* is never refused, misses and reboots together.
THEOREM ServedWithMargin == ASSUME ~Baked, LongEnough PROVE RenewalSpec => []NeverRefused
<1>1. RenewalInit => NeverRefused BY DEF RenewalInit, NeverRefused
<1>2. ASSUME RenewalTypeOK, AgeInv, NeverRefused, [RenewalNext]_renewalVars PROVE NeverRefused'
  <2>1. Spent <= MaxMisses * Cycle + MaxReboots * (Cycle + Delay)
    BY <1>2, SpentIsBounded
  <2>2. age <= Spent + Cycle + Delay BY <1>2, AgeIsBounded
  <2>3. MaxMisses * Cycle \in Nat /\ MaxReboots * (Cycle + Delay) \in Nat
    <3>1. Cycle + Delay \in Nat BY Nats, SMT
    <3> QED BY <3>1, Nats, Product
  <2>4. age < Lifetime
    BY <1>2, <2>1, <2>2, <2>3, Types, SpentIsNat, Nats, SMT DEF LongEnough
  <2> QED BY <1>2, <2>4, GoodIsServed
<1> QED BY <1>1, <1>2, Ages, PTL DEF RenewalSpec

\* The margin of the timer alone, at any cadence: with a lifetime of more than
\* Tolerated + 1 periods and a run, no Tolerated failures in a row are noticed.
THEOREM MarginIsKept ==
  ASSUME ~Baked, Cycle + Tolerated * Cycle + Delay < Lifetime
  PROVE  RenewalSpec => MarginHolds
<1>1. ASSUME RenewalTypeOK, AgeInv, [RenewalNext]_renewalVars
      PROVE  [use # "refused" /\ use' = "refused" => missed > Tolerated \/ reboots > 0]_renewalVars
  <2> SUFFICES ASSUME NeverRefused, ~(missed > Tolerated), ~(reboots > 0)
               PROVE  NeverRefused'
    BY DEF NeverRefused
  <2>1. missed \in Nat /\ missed <= Tolerated /\ reboots = 0
    BY <1>1, Nats, SMT DEF RenewalTypeOK
  <2>2. missed * Cycle <= Tolerated * Cycle BY <2>1, Nats, Monotone
  <2>3. reboots * (Cycle + Delay) = 0 BY <2>1, Nats, SMT
  <2>4. age <= Spent + Cycle + Delay BY <1>1, AgeIsBounded
  <2>5. Tolerated * Cycle \in Nat /\ missed * Cycle \in Nat BY <2>1, Nats, Product
  <2>6. age < Lifetime
    <3>1. Spent = missed * Cycle BY <2>3, <2>5, SMT DEF Spent
    <3> QED BY <1>1, <2>2, <2>4, <2>5, <3>1, Types, Nats, SMT
  <2> QED BY <1>1, <2>6, GoodIsServed
<1> QED BY <1>1, Ages, PTL DEF RenewalSpec, MarginHolds
=============================================================================
