---------------------------- MODULE ServingWindow ----------------------------
(***************************************************************************)
(* measure-serving-window.py: oasgen writes a field into a CRD, and the    *)
(* API server serves the new schema only some time later.  The script      *)
(* samples both, one after the other, and subtracts the times at which it  *)
(* had first seen them.                                                    *)
(***************************************************************************)
EXTENDS Integers

CONSTANTS Sample,    \* the longest that one sample, a get and a dry-run, takes
          Interval,  \* --interval
          Seconds,   \* --seconds
          MaxFailed, MaxTime   \* bounds

ASSUME WindowAssumption ==
  /\ Sample \in Nat /\ Interval \in Nat /\ Seconds \in Nat
  /\ MaxFailed \in Nat /\ MaxTime \in Nat

VARIABLES
  time,
  schemaAt,  \* when the CRD got the field
  servedAt,  \* when the API server began to accept it
  watch      \* the script

windowVars == <<time, schemaAt, servedAt, watch>>

Never == MaxTime + 1

WindowInit ==
  /\ time = 0 /\ schemaAt = Never /\ servedAt = Never
  /\ watch = [pc |-> "loop", since |-> 0, in_schema |-> FALSE, hon |-> "none",
              first_schema |-> Never, first_honoured |-> Never, failed |-> 0, verdict |-> "none"]

(* --- the clock, oasgen and the API server ---------------------------------- *)

TimePasses ==
  /\ time < MaxTime
  /\ CASE watch.pc = "loop" -> time < watch.since
       [] watch.pc = "end"  -> FALSE
       [] OTHER             -> time < watch.since + Sample
  /\ time' = time + 1
  /\ UNCHANGED <<schemaAt, servedAt, watch>>

Written ==
  /\ schemaAt = Never /\ schemaAt' = time
  /\ UNCHANGED <<time, servedAt, watch>>

ServedNow ==
  /\ schemaAt # Never /\ servedAt = Never /\ servedAt' = time
  /\ UNCHANGED <<time, schemaAt, watch>>

(* --- the script ------------------------------------------------------------- *)

Goto(w, pc) == watch' = [w EXCEPT !.pc = pc] /\ UNCHANGED <<time, schemaAt, servedAt>>

\* Either leg of a sample may fail; the sample counts all the same.
crd_state ==
  /\ watch.pc = "get"
  /\ \/ Goto([watch EXCEPT !.in_schema = schemaAt # Never], "apply")
     \/ /\ watch.failed < MaxFailed
        /\ Goto([watch EXCEPT !.in_schema = FALSE, !.hon = "none", !.failed = @ + 1], "stamp")

\* Mutant: anything but the unknown field is taken for acceptance.
HonouredUnlessUnknown ==
  /\ watch.pc = "apply"
  /\ \/ Goto([watch EXCEPT !.hon = IF servedAt # Never THEN "accepted" ELSE "unknown field"],
             "stamp")
     \/ /\ watch.failed < MaxFailed
        /\ Goto([watch EXCEPT !.hon = "accepted", !.failed = @ + 1], "stamp")

honoured ==
  /\ watch.pc = "apply"
  /\ \/ Goto([watch EXCEPT !.hon = IF servedAt # Never THEN "accepted" ELSE "unknown field"],
             "stamp")
     \/ /\ watch.failed < MaxFailed
        /\ Goto([watch EXCEPT !.hon = "none", !.failed = @ + 1], "stamp")

\* Both are dated at the end of the sample.
stamp ==
  LET schema == IF watch.in_schema /\ watch.first_schema = Never THEN time
                ELSE watch.first_schema
      hon == IF watch.hon = "accepted" /\ watch.first_honoured = Never THEN time
             ELSE watch.first_honoured
      now == [watch EXCEPT !.first_schema = schema, !.first_honoured = hon,
                           !.since = time + Interval]
  IN /\ watch.pc = "stamp"
     /\ IF Never \notin {schema, hon} THEN Goto([now EXCEPT !.verdict = "0"], "end")
        ELSE Goto(now, "loop")

loop ==
  /\ watch.pc = "loop" /\ time = watch.since
  /\ CASE time < Seconds             -> Goto([watch EXCEPT !.since = time], "get")
       [] watch.first_schema = Never -> Goto([watch EXCEPT !.verdict = "2"], "end")
       [] OTHER                      -> Goto([watch EXCEPT !.verdict = "1"], "end")

WindowNext ==
  \/ TimePasses \/ Written \/ ServedNow
  \/ crd_state \/ honoured \/ stamp \/ loop

WindowSpec == WindowInit /\ [][WindowNext]_windowVars

-----------------------------------------------------------------------------
gap == watch.first_honoured - watch.first_schema

\* How far a reading is from the event: from within one sample to the end of the next,
\* and a round for every sample that failed.
Resolution == 2 * Sample + Interval + watch.failed * (Sample + Interval)

\* The number that is printed is the window of the API server, to within its
\* resolution; no window is reported for a field that was not there to be served, and
\* none is called larger than what was watched of it but for samples that failed.
\* (A gap of nothing may come out as less than nothing: the schema is looked at first.)
MeasuresTheWindow ==
  /\ watch.verdict = "0" => /\ servedAt # Never
                            /\ gap - (servedAt - schemaAt) \in -Resolution..Resolution
  /\ watch.verdict = "2" => schemaAt + Resolution >= watch.since
  /\ watch.verdict = "1" => servedAt + Resolution >= watch.since
=============================================================================
