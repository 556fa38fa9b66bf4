---------------------------- MODULE BatchVerdict ----------------------------
(***************************************************************************)
(* What one batch of features promises, without its processes: features    *)
(* run one after the other and end somehow; the runner then believes       *)
(* something of every one of them, at one instant and either exactly what  *)
(* happened or, having heard nothing, that all passed; it gives its        *)
(* verdict, and no success before it believes anything.  RunBatch          *)
(* implements this with a goroutine, a socket and a channel.               *)
(***************************************************************************)
EXTENDS Integers

CONSTANT MaxFeatures

VARIABLES
  features,   \* how many features the batch holds
  ran,        \* feature -> its outcome
  believed,   \* feature -> the outcome the runner goes by, or Unknown
  verdict     \* "none", "ok", "error" or "crash"

vars == <<features, ran, believed, verdict>>

Outcomes == {"PASSED", "FAILED", "SKIPPED"}
All      == 1..MaxFeatures
Unknown  == [f \in All |-> "unknown"]

AllPassed == [f \in All |-> IF f <= features THEN "PASSED" ELSE "none"]

Init ==
  /\ features \in 1..MaxFeatures
  /\ ran = [f \in All |-> "none"]
  /\ believed = Unknown
  /\ verdict = "none"

\* A feature ends; none does once the runner has made up its mind.
Run(f, o) ==
  /\ verdict = "none" /\ believed = Unknown
  /\ f <= features /\ ran[f] = "none"
  /\ ran' = [ran EXCEPT ![f] = o]
  /\ UNCHANGED <<features, believed, verdict>>

\* The runner learns the outcomes: all of them, and none of them a failure.
LearnExactly ==
  /\ verdict = "none" /\ believed = Unknown
  /\ \A f \in All : f <= features => ran[f] \in {"PASSED", "SKIPPED"}
  /\ believed' = ran
  /\ UNCHANGED <<features, ran, verdict>>

Assume ==
  /\ verdict = "none" /\ believed = Unknown
  /\ believed' = AllPassed
  /\ UNCHANGED <<features, ran, verdict>>

Decide(v) ==
  /\ verdict = "none"
  /\ v = "ok" => believed # Unknown
  /\ verdict' = v
  /\ UNCHANGED <<features, ran, believed>>

Next ==
  \/ \E f \in All, o \in Outcomes : Run(f, o)
  \/ LearnExactly \/ Assume
  \/ \E v \in {"ok", "error", "crash"} : Decide(v)

Spec == Init /\ [][Next]_vars
=============================================================================
