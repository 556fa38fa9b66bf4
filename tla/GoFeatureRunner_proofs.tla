------------------------ MODULE GoFeatureRunner_proofs ------------------------
(***************************************************************************)
(* Proofs about GoFeatureRunner, for any invocation, any features and      *)
(* flags, and whatever a feature does with its Runner.                     *)
(*                                                                         *)
(* A Runner's fields name what it holds: the open client is Client's, the  *)
(* worker that polls is Worker's, and both were made for the feature the   *)
(* loop is at.  The entries are those of the features before it.           *)
(***************************************************************************)
EXTENDS GoFeatureRunner, FiniteSetTheorems, SequenceTheorems, TLAPS

-------------------------------------------------------------------------------
(* The inductive invariant *)

Waits     == {"wait", "dummyStart", "dummy", "available", "unreachable", "summary"}
InFeature == {"new", "newWorker", "execute", "result", "history", "failed", "close",
              "closeAgain"}

\* Where the harness is in its batch.
Where ==
  /\ pc # "idle" => batch # 0
  /\ pc \in Waits => at = 0
  /\ pc = "find" => at \in 1..(Len(plan[batch].features) + 1)
  /\ pc \in InFeature => at \in 1..Len(plan[batch].features)
  /\ pc \in {"failed", "close", "closeAgain"} => err # "none"

\* What a Runner holds is what its fields name, made for this batch and place.
Named ==
  /\ client # None => client = <<batch, at>> /\ dialed = Address(batch)
  /\ clients = {client} \ {None}
  /\ worker # None => client # None /\ <<worker[1], worker[2]>> = client
  /\ workers \subseteq {worker} \ {None}
  /\ again = {}

\* When it holds a client, and when no worker.
Held ==
  /\ pc \in {"idle", "summary", "find", "new"} => client = None
  /\ pc \in {"wait", "dummyStart", "newWorker"} => worker = None
  /\ pc \in {"dummyStart", "dummy", "newWorker", "execute"} => client # None

\* The entries are those of the features before this one.
Told ==
  /\ Len(entries) = Len(truth)
  /\ pc # "idle" => /\ result = "none"
                    /\ \A i \in 1..Len(truth) : truth[i] # "panicked"
  /\ pc \in Waits => Len(truth) = 0
  /\ pc \in InFeature \cup {"find"} => Len(truth) = at - 1
  /\ \A i \in 1..Len(truth) :
       /\ entries[i].name = SummaryName(i)
       /\ truth[i] # "panicked" => entries[i].outcome = truth[i]
  /\ result = "ok" => /\ Len(truth) = Len(plan[batch].features)
                      /\ \A i \in 1..Len(truth) : truth[i] \in {"passed", "skipped"}

IInv == TypeOK /\ Where /\ Named /\ Held /\ Told

-------------------------------------------------------------------------------
(* Types *)

LEMMA Bounds ==
  /\ MaxBatches \in Nat /\ MaxFeatures \in Nat /\ MaxAttempts \in Nat /\ MaxStarts \in Nat
  /\ \A p \in Plans : /\ p \in Seq([variant : Variants, features : Seq(Dirs)])
                      /\ Len(p) \in Nat /\ Len(p) <= MaxBatches /\ DOMAIN p = 1..Len(p)
                      /\ \A i \in DOMAIN p : Len(p[i].features) <= MaxFeatures
<1>1. MaxBatches \in Nat /\ MaxFeatures \in Nat /\ MaxAttempts \in Nat /\ MaxStarts \in Nat
  BY GoFeatureRunnerAssumption
<1>2. ASSUME NEW p \in Plans
      PROVE  /\ p \in Seq([variant : Variants, features : Seq(Dirs)])
             /\ Len(p) \in Nat /\ Len(p) <= MaxBatches /\ DOMAIN p = 1..Len(p)
             /\ \A i \in DOMAIN p : Len(p[i].features) <= MaxFeatures
  <2>1. p \in Seq([variant : Variants, features : Seq(Dirs)])
    BY GoFeatureRunnerAssumption
  <2>2. Len(p) <= MaxBatches
    BY GoFeatureRunnerAssumption
  <2>3. \A i \in DOMAIN p : Len(p[i].features) <= MaxFeatures
    BY GoFeatureRunnerAssumption
  <2>. QED  BY <2>1, <2>2, <2>3
<1>. QED  BY <1>1, <1>2

\* The batches of a plan.
LEMMA PlanFacts ==
  ASSUME TypeOK
  PROVE  /\ Len(plan) \in Nat /\ Len(plan) <= MaxBatches
         /\ \A b \in 1..Len(plan) :
              /\ plan[b].variant \in Variants /\ plan[b].features \in Seq(Dirs)
              /\ Len(plan[b].features) \in Nat /\ Len(plan[b].features) <= MaxFeatures
              /\ \A i \in 1..Len(plan[b].features) : plan[b].features[i] \in Dirs
<1>1. plan \in Seq([variant : Variants, features : Seq(Dirs)]) /\ Len(plan) <= MaxBatches
  BY Bounds DEF TypeOK
<1>2. Len(plan) \in Nat /\ DOMAIN plan = 1..Len(plan)
  BY Bounds DEF TypeOK
<1>3. ASSUME NEW b \in 1..Len(plan)
      PROVE  /\ plan[b].variant \in Variants /\ plan[b].features \in Seq(Dirs)
             /\ Len(plan[b].features) \in Nat /\ Len(plan[b].features) <= MaxFeatures
             /\ \A i \in 1..Len(plan[b].features) : plan[b].features[i] \in Dirs
  <2>1. plan[b] \in [variant : Variants, features : Seq(Dirs)]
    BY <1>1, ElementOfSeq
  <2>2. plan[b].variant \in Variants /\ plan[b].features \in Seq(Dirs)
    BY <2>1
  <2>3. Len(plan[b].features) \in Nat
    BY <2>2, LenProperties
  <2>4. Len(plan[b].features) <= MaxFeatures
    <3>1. plan \in Plans /\ b \in DOMAIN plan
      BY <1>2 DEF TypeOK
    <3>. QED  BY <3>1, Bounds
  <2>5. \A i \in 1..Len(plan[b].features) : plan[b].features[i] \in Dirs
    BY <2>2, ElementOfSeq
  <2>. QED  BY <2>2, <2>4
<1>. QED  BY <1>1, <1>2, <1>3

\* The feature the loop is at.
LEMMA AtFacts ==
  ASSUME TypeOK, Where, pc \in InFeature \cup {"find"}
  PROVE  /\ batch \in 1..Len(plan) /\ at \in Nat /\ at >= 1
         /\ Len(plan[batch].features) \in Nat /\ Len(plan[batch].features) <= MaxFeatures
         /\ at <= Len(plan[batch].features) => Dir \in Dirs
<1>1. batch \in 1..Len(plan)
  BY DEF TypeOK, Where, InFeature
<1>2. Len(plan[batch].features) \in Nat /\ Len(plan[batch].features) <= MaxFeatures
  BY <1>1, PlanFacts
<1>3. at \in Nat /\ at >= 1
  BY <1>2 DEF Where, InFeature
<1>4. at <= Len(plan[batch].features) => Dir \in Dirs
  BY <1>1, <1>3, PlanFacts DEF Dir
<1>. QED  BY <1>1, <1>2, <1>3, <1>4

\* A client is not None.
LEMMA ClientIsSome == \A c \in Clients : c # None
BY DEF Clients, None

LEMMA WorkerIsSome == \A w \in Workers : w # None
BY DEF Workers, None

\* NewRunner sets all of the options that a dial needs.
LEMMA OptionsOwn ==
  ASSUME TypeOK, NEW d \in Dirs
  PROVE  /\ OptionsFor(d) \in [HostPort : 0..MaxBatches + 1, Namespace : 0..MaxBatches + 1,
                               TLS : {"unset", "none", "tls"}]
         /\ LoadTLSConfig # "error" => OptionsFor(d) = Address(batch)
<1>1. options[d] \in [HostPort : 0..MaxBatches + 1, Namespace : 0..MaxBatches + 1,
                      TLS : {"unset", "none", "tls"}]
  BY DEF TypeOK
<1>2. LoadTLSConfig \in {"error", "tls", "none"}
  BY DEF LoadTLSConfig
<1>3. HostPort(batch) \in 0..MaxBatches + 1 /\ Namespace(batch) \in 0..MaxBatches + 1
  BY Bounds DEF HostPort, Namespace, TypeOK
<1>4. options[d].TLS \in {"unset", "none", "tls"}
  BY <1>1
<1>. QED  BY <1>2, <1>3, <1>4 DEF OptionsFor, Address

LEMMA TypeInit == Init => TypeOK
<1>. SUFFICES ASSUME Init PROVE TypeOK
  OBVIOUS
<1>1. batch \in 0..Len(plan)
  BY Bounds DEF Init
<1>2. options \in [Dirs -> [HostPort : 0..MaxBatches + 1, Namespace : 0..MaxBatches + 1,
                            TLS : {"unset", "none", "tls"}]]
  BY Bounds DEF Init, Unset
<1>3. truth = <<>> /\ entries = <<>> /\ Len(truth) = 0
  BY DEF Init
<1>. QED  BY <1>2, Bounds DEF Init, TypeOK

\* What the pieces of a Runner leave it with.
LEMMA RunnerTyped ==
  ASSUME TypeOK, batch \in 1..Len(plan), at \in 0..MaxFeatures,
         \/ \E a : Dials(a) /\ UNCHANGED starts
         \/ Starts \/ StartFails \/ StopsWorker \/ ClosesClient
         \/ UNCHANGED runnerVars
  PROVE  /\ starts' \in 0..MaxStarts
         /\ client' \in Clients \cup {None} /\ worker' \in Workers \cup {None}
         /\ clients' \subseteq Clients /\ workers' \subseteq Workers
<1>1. batch \in 1..MaxBatches /\ <<batch, at>> \in Clients
  <2>1. batch \in 1..MaxBatches
    BY PlanFacts, Bounds
  <2>. QED  BY <2>1 DEF Clients
<1>2. CASE \E a : Dials(a) /\ UNCHANGED starts
  BY <1>1, <1>2 DEF Dials, TypeOK
<1>3. CASE Starts \/ StartFails
  <2>1. starts \in 0..MaxStarts /\ starts + 1 \in 1..MaxStarts
    BY <1>3, Bounds DEF Starts, StartFails, CanStart, TypeOK
  <2>2. NewWorker \in Workers
    BY <1>1, <2>1 DEF NewWorker, Workers
  <2>. QED  BY <1>3, <2>1, <2>2 DEF Starts, StartFails, TypeOK
<1>4. CASE StopsWorker
  BY <1>4 DEF StopsWorker, TypeOK
<1>5. CASE ClosesClient
  BY <1>5 DEF ClosesClient, ForgetsClient, TypeOK
<1>6. CASE UNCHANGED runnerVars
  BY <1>6 DEF runnerVars, TypeOK
<1>. QED  BY <1>2, <1>3, <1>4, <1>5, <1>6

-------------------------------------------------------------------------------
(* The parts of the invariant *)

\* A batch begins with the wait or, the server being its own, with the summary.
LEMMA BatchGoes ==
  ASSUME BatchStarts
  PROVE  /\ pc = "idle" /\ batch < Len(plan) /\ result \in {"none", "ok"}
         /\ pc' \in {"summary", "unreachable", "wait"} /\ attempts' = 0
         /\ batch' = batch + 1 /\ at' = 0 /\ starts' = 0 /\ result' = "none"
         /\ truth' = <<>> /\ entries' = <<>>
         /\ options' = options \/ options' = [d \in Dirs |-> Unset]
         /\ UNCHANGED <<jobVars, client, worker, dialed, clients, workers, again, err>>
<1>. DEFINE p == CASE ~flags.external             -> "summary"
                   [] plan[batch'].variant # ""   -> "unreachable"
                   [] LoadTLSConfig = "error"     -> "unreachable"
                   [] OTHER                       -> "wait"
<1>1. p \in {"summary", "unreachable", "wait"}
  OBVIOUS
<1>2. pc' = p /\ attempts' = 0
  BY Zenon DEF BatchStarts, Goes
<1>. HIDE DEF p
<1>3. options' = IF flags.inProcess THEN options ELSE [d \in Dirs |-> Unset]
  BY Zenon DEF BatchStarts
<1>4. /\ pc = "idle" /\ batch < Len(plan) /\ result \in {"none", "ok"}
      /\ batch' = batch + 1 /\ at' = 0 /\ starts' = 0 /\ result' = "none"
      /\ truth' = <<>> /\ entries' = <<>>
      /\ UNCHANGED <<jobVars, client, worker, dialed, clients, workers, again, err>>
  BY Zenon DEF BatchStarts
<1>. QED  BY <1>1, <1>2, <1>3, <1>4

LEMMA WhereKept ==
  ASSUME TypeOK, Where, [Next]_vars
  PROVE  Where'
<1>. USE DEF Where, Waits, InFeature
<1>1. CASE BatchStarts
  BY <1>1, BatchGoes DEF TypeOK, jobVars
<1>2. CASE AttemptFails
  BY <1>2 DEF AttemptFails
<1>3. CASE NamespaceAnswers
  BY <1>3 DEF NamespaceAnswers, Goes
<1>4. CASE DummyStarts
  BY <1>4 DEF DummyStarts, Goes
<1>5. CASE DummyCompletes
  BY <1>5 DEF DummyCompletes, Goes
<1>6. CASE RetryForGivesUp
  BY <1>6 DEF RetryForGivesUp, Goes
<1>7. CASE WaitReturns
  BY <1>7 DEF WaitReturns, Goes
<1>8. CASE ClosesInTurn
  BY <1>8 DEF ClosesInTurn, jobVars, loopVars
<1>9. CASE OpensSummary
  BY <1>9 DEF OpensSummary, Goes, Returns
<1>10. CASE Finds
  BY <1>10 DEF Finds, Goes, Returns, jobVars
<1>11. CASE NewDials
  BY <1>11 DEF NewDials, Goes, jobVars
<1>12. CASE NewFails
  BY <1>12 DEF NewFails, Goes, jobVars
<1>13. CASE NewStartsWorker
  BY <1>13 DEF NewStartsWorker, Goes, jobVars
<1>14. CASE ExecuteStops
  BY <1>14 DEF ExecuteStops, jobVars
<1>15. CASE ExecuteStarts
  BY <1>15 DEF ExecuteStarts, jobVars
<1>16. CASE StagePasses
  BY <1>16 DEF StagePasses, Goes, NextStage, jobVars
<1>17. CASE \E e \in Outcomes : RunReturns(e)
  BY <1>17 DEF RunReturns, Goes, jobVars, Outcomes
<1>18. CASE RunClosed
  BY <1>18 DEF RunClosed, Goes, jobVars, loopVars
<1>19. CASE Reports
  BY <1>19 DEF Reports, Goes, Returns, jobVars
<1>20. CASE LoopEnds
  BY <1>20 DEF LoopEnds, Goes, Returns
<1>21. CASE UNCHANGED vars
  BY <1>21 DEF vars, jobVars, loopVars
<1>. QED  BY <1>1, <1>2, <1>3, <1>4, <1>5, <1>6, <1>7, <1>8, <1>9, <1>10, <1>11, <1>12,
      <1>13, <1>14, <1>15, <1>16, <1>17, <1>18, <1>19, <1>20, <1>21 DEF Next

LEMMA TypesKept ==
  ASSUME TypeOK, Where, Told, [Next]_vars
  PROVE  TypeOK'
<1>. USE DEF TypeOK
<1>1. CASE BatchStarts
  <2>1. truth' \in Seq(Outcomes) /\ Len(truth') <= MaxFeatures
        /\ entries' \in Seq([name : Dirs \X Variants, outcome : Outcomes])
    BY <1>1, BatchGoes, Bounds
  <2>2. batch' \in 0..Len(plan) /\ at' \in 0..MaxFeatures + 1 /\ attempts' \in 0..MaxAttempts
        /\ starts' \in 0..MaxStarts
    BY <1>1, BatchGoes, Bounds
  <2>3. options' \in [Dirs -> [HostPort : 0..MaxBatches + 1, Namespace : 0..MaxBatches + 1,
                               TLS : {"unset", "none", "tls"}]]
    BY <1>1, BatchGoes, Bounds DEF Unset
  <2>. QED  BY <1>1, <2>1, <2>2, <2>3, BatchGoes DEF jobVars
<1>2. CASE AttemptFails
  <2>1. batch \in 1..Len(plan) /\ at \in 0..MaxFeatures
    BY <1>2, Bounds DEF AttemptFails, Where, Waits
  <2>2. /\ starts' \in 0..MaxStarts
        /\ client' \in Clients \cup {None} /\ worker' \in Workers \cup {None}
        /\ clients' \subseteq Clients /\ workers' \subseteq Workers
    BY <1>2, <2>1, RunnerTyped DEF AttemptFails
  <2>3. attempts' \in 0..MaxAttempts
    BY <1>2, Bounds DEF AttemptFails, TriesLeft
  <2>. QED  BY <1>2, <2>2, <2>3 DEF AttemptFails, jobVars, loopVars
<1>3. CASE NamespaceAnswers
  <2>1. batch \in 1..Len(plan) /\ at \in 0..MaxFeatures
    BY <1>3, Bounds DEF NamespaceAnswers, Where, Waits
  <2>2. /\ starts' \in 0..MaxStarts
        /\ client' \in Clients \cup {None} /\ worker' \in Workers \cup {None}
        /\ clients' \subseteq Clients /\ workers' \subseteq Workers
    BY <1>3, <2>1, RunnerTyped DEF NamespaceAnswers
  <2>3. attempts' \in 0..MaxAttempts
    BY <1>3, Bounds DEF NamespaceAnswers, Goes
  <2>. QED  BY <1>3, <2>2, <2>3 DEF NamespaceAnswers, Goes, jobVars, loopVars
<1>4. CASE DummyStarts
  <2>1. batch \in 1..Len(plan) /\ at \in 0..MaxFeatures
    BY <1>4, Bounds DEF DummyStarts, Where, Waits
  <2>2. /\ starts' \in 0..MaxStarts
        /\ client' \in Clients \cup {None} /\ worker' \in Workers \cup {None}
        /\ clients' \subseteq Clients /\ workers' \subseteq Workers
    BY <1>4, <2>1, RunnerTyped DEF DummyStarts
  <2>3. attempts' \in 0..MaxAttempts
    BY <1>4, Bounds DEF DummyStarts, Goes
  <2>. QED  BY <1>4, <2>2, <2>3 DEF DummyStarts, Goes, jobVars, loopVars
<1>5. CASE DummyCompletes
  BY <1>5, Bounds DEF DummyCompletes, Goes, jobVars, loopVars, runnerVars
<1>6. CASE RetryForGivesUp
  BY <1>6, Bounds DEF RetryForGivesUp, Goes, jobVars, loopVars, runnerVars
<1>7. CASE WaitReturns
  BY <1>7, Bounds DEF WaitReturns, Goes, jobVars, runnerVars
<1>8. CASE ClosesInTurn
  <2>1. batch \in 1..Len(plan) /\ at \in 0..MaxFeatures
    BY <1>8, Bounds DEF ClosesInTurn, Where, Waits, InFeature, Closing
  <2>2. /\ starts' \in 0..MaxStarts
        /\ client' \in Clients \cup {None} /\ worker' \in Workers \cup {None}
        /\ clients' \subseteq Clients /\ workers' \subseteq Workers
    BY <1>8, <2>1, RunnerTyped DEF ClosesInTurn
  <2>. QED  BY <1>8, <2>2 DEF ClosesInTurn, jobVars, loopVars
<1>9. CASE OpensSummary
  BY <1>9, Bounds DEF OpensSummary, Goes, Returns, jobVars, runnerVars
<1>10. CASE Finds
  <2>1. /\ starts' \in 0..MaxStarts /\ attempts' \in 0..MaxAttempts
        /\ err' \in Outcomes \cup {"none"}
    BY <1>10, Bounds DEF Finds, Goes, Returns
  <2>. QED  BY <1>10, <2>1 DEF Finds, Goes, Returns, jobVars
<1>11. CASE NewDials
  <2>1. batch \in 1..Len(plan) /\ at \in 0..MaxFeatures
    BY <1>11, Bounds DEF NewDials, Where, Waits, InFeature
  <2>2. /\ starts' \in 0..MaxStarts
        /\ client' \in Clients \cup {None} /\ worker' \in Workers \cup {None}
        /\ clients' \subseteq Clients /\ workers' \subseteq Workers
    BY <1>11, <2>1, RunnerTyped DEF NewDials
  <2>3. attempts' \in 0..MaxAttempts
    BY <1>11, Bounds DEF NewDials, Goes
  <2>4. options' \in [Dirs -> [HostPort : 0..MaxBatches + 1, Namespace : 0..MaxBatches + 1,
                               TLS : {"unset", "none", "tls"}]]
    BY <1>11, OptionsOwn DEF NewDials
  <2>. QED  BY <1>11, <2>2, <2>3, <2>4 DEF NewDials, Goes, jobVars, loopVars
<1>12. CASE NewFails
  <2>1. options' \in [Dirs -> [HostPort : 0..MaxBatches + 1, Namespace : 0..MaxBatches + 1,
                               TLS : {"unset", "none", "tls"}]]
    BY <1>12, OptionsOwn DEF NewFails
  <2>. QED  BY <1>12, <2>1, Bounds DEF NewFails, Goes, jobVars, runnerVars, Outcomes
<1>13. CASE NewStartsWorker
  <2>1. batch \in 1..Len(plan) /\ at \in 0..MaxFeatures
    BY <1>13, Bounds DEF NewStartsWorker, Where, Waits, InFeature
  <2>2. /\ starts' \in 0..MaxStarts
        /\ client' \in Clients \cup {None} /\ worker' \in Workers \cup {None}
        /\ clients' \subseteq Clients /\ workers' \subseteq Workers
    BY <1>13, <2>1, RunnerTyped DEF NewStartsWorker
  <2>3. attempts' \in 0..MaxAttempts
    BY <1>13, Bounds DEF NewStartsWorker, Goes
  <2>. QED  BY <1>13, <2>2, <2>3 DEF NewStartsWorker, Goes, jobVars, Outcomes
<1>14. CASE ExecuteStops
  <2>1. batch \in 1..Len(plan) /\ at \in 0..MaxFeatures
    BY <1>14, Bounds DEF ExecuteStops, Where, Waits, InFeature
  <2>2. /\ starts' \in 0..MaxStarts
        /\ client' \in Clients \cup {None} /\ worker' \in Workers \cup {None}
        /\ clients' \subseteq Clients /\ workers' \subseteq Workers
    BY <1>14, <2>1, RunnerTyped DEF ExecuteStops
  <2>. QED  BY <1>14, <2>2 DEF ExecuteStops, jobVars, loopVars
<1>15. CASE ExecuteStarts
  <2>1. batch \in 1..Len(plan) /\ at \in 0..MaxFeatures
    BY <1>15, Bounds DEF ExecuteStarts, Where, InFeature
  <2>2. /\ starts' \in 0..MaxStarts
        /\ client' \in Clients \cup {None} /\ worker' \in Workers \cup {None}
        /\ clients' \subseteq Clients /\ workers' \subseteq Workers
    BY <1>15, <2>1, RunnerTyped DEF ExecuteStarts
  <2>. QED  BY <1>15, <2>2 DEF ExecuteStarts, jobVars, loopVars
<1>16. CASE StagePasses
  BY <1>16, Bounds DEF StagePasses, Goes, NextStage, jobVars, loopVars, runnerVars
<1>17. CASE \E e \in Outcomes : RunReturns(e)
  BY <1>17, Bounds DEF RunReturns, Goes, jobVars, runnerVars
<1>18. CASE RunClosed
  BY <1>18, Bounds DEF RunClosed, Goes, jobVars, loopVars, runnerVars
<1>19. CASE Reports
  <2>0. at \in 1..Len(plan[batch].features)
    BY <1>19 DEF Reports, Where, InFeature
  <2>1. batch \in 1..Len(plan) /\ at \in 1..Len(plan[batch].features) /\ Dir \in Dirs
        /\ plan[batch].variant \in Variants /\ Len(plan[batch].features) \in Nat
        /\ Len(plan[batch].features) <= MaxFeatures
    BY <1>19, <2>0, AtFacts, PlanFacts DEF Reports, InFeature
  <2>2. err \in Outcomes /\ Outcome \in Outcomes
    BY <1>19 DEF Reports, Where, Outcome, Outcomes
  <2>3. [name |-> SummaryName(at), outcome |-> Outcome]
          \in [name : Dirs \X Variants, outcome : Outcomes]
    BY <2>1, <2>2 DEF SummaryName, Dir
  <2>4. entries' \in Seq([name : Dirs \X Variants, outcome : Outcomes])
    BY <1>19, <2>3 DEF Reports
  <2>5. truth' \in Seq(Outcomes) /\ Len(truth') = Len(truth) + 1
    BY <1>19, <2>2 DEF Reports
  <2>6. Len(truth') <= MaxFeatures
    <3>1. Len(truth) = at - 1
      BY <1>19 DEF Reports, Told, InFeature
    <3>. QED  BY <2>1, <2>5, <3>1, Bounds
  <2>7. at' \in 0..MaxFeatures + 1 /\ attempts' \in 0..MaxAttempts
    <3>1. at' \in {at, at + 1} /\ attempts' = 0
      BY <1>19 DEF Reports, Goes, Returns
    <3>2. at \in Nat /\ at <= MaxFeatures /\ MaxFeatures \in Nat /\ MaxAttempts \in Nat
      BY <2>1, Bounds
    <3>. QED  BY <3>1, <3>2
  <2>8. pc' \in {"idle", "find"} /\ result' \in {result, "panic"}
    BY <1>19 DEF Reports, Goes, Returns
  <2>. QED  BY <1>19, <2>4, <2>5, <2>6, <2>7, <2>8 DEF Reports, jobVars, runnerVars
<1>20. CASE LoopEnds
  BY <1>20, Bounds DEF LoopEnds, Goes, Returns, jobVars, runnerVars
<1>21. CASE UNCHANGED vars
  BY <1>21 DEF vars, jobVars, loopVars, runnerVars
<1>. QED  BY <1>1, <1>2, <1>3, <1>4, <1>5, <1>6, <1>7, <1>8, <1>9, <1>10, <1>11, <1>12,
      <1>13, <1>14, <1>15, <1>16, <1>17, <1>18, <1>19, <1>20, <1>21 DEF Next

\* Naming a client, or a worker, names something.
LEMMA NamesAreSome ==
  /\ <<batch, at>> # None /\ NewWorker # None
  /\ NewWorker[1] = batch /\ NewWorker[2] = at
BY DEF None, NewWorker

\* A Runner's fields still name what it holds after each of its pieces.
LEMMA PiecesHold ==
  ASSUME TypeOK, Named, UNCHANGED <<batch, at, flags>>,
         \/ client = None /\ Dials(Address(batch)) /\ UNCHANGED starts
         \/ client # None /\ (Starts \/ StartFails)
         \/ StopsWorker
         \/ worker = None /\ ClosesClient
         \/ UNCHANGED runnerVars
  PROVE  Named'
<1>6. Address(batch)' = Address(batch)
  BY DEF Address, HostPort, Namespace, LoadTLSConfig
<1>1. CASE client = None /\ Dials(Address(batch)) /\ UNCHANGED starts
  BY <1>1, <1>6, NamesAreSome DEF Named, Dials
<1>2. CASE client # None /\ (Starts \/ StartFails)
  BY <1>2, <1>6, NamesAreSome DEF Named, Starts, StartFails, CanStart
<1>3. CASE StopsWorker
  BY <1>3, <1>6 DEF Named, StopsWorker
<1>4. CASE worker = None /\ ClosesClient
  BY <1>4 DEF Named, ClosesClient, ForgetsClient
<1>5. CASE UNCHANGED runnerVars
  BY <1>5, <1>6 DEF Named, runnerVars
<1>. QED  BY <1>1, <1>2, <1>3, <1>4, <1>5

LEMMA HeldKept ==
  ASSUME TypeOK, Where, Named, Held, [Next]_vars
  PROVE  Named' /\ Held'
<1>1. CASE BatchStarts
  <2>1. client = None /\ worker = None /\ UNCHANGED <<client, worker, clients, workers, again>>
    BY <1>1, BatchGoes DEF Named, Held
  <2>2. pc' \notin {"newWorker", "execute", "dummyStart", "dummy"}
    BY <1>1, BatchGoes
  <2>. QED  BY <2>1, <2>2 DEF Named, Held
<1>2. CASE AttemptFails
  <2>1. Named'
    BY <1>2, PiecesHold DEF AttemptFails, jobVars
  <2>2. /\ pc' \in {"idle", "summary", "find", "new"} => client' = None
        /\ pc' \in {"wait", "dummyStart", "newWorker"} => worker' = None
        /\ pc' \in {"dummyStart", "dummy", "newWorker", "execute"} => client' # None
    BY <1>2 DEF AttemptFails, Held, runnerVars, Dials
  <2>. QED  BY <2>1, <2>2 DEF Held
<1>3. CASE NamespaceAnswers
  <2>1. Named'
    BY <1>3, PiecesHold DEF NamespaceAnswers, jobVars
  <2>2. /\ pc' \in {"idle", "summary", "find", "new"} => client' = None
        /\ pc' \in {"wait", "dummyStart", "newWorker"} => worker' = None
        /\ pc' \in {"dummyStart", "dummy", "newWorker", "execute"} => client' # None
    BY <1>3, NamesAreSome DEF NamespaceAnswers, Goes, Held, runnerVars, Dials
  <2>. QED  BY <2>1, <2>2 DEF Held
<1>4. CASE DummyStarts
  <2>1. Named'
    BY <1>4, PiecesHold DEF DummyStarts, jobVars, Held
  <2>2. /\ pc' \in {"idle", "summary", "find", "new"} => client' = None
        /\ pc' \in {"wait", "dummyStart", "newWorker"} => worker' = None
        /\ pc' \in {"dummyStart", "dummy", "newWorker", "execute"} => client' # None
    BY <1>4 DEF DummyStarts, Goes, Held, Starts
  <2>. QED  BY <2>1, <2>2 DEF Held
<1>5. CASE DummyCompletes
  <2>1. Named'
    BY <1>5, PiecesHold DEF DummyCompletes, jobVars
  <2>2. /\ pc' \in {"idle", "summary", "find", "new"} => client' = None
        /\ pc' \in {"wait", "dummyStart", "newWorker"} => worker' = None
        /\ pc' \in {"dummyStart", "dummy", "newWorker", "execute"} => client' # None
    BY <1>5 DEF DummyCompletes, Goes
  <2>. QED  BY <2>1, <2>2 DEF Held
<1>6. CASE RetryForGivesUp
  <2>1. Named'
    BY <1>6, PiecesHold DEF RetryForGivesUp, jobVars
  <2>2. /\ pc' \in {"idle", "summary", "find", "new"} => client' = None
        /\ pc' \in {"wait", "dummyStart", "newWorker"} => worker' = None
        /\ pc' \in {"dummyStart", "dummy", "newWorker", "execute"} => client' # None
    BY <1>6 DEF RetryForGivesUp, Goes
  <2>. QED  BY <2>1, <2>2 DEF Held
<1>7. CASE WaitReturns
  <2>1. client = None /\ worker = None /\ UNCHANGED <<client, worker, clients, workers, again>>
    BY <1>7 DEF WaitReturns, Closed, runnerVars
  <2>2. pc' \notin {"newWorker", "execute", "dummyStart", "dummy"}
    BY <1>7 DEF WaitReturns, Goes
  <2>. QED  BY <2>1, <2>2 DEF Named, Held
<1>8. CASE ClosesInTurn
  <2>1. Named'
    BY <1>8, PiecesHold DEF ClosesInTurn, jobVars, WorkerGone
  <2>2. /\ pc' \in {"idle", "summary", "find", "new"} => client' = None
        /\ pc' \in {"wait", "dummyStart", "newWorker"} => worker' = None
        /\ pc' \in {"dummyStart", "dummy", "newWorker", "execute"} => client' # None
    BY <1>8 DEF ClosesInTurn, Closing
  <2>. QED  BY <2>1, <2>2 DEF Held
<1>9. CASE OpensSummary
  <2>1. client = None /\ worker = None /\ UNCHANGED <<client, worker, clients, workers, again>>
    BY <1>9 DEF Named, Held, OpensSummary, runnerVars
  <2>2. pc' \notin {"newWorker", "execute", "dummyStart", "dummy"}
    BY <1>9 DEF OpensSummary, Goes, Returns
  <2>. QED  BY <2>1, <2>2 DEF Named, Held
<1>10. CASE Finds
  <2>1. client = None /\ worker = None /\ UNCHANGED <<client, worker, clients, workers, again>>
    BY <1>10 DEF Named, Held, Finds
  <2>2. pc' \notin {"newWorker", "execute", "dummyStart", "dummy"}
    BY <1>10 DEF Finds, Goes, Returns
  <2>. QED  BY <2>1, <2>2 DEF Named, Held
<1>11. CASE NewDials
  <2>0. client = None /\ Dials(Address(batch)) /\ UNCHANGED starts
    <3>1. Dir \in Dirs
      BY <1>11, AtFacts DEF NewDials, Where, InFeature
    <3>2. options'[Dir] = OptionsFor(Dir) /\ OptionsFor(Dir) = Address(batch)
      BY <1>11, <3>1, OptionsOwn DEF NewDials, TypeOK
    <3>. QED  BY <1>11, <3>2 DEF NewDials, Held
  <2>1. Named'
    BY <1>11, <2>0, PiecesHold DEF NewDials, jobVars
  <2>2. /\ pc' \in {"idle", "summary", "find", "new"} => client' = None
        /\ pc' \in {"wait", "dummyStart", "newWorker"} => worker' = None
        /\ pc' \in {"dummyStart", "dummy", "newWorker", "execute"} => client' # None
    BY <1>11, <2>0, NamesAreSome DEF NewDials, Goes, Named, Dials
  <2>. QED  BY <2>1, <2>2 DEF Held
<1>12. CASE NewFails
  <2>1. Named'
    BY <1>12, PiecesHold DEF NewFails, jobVars
  <2>2. /\ pc' \in {"idle", "summary", "find", "new"} => client' = None
        /\ pc' \in {"wait", "dummyStart", "newWorker"} => worker' = None
        /\ pc' \in {"dummyStart", "dummy", "newWorker", "execute"} => client' # None
    BY <1>12 DEF NewFails, Goes
  <2>. QED  BY <2>1, <2>2 DEF Held
<1>13. CASE NewStartsWorker
  <2>1. Named'
    BY <1>13, PiecesHold DEF NewStartsWorker, jobVars, Held
  <2>2. /\ pc' \in {"idle", "summary", "find", "new"} => client' = None
        /\ pc' \in {"wait", "dummyStart", "newWorker"} => worker' = None
        /\ pc' \in {"dummyStart", "dummy", "newWorker", "execute"} => client' # None
    BY <1>13 DEF NewStartsWorker, Goes, Held, Starts
  <2>. QED  BY <2>1, <2>2 DEF Held
<1>14. CASE ExecuteStops
  <2>1. Named'
    BY <1>14, PiecesHold DEF ExecuteStops, jobVars
  <2>2. /\ pc' \in {"idle", "summary", "find", "new"} => client' = None
        /\ pc' \in {"wait", "dummyStart", "newWorker"} => worker' = None
        /\ pc' \in {"dummyStart", "dummy", "newWorker", "execute"} => client' # None
    BY <1>14 DEF ExecuteStops, Named, StopsWorker
  <2>. QED  BY <2>1, <2>2 DEF Held
<1>15. CASE ExecuteStarts
  <2>1. Named'
    BY <1>15, PiecesHold DEF ExecuteStarts, jobVars, Held
  <2>2. /\ pc' \in {"idle", "summary", "find", "new"} => client' = None
        /\ pc' \in {"wait", "dummyStart", "newWorker"} => worker' = None
        /\ pc' \in {"dummyStart", "dummy", "newWorker", "execute"} => client' # None
    BY <1>15 DEF ExecuteStarts, Held, Starts, StartFails
  <2>. QED  BY <2>1, <2>2 DEF Held
<1>16. CASE StagePasses
  <2>1. Named'
    BY <1>16, PiecesHold DEF StagePasses, jobVars
  <2>2. /\ pc' \in {"idle", "summary", "find", "new"} => client' = None
        /\ pc' \in {"wait", "dummyStart", "newWorker"} => worker' = None
        /\ pc' \in {"dummyStart", "dummy", "newWorker", "execute"} => client' # None
    BY <1>16 DEF StagePasses, Goes, NextStage
  <2>. QED  BY <2>1, <2>2 DEF Held
<1>17. CASE \E e \in Outcomes : RunReturns(e)
  <2>1. Named'
    BY <1>17, PiecesHold DEF RunReturns, jobVars
  <2>2. /\ pc' \in {"idle", "summary", "find", "new"} => client' = None
        /\ pc' \in {"wait", "dummyStart", "newWorker"} => worker' = None
        /\ pc' \in {"dummyStart", "dummy", "newWorker", "execute"} => client' # None
    BY <1>17 DEF RunReturns, Goes
  <2>. QED  BY <2>1, <2>2 DEF Held
<1>18. CASE RunClosed
  <2>1. Named'
    BY <1>18, PiecesHold DEF RunClosed, jobVars
  <2>2. /\ pc' \in {"idle", "summary", "find", "new"} => client' = None
        /\ pc' \in {"wait", "dummyStart", "newWorker"} => worker' = None
        /\ pc' \in {"dummyStart", "dummy", "newWorker", "execute"} => client' # None
    BY <1>18 DEF RunClosed, Goes
  <2>. QED  BY <2>1, <2>2 DEF Held
<1>19. CASE Reports
  <2>1. client = None /\ worker = None /\ UNCHANGED <<client, worker, clients, workers, again>>
    BY <1>19 DEF Reports, Closed, runnerVars
  <2>2. pc' \notin {"newWorker", "execute", "dummyStart", "dummy"}
    BY <1>19 DEF Reports, Goes, Returns
  <2>. QED  BY <2>1, <2>2 DEF Named, Held
<1>20. CASE LoopEnds
  <2>1. client = None /\ worker = None /\ UNCHANGED <<client, worker, clients, workers, again>>
    BY <1>20 DEF Named, Held, LoopEnds, runnerVars
  <2>2. pc' \notin {"newWorker", "execute", "dummyStart", "dummy"}
    BY <1>20 DEF LoopEnds, Goes, Returns
  <2>. QED  BY <2>1, <2>2 DEF Named, Held
<1>21. CASE UNCHANGED vars
  <2>1. Address(batch)' = Address(batch)
    BY <1>21 DEF vars, jobVars, Address, HostPort, Namespace, LoadTLSConfig
  <2>. QED  BY <1>21, <2>1 DEF vars, runnerVars, Named, Held
<1>. QED  BY <1>1, <1>2, <1>3, <1>4, <1>5, <1>6, <1>7, <1>8, <1>9, <1>10, <1>11, <1>12,
      <1>13, <1>14, <1>15, <1>16, <1>17, <1>18, <1>19, <1>20, <1>21 DEF Next

LEMMA ToldKept ==
  ASSUME TypeOK, Where, Told, [Next]_vars
  PROVE  Told'
<1>t. DOMAIN truth = 1..Len(truth) /\ Len(truth) \in Nat
  BY LenProperties DEF TypeOK
\* Nothing is reported, and the batch goes on or ends without success.
<1>0. ASSUME UNCHANGED <<plan, batch, truth, entries>>, pc # "idle",
             \/ /\ pc' # "idle" /\ at' = at /\ result' = result
                /\ pc' \in Waits => pc \in Waits
                /\ pc' \in InFeature \cup {"find"} => pc \in InFeature \cup {"find"}
             \/ pc \in Waits /\ pc' = "find" /\ at' = 1 /\ result' = result
             \/ pc' = "idle" /\ result' # "ok"
      PROVE  Told'
  BY <1>0 DEF Told, SummaryName, Waits, InFeature
<1>1. CASE BatchStarts
  <2>1. Len(truth') = 0 /\ Len(entries') = 0
    BY <1>1, BatchGoes
  <2>. QED  BY <1>1, BatchGoes DEF Told, InFeature
<1>2. CASE AttemptFails
  BY <1>0, <1>2 DEF AttemptFails, jobVars, loopVars
<1>3. CASE NamespaceAnswers
  BY <1>0, <1>3 DEF NamespaceAnswers, Goes, jobVars, loopVars, Waits, InFeature
<1>4. CASE DummyStarts
  BY <1>0, <1>4 DEF DummyStarts, Goes, jobVars, loopVars, Waits, InFeature
<1>5. CASE DummyCompletes
  BY <1>0, <1>5 DEF DummyCompletes, Goes, jobVars, loopVars, Waits, InFeature
<1>6. CASE RetryForGivesUp
  BY <1>0, <1>6 DEF RetryForGivesUp, Goes, jobVars, loopVars, Waits, InFeature
<1>7. CASE WaitReturns
  BY <1>0, <1>7 DEF WaitReturns, Goes, jobVars, Waits, InFeature
<1>8. CASE ClosesInTurn
  BY <1>0, <1>8 DEF ClosesInTurn, Closing, jobVars, loopVars
<1>9. CASE OpensSummary
  BY <1>0, <1>9 DEF OpensSummary, Goes, Returns, jobVars, Waits
<1>10. CASE Finds
  BY <1>0, <1>10 DEF Finds, Goes, Returns, jobVars, Waits
<1>11. CASE NewDials
  BY <1>0, <1>11 DEF NewDials, Goes, jobVars, loopVars, Waits, InFeature
<1>12. CASE NewFails
  BY <1>0, <1>12 DEF NewFails, Goes, jobVars, Waits, InFeature
<1>13. CASE NewStartsWorker
  BY <1>0, <1>13 DEF NewStartsWorker, Goes, jobVars, Waits, InFeature
<1>14. CASE ExecuteStops
  BY <1>0, <1>14 DEF ExecuteStops, jobVars, loopVars
<1>15. CASE ExecuteStarts
  BY <1>0, <1>15 DEF ExecuteStarts, jobVars, loopVars
<1>16. CASE StagePasses
  BY <1>0, <1>16 DEF StagePasses, Goes, NextStage, jobVars, loopVars, Waits, InFeature
<1>17. CASE \E e \in Outcomes : RunReturns(e)
  BY <1>0, <1>17 DEF RunReturns, Goes, jobVars, Waits, InFeature
<1>18. CASE RunClosed
  BY <1>0, <1>18 DEF RunClosed, Goes, jobVars, loopVars, Waits, InFeature
<1>19. CASE Reports
  <2>1. /\ Len(truth) = at - 1 /\ Len(entries) = Len(truth) /\ result = "none"
        /\ \A i \in 1..Len(truth) : /\ truth[i] # "panicked"
                                    /\ entries[i].name = SummaryName(i)
                                    /\ entries[i].outcome = truth[i]
    BY <1>19 DEF Reports, Told, InFeature
  <2>2. err \in Outcomes /\ (err # "panicked" => Outcome = err)
    BY <1>19 DEF Reports, Where, Outcome, TypeOK
  <2>3. /\ Len(truth') = at /\ Len(entries') = at /\ at \in Nat /\ at >= 1
        /\ truth'[at] = err /\ entries'[at] = [name |-> SummaryName(at), outcome |-> Outcome]
        /\ \A i \in 1..Len(truth) : truth'[i] = truth[i] /\ entries'[i] = entries[i]
    BY <1>19, <2>1 DEF Reports, TypeOK
  <2>4. UNCHANGED <<plan, batch>> /\ \A i : SummaryName(i)' = SummaryName(i)
    BY <1>19 DEF Reports, jobVars, SummaryName
  <2>5. \A i \in 1..at : i = at \/ i \in 1..Len(truth)
    BY <2>1, <2>3
  <2>6. \A i \in 1..at : /\ entries'[i].name = SummaryName(i)'
                         /\ truth'[i] # "panicked" => entries'[i].outcome = truth'[i]
    BY <2>1, <2>2, <2>3, <2>4
  <2>7. CASE err = "panicked"
    <3>1. pc' = "idle" /\ result' = "panic"
      BY <1>19, <2>7 DEF Reports, Goes, Returns
    <3>. QED  BY <2>3, <2>6, <3>1 DEF Told, Waits, InFeature
  <2>8. CASE err # "panicked"
    <3>1. pc' = "find" /\ result' = result /\ at' = at + 1
      BY <1>19, <2>8 DEF Reports, Goes
    <3>2. \A i \in 1..at : truth'[i] # "panicked"
      BY <2>1, <2>3, <2>8
    <3>. QED  BY <2>1, <2>3, <2>6, <3>1, <3>2 DEF Told, Waits
  <2>. QED  BY <2>7, <2>8
<1>20. CASE LoopEnds
  <2>1. pc = "find" /\ pc' = "idle" /\ result' = (IF NoFailureIn(truth) THEN "ok" ELSE "error")
        /\ at > Len(plan[batch].features) /\ UNCHANGED <<plan, batch, truth, entries>>
    BY <1>20 DEF LoopEnds, Goes, Returns, jobVars
  <2>2. CASE NoFailureIn(truth)
    <3>1. Len(truth) = Len(plan[batch].features)
      BY <2>1 DEF Told, Where
    <3>2. \A i \in 1..Len(truth) : truth[i] \in Outcomes /\ truth[i] \notin {"failed", "panicked"}
      BY <1>t, <2>1, <2>2, ElementOfSeq DEF NoFailureIn, Told, TypeOK
    <3>. QED  BY <2>1, <3>1, <3>2 DEF Told, SummaryName, Outcomes, Waits, InFeature
  <2>3. CASE ~NoFailureIn(truth)
    BY <1>0, <2>1, <2>3
  <2>. QED  BY <2>2, <2>3
<1>21. CASE UNCHANGED vars
  BY <1>21 DEF vars, jobVars, loopVars, Told, SummaryName
<1>. QED  BY <1>1, <1>2, <1>3, <1>4, <1>5, <1>6, <1>7, <1>8, <1>9, <1>10, <1>11, <1>12,
      <1>13, <1>14, <1>15, <1>16, <1>17, <1>18, <1>19, <1>20, <1>21 DEF Next

-------------------------------------------------------------------------------
(* The theorems *)

LEMMA InvInit == Init => IInv
<1>. SUFFICES ASSUME Init PROVE IInv
  OBVIOUS
<1>1. Where
  BY DEF Init, Where, InFeature
<1>2. Named /\ Held
  BY DEF Init, Named, Held
<1>3. Told
  <2>1. Len(truth) = 0 /\ Len(entries) = 0
    BY DEF Init
  <2>. QED  BY DEF Init, Told, InFeature
<1>. QED  BY <1>1, <1>2, <1>3, TypeInit DEF IInv

\* The inductive invariant holds through all the batches of an invocation,
\* whatever its features do and whatever fails.
THEOREM RunnerInvariant == Spec => []IInv
<1>1. IInv /\ [Next]_vars => IInv'
  BY TypesKept, WhereKept, HeldKept, ToldKept DEF IInv
<1>. QED  BY <1>1, InvInit, PTL DEF Spec

\* Types of the harness: a Runner's fields name clients and workers it made, and
\* the waits make no more than their attempts.
THEOREM RunnerTypeOK == Spec => []TypeOK
<1>1. IInv => TypeOK
  BY DEF IInv
<1>. QED  BY <1>1, RunnerInvariant, PTL

\* The client of a feature is one of its own batch's server, though batches of
\* one process share the options of the registered features (runner.go:92).
THEOREM OwnServerDialed == Spec => []DialsOwnServer
<1>1. ASSUME IInv PROVE DialsOwnServer
  BY <1>1 DEF IInv, Named, DialsOwnServer
<1>. QED  BY <1>1, RunnerInvariant, PTL

\* At most one worker of the harness polls, with a client that is open
\* (Close, StopWorker and StartWorker of runner.go).
THEOREM OneWorker == Spec => []OneWorkerOnOpenClient
<1>1. ASSUME IInv PROVE OneWorkerOnOpenClient
  <2>. USE <1>1 DEF IInv
  <2>1. workers = {} \/ workers = {worker}
    BY DEF Named
  <2>2. Cardinality(workers) <= 1
    <3>1. CASE workers = {}
      BY <3>1, FS_EmptySet
    <3>2. CASE workers = {worker}
      <4>1. Cardinality({worker}) = 1
        BY FS_Singleton, Zenon
      <4>. QED  BY <3>2, <4>1
    <3>. QED  BY <2>1, <3>1, <3>2
  <2>3. ASSUME NEW w \in workers PROVE <<w[1], w[2]>> \in clients
    BY DEF Named
  <2>. QED  BY <2>2, <2>3 DEF OneWorkerOnOpenClient
<1>. QED  BY <1>1, RunnerInvariant, PTL

\* Between features and after the last nothing is left open, and no client was
\* closed twice (the three deferred Closes of a Runner).
THEOREM NothingIsLeft == Spec => []NothingLeft
<1>1. ASSUME IInv PROVE NothingLeft
  BY <1>1 DEF IInv, Named, Held, NothingLeft
<1>. QED  BY <1>1, RunnerInvariant, PTL

\* A batch that is reported as passed has an entry of every feature in order,
\* each says what became of it, and none failed or panicked.
THEOREM PassedIsTrusted == Spec => []PassedTrusted
<1>1. ASSUME IInv, result = "ok"
      PROVE  /\ Len(entries) = Len(plan[batch].features)
             /\ \A i \in DOMAIN entries :
                   /\ entries[i] = [name |-> SummaryName(i), outcome |-> truth[i]]
                   /\ truth[i] \in {"passed", "skipped"}
  <2>. USE <1>1 DEF IInv
  <2>1. DOMAIN entries = 1..Len(truth) /\ Len(entries) = Len(truth)
    BY LenProperties DEF TypeOK, Told
  <2>2. ASSUME NEW i \in 1..Len(truth)
        PROVE  /\ entries[i] = [name |-> SummaryName(i), outcome |-> truth[i]]
               /\ truth[i] \in {"passed", "skipped"}
    <3>1. entries[i] \in [name : Dirs \X Variants, outcome : Outcomes]
      BY <2>1, ElementOfSeq DEF TypeOK
    <3>2. /\ entries[i].name = SummaryName(i) /\ entries[i].outcome = truth[i]
          /\ truth[i] \in {"passed", "skipped"}
      BY DEF Told
    <3>. QED  BY <3>1, <3>2
  <2>3. Len(truth) = Len(plan[batch].features)
    BY DEF Told
  <2>. QED  BY <2>1, <2>2, <2>3
<1>2. IInv => PassedTrusted
  BY <1>1 DEF PassedTrusted
<1>. QED  BY <1>2, RunnerInvariant, PTL

===============================================================================
