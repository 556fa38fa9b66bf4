--------------------------- MODULE GoFeatureRunner ---------------------------
(***************************************************************************)
(* The Go harness through all the batches of one invocation of the runner: *)
(* the wait for the namespace of an external server                        *)
(* (WaitNamespaceAvailable), the loop over the features of a batch         *)
(* (harness/go/cmd/run.go) and the Runner of one feature                   *)
(* (harness/go/harness/runner.go), with the features that are registered   *)
(* once per process and keep what a batch wrote into their options.        *)
(*                                                                         *)
(* A feature's own functions are any sequence of the calls they may make   *)
(* of the Runner.  A client is named by the place it is dialed for, a      *)
(* worker by its client and a number.                                      *)
(***************************************************************************)
EXTENDS Integers, Sequences, FiniteSets

CONSTANTS
  Dirs,          \* features of the repository, by directory
  Variants,      \* names of variants, and "" where there is none
  Plans,         \* the invocations explored: sequences of batches
  MaxBatches,    \* bound: batches of an invocation, and
  MaxFeatures,   \* features of a batch
  MaxAttempts,   \* attempts RetryFor makes (600 in the code)
  MaxStarts      \* bound: workers the Runner of one feature makes

\* A batch is [variant, features]: only a variant's batch has a variant, and
\* then that one feature (makeRunBatches).
ASSUME GoFeatureRunnerAssumption ==
  /\ Plans \subseteq Seq([variant : Variants, features : Seq(Dirs)])
  /\ MaxBatches \in Nat /\ MaxFeatures \in Nat
  /\ \A p \in Plans :
        /\ Len(p) <= MaxBatches
        /\ \A i \in DOMAIN p :
              /\ Len(p[i].features) <= MaxFeatures
              /\ p[i].variant # "" => Len(p[i].features) = 1
  /\ MaxAttempts \in Nat \ {0} /\ MaxStarts \in Nat \ {0}

VARIABLES
  plan,        \* the batches; never changes
  flags,       \* the flags and the environment; never change
  registered,  \* what the features are registered as; never changes
  options,     \* directory -> ClientOptions of the PreparedFeature
  batch,       \* the batch of this harness, and
  at,          \* the feature its loop is at; 0 before the first
  pc,
  attempts,    \* of the RetryFor under way
  client,      \* Runner.Client (or myClient) and
  worker,      \* Runner.Worker: a name, or None
  starts,      \* workers this Runner has made
  dialed,      \* the options Client was dialed with
  clients,     \* clients that are open
  workers,     \* workers that poll
  again,       \* clients whose Close was called once too often
  err,         \* what the feature returns
  truth,       \* what became of each feature, in order
  entries,     \* the summary entries written
  result       \* of the harness, or of the one before

runnerVars == <<client, worker, starts, dialed, clients, workers, again>>
loopVars   == <<err, truth, entries, result>>
jobVars    == <<plan, flags, registered>>
vars == <<jobVars, options, batch, at, pc, attempts, runnerVars, loopVars>>

None    == <<>>
Unset   == [HostPort |-> 0, Namespace |-> 0, TLS |-> "unset"]
Clients == (1..MaxBatches) \X (0..MaxFeatures)
Workers == (1..MaxBatches) \X (0..MaxFeatures) \X (1..MaxStarts)

\* --server, the files of the TLS flags, WAIT_EXTRA_FOR_NAMESPACE, and whether
\* there is no --version nor --prepared-dir, so that batches share a process.
Flags == [external : BOOLEAN, cert : BOOLEAN, key : BOOLEAN, readable : BOOLEAN,
          waitExtra : BOOLEAN, inProcess : BOOLEAN]

\* With no certificate the CA file and the server name are not looked at.
LoadTLSConfig ==
  CASE flags.cert # flags.key          -> "error"
    [] flags.cert /\ ~flags.readable   -> "error"
    [] flags.cert /\ flags.readable    -> "tls"
    [] OTHER                           -> "none"

\* A dev server and a random namespace of each batch; or the given ones.
HostPort(b)  == IF flags.external THEN MaxBatches + 1 ELSE b
Namespace(b) == IF flags.external THEN MaxBatches + 1 ELSE b
Address(b)   == [HostPort |-> HostPort(b), Namespace |-> Namespace(b),
                 TLS |-> LoadTLSConfig]

Dir             == plan[batch].features[at]
SummaryName(i)  == <<plan[batch].features[i], plan[batch].variant>>

(***************************************************************************)
(* PrepareFeature derives the directory of a feature from its first        *)
(* workflow, unless the feature has a SkipReason: that one is registered   *)
(* with no directory, and the loop's search never comes upon it.           *)
(***************************************************************************)
Registrations == {"absent", "runs", "skipReason"}

\* PreparedFeature.Dir, or its zero value.
RegisteredDir(f) == IF registered[f] = "runs" THEN f ELSE ""

Found(d) == \E f \in Dirs : registered[f] # "absent" /\ RegisteredDir(f) = d

Init ==
  /\ plan \in Plans
  /\ flags \in {f \in Flags : f.readable \/ f.cert}
  /\ registered \in [Dirs -> Registrations]
  /\ options = [d \in Dirs |-> Unset]
  /\ batch = 0 /\ at = 0 /\ pc = "idle" /\ attempts = 0
  /\ client = None /\ worker = None /\ starts = 0 /\ dialed = Unset
  /\ clients = {} /\ workers = {} /\ again = {}
  /\ err = "none" /\ truth = <<>> /\ entries = <<>> /\ result = "none"

-----------------------------------------------------------------------------
(***************************************************************************)
(* The pieces of a Runner.                                                 *)
(***************************************************************************)
Dials(address) ==
  /\ client' = <<batch, at>> /\ dialed' = address
  /\ clients' = clients \cup {<<batch, at>>}
  /\ UNCHANGED <<worker, workers, again>>

\* StartWorker refuses while there is a worker, even one that never started.
CanStart == worker = None /\ starts < MaxStarts

NewWorker == <<batch, at, starts + 1>>

Starts ==
  /\ CanStart
  /\ worker' = NewWorker /\ starts' = starts + 1
  /\ workers' = workers \cup {NewWorker}
  /\ UNCHANGED <<client, dialed, clients, again>>

\* Runner.Worker is set before Start is called.
StartFails ==
  /\ CanStart
  /\ worker' = NewWorker /\ starts' = starts + 1
  /\ UNCHANGED <<client, dialed, clients, workers, again>>

StopsWorker ==
  /\ worker # None
  /\ worker' = None /\ workers' = workers \ {worker}
  /\ UNCHANGED <<client, starts, dialed, clients, again>>

\* Mutant: Close leaves Runner.Client as it is.
ForgetsNothing == UNCHANGED client

ForgetsClient == client' = None

ClosesClient ==
  /\ client # None
  /\ ForgetsClient
  /\ again' = IF client \in clients THEN again ELSE again \cup {client}
  /\ clients' = clients \ {client}
  /\ UNCHANGED <<worker, starts, dialed, workers>>

Goes(p) == pc' = p /\ attempts' = 0

-----------------------------------------------------------------------------
(***************************************************************************)
(* A batch begins.  An external server runs no variants, and only there is *)
(* WaitNamespaceAvailable called; its deferred calls stop the dummy worker *)
(* and then close the client, whatever it returns.                         *)
(***************************************************************************)
BatchStarts ==
  /\ pc = "idle" /\ batch < Len(plan) /\ result \in {"none", "ok"}
  /\ batch' = batch + 1 /\ at' = 0 /\ result' = "none"
  /\ truth' = <<>> /\ entries' = <<>>
  /\ options' = IF flags.inProcess THEN options ELSE [d \in Dirs |-> Unset]
  /\ Goes(CASE ~flags.external                    -> "summary"
            [] plan[batch'].variant # ""          -> "unreachable"
            [] LoadTLSConfig = "error"            -> "unreachable"
            [] OTHER                              -> "wait")
  /\ starts' = 0
  /\ UNCHANGED <<jobVars, client, worker, dialed, clients, workers, again, err>>

\* Mutant: one attempt more.
TriesLeftOneMore == attempts <= MaxAttempts

TriesLeft == attempts < MaxAttempts

AttemptFails ==
  /\ pc \in {"wait", "dummy"} /\ TriesLeft
  /\ attempts' = attempts + 1
  /\ \/ UNCHANGED runnerVars
     \/ /\ client = None
        /\ Dials(Address(batch)) /\ UNCHANGED starts
  /\ UNCHANGED <<jobVars, options, batch, at, pc, loopVars>>

\* The workflow that does not exist is not found: the namespace is there.
NamespaceAnswers ==
  /\ pc = "wait" /\ TriesLeft
  /\ IF client = None THEN Dials(Address(batch)) /\ UNCHANGED starts
                      ELSE UNCHANGED runnerVars
  /\ Goes(IF flags.waitExtra THEN "dummyStart" ELSE "available")
  /\ UNCHANGED <<jobVars, options, batch, at, loopVars>>

DummyStarts ==
  /\ pc = "dummyStart"
  /\ \/ Starts /\ Goes("dummy")
     \/ Goes("unreachable") /\ UNCHANGED runnerVars
  /\ UNCHANGED <<jobVars, options, batch, at, loopVars>>

DummyCompletes ==
  /\ pc = "dummy" /\ TriesLeft
  /\ Goes("available")
  /\ UNCHANGED <<jobVars, options, batch, at, runnerVars, loopVars>>

RetryForGivesUp ==
  /\ pc \in {"wait", "dummy"} /\ ~TriesLeft
  /\ Goes("unreachable")
  /\ UNCHANGED <<jobVars, options, batch, at, runnerVars, loopVars>>

Closing == {"available", "unreachable", "failed", "close", "closeAgain"}

\* Mutant: the client is closed before the worker has stopped.
NoWorkerNeeded == TRUE

WorkerGone == worker = None

ClosesInTurn ==
  /\ pc \in Closing
  /\ \/ StopsWorker
     \/ WorkerGone /\ ClosesClient
  /\ UNCHANGED <<jobVars, options, batch, at, pc, attempts, loopVars>>

Closed == worker = None /\ client = None

WaitReturns ==
  /\ pc \in {"available", "unreachable"} /\ Closed
  /\ IF pc = "available"
       THEN Goes("summary") /\ UNCHANGED result
       ELSE Goes("idle") /\ result' = "error"
  /\ UNCHANGED <<jobVars, options, batch, at, runnerVars, err, truth, entries>>

-----------------------------------------------------------------------------
(***************************************************************************)
(* The loop of cmd.Runner.Run.                                             *)
(***************************************************************************)
Returns(r) == Goes("idle") /\ result' = r

OpensSummary ==
  /\ pc = "summary"
  /\ \/ Goes("find") /\ at' = 1 /\ UNCHANGED result
     \/ Returns("error") /\ UNCHANGED at
  /\ UNCHANGED <<jobVars, options, batch, runnerVars, err, truth, entries>>

Finds ==
  /\ pc = "find" /\ at <= Len(plan[batch].features)
  /\ IF Found(Dir) THEN Goes("new") /\ UNCHANGED result
                   ELSE Returns("notFound")
  /\ starts' = 0 /\ err' = "none"
  /\ UNCHANGED <<jobVars, options, batch, at, client, worker, dialed, clients,
                 workers, again, truth, entries>>

\* Mutant: a server that an earlier batch has set stays.
OptionsKept(d) ==
  [HostPort  |-> IF options[d].HostPort = 0 THEN HostPort(batch) ELSE options[d].HostPort,
   Namespace |-> Namespace(batch),
   TLS       |-> IF LoadTLSConfig = "error" THEN options[d].TLS ELSE LoadTLSConfig]

OptionsFor(d) ==
  [HostPort  |-> HostPort(batch),
   Namespace |-> Namespace(batch),
   TLS       |-> IF LoadTLSConfig = "error" THEN options[d].TLS ELSE LoadTLSConfig]

\* NewRunner up to the client: an error of the certificates or of the dial.
NewDials ==
  /\ pc = "new" /\ LoadTLSConfig # "error"
  /\ options' = [options EXCEPT ![Dir] = OptionsFor(Dir)]
  /\ Dials(options'[Dir]) /\ UNCHANGED starts
  /\ Goes("newWorker")
  /\ UNCHANGED <<jobVars, batch, at, loopVars>>

NewFails ==
  /\ pc = "new"
  /\ options' = [options EXCEPT ![Dir] = OptionsFor(Dir)]
  /\ err' = "failed" /\ Goes("failed")
  /\ UNCHANGED <<jobVars, batch, at, runnerVars, truth, entries, result>>

NewStartsWorker ==
  /\ pc = "newWorker"
  /\ \/ Starts /\ Goes("execute") /\ UNCHANGED err
     \/ StartFails /\ Goes("failed") /\ err' = "failed"
  /\ UNCHANGED <<jobVars, options, batch, at, truth, entries, result>>

(***************************************************************************)
(* Runner.Run.  Execute stops and starts the worker as it likes, and       *)
(* returns a run, no run, an error or a skip, or a requirement panics.     *)
(***************************************************************************)
ExecuteStops ==
  /\ pc = "execute" /\ StopsWorker
  /\ UNCHANGED <<jobVars, options, batch, at, pc, attempts, loopVars>>

ExecuteStarts ==
  /\ pc = "execute"
  /\ Starts \/ StartFails
  /\ UNCHANGED <<jobVars, options, batch, at, pc, attempts, loopVars>>

NextStage == [execute |-> "result", result |-> "history"]

StagePasses ==
  /\ pc \in DOMAIN NextStage
  /\ Goes(NextStage[pc])
  /\ UNCHANGED <<jobVars, options, batch, at, runnerVars, loopVars>>

Outcomes == {"passed", "failed", "skipped", "panicked"}

\* The end of the last stage; also an Execute that returns no run and no error.
RunReturns(e) ==
  /\ pc \in {"execute", "result", "history"}
  /\ e = "passed" => pc # "result"
  /\ err' = e /\ Goes("close")
  /\ UNCHANGED <<jobVars, options, batch, at, runnerVars, truth, entries, result>>

\* The deferred Close of Runner.Run is done; runFeature has another one.
RunClosed ==
  /\ pc = "close" /\ Closed
  /\ Goes("closeAgain")
  /\ UNCHANGED <<jobVars, options, batch, at, runnerVars, loopVars>>

\* The deferred entry of a feature that panics says PASSED.
Outcome == IF err = "panicked" THEN "passed" ELSE err

\* Mutant: only the failure of the last feature counts.
LastDidNotFail(t) == t = <<>> \/ t[Len(t)] # "failed"

NoFailureIn(t) == \A i \in DOMAIN t : t[i] # "failed"

(***************************************************************************)
(* The feature's function returns, or unwinds: the entry is written.  The  *)
(* loop goes on after a failure and ends at a panic.                       *)
(***************************************************************************)
Reports ==
  /\ pc \in {"failed", "closeAgain"} /\ Closed
  /\ entries' = Append(entries, [name |-> SummaryName(at), outcome |-> Outcome])
  /\ truth' = Append(truth, err)
  /\ IF err = "panicked" THEN Returns("panic") /\ UNCHANGED at
     ELSE Goes("find") /\ at' = at + 1 /\ UNCHANGED result
  /\ UNCHANGED <<jobVars, options, batch, runnerVars, err>>

LoopEnds ==
  /\ pc = "find" /\ at > Len(plan[batch].features)
  /\ Returns(IF NoFailureIn(truth) THEN "ok" ELSE "error")
  /\ UNCHANGED <<jobVars, options, batch, at, runnerVars, err, truth, entries>>

Next ==
  \/ BatchStarts \/ AttemptFails \/ NamespaceAnswers \/ DummyStarts
  \/ DummyCompletes \/ RetryForGivesUp \/ WaitReturns \/ ClosesInTurn
  \/ OpensSummary \/ Finds \/ NewDials \/ NewFails \/ NewStartsWorker
  \/ ExecuteStops \/ ExecuteStarts \/ StagePasses
  \/ \E e \in Outcomes : RunReturns(e)
  \/ RunClosed \/ Reports \/ LoopEnds

Spec == Init /\ [][Next]_vars

-----------------------------------------------------------------------------
\* Type invariant of the harness: the Runner's fields name what it made.
TypeOK ==
  /\ plan \in Plans /\ flags \in Flags /\ registered \in [Dirs -> Registrations]
  /\ pc \in {"idle", "wait", "dummyStart", "dummy", "available", "unreachable",
             "summary", "find", "new", "newWorker", "execute", "result", "history",
             "failed", "close", "closeAgain"}
  /\ options \in [Dirs -> [HostPort : 0..MaxBatches + 1,
                          Namespace : 0..MaxBatches + 1,
                          TLS : {"unset", "none", "tls"}]]
  /\ batch \in 0..Len(plan) /\ at \in 0..MaxFeatures + 1
  /\ attempts \in 0..MaxAttempts /\ starts \in 0..MaxStarts
  /\ client \in Clients \cup {None} /\ worker \in Workers \cup {None}
  /\ clients \subseteq Clients /\ workers \subseteq Workers
  /\ err \in Outcomes \cup {"none"}
  /\ truth \in Seq(Outcomes) /\ Len(truth) <= MaxFeatures
  /\ entries \in Seq([name : Dirs \X Variants, outcome : Outcomes])
  /\ result \in {"none", "ok", "error", "notFound", "panic"}

\* Batches of one process share the registered features, and NewRunner writes the
\* server, the namespace and the TLS configuration into them (runner.go:92): the
\* client of a feature still is one of this batch's server.
DialsOwnServer == clients # {} => dialed = Address(batch)

\* Whatever a feature does with its worker, at most one polls its task queue, and
\* the client it polls with stays open until it has stopped (Close, StopWorker and
\* StartWorker of runner.go).
OneWorkerOnOpenClient ==
  /\ Cardinality(workers) <= 1
  /\ \A w \in workers : <<w[1], w[2]>> \in clients

\* Between two features and after the last, whatever failed or panicked, no client
\* and no worker of the harness is left, and no client was closed twice though
\* three deferred calls close a Runner.
NothingLeft ==
  /\ again = {}
  /\ pc \in {"idle", "summary", "find"} => clients = {} /\ workers = {}

\* The runner is told that the batch passed only when every feature has its entry,
\* in the order of the batch, that entry tells what became of the feature, and
\* none failed or panicked: a PASSED entry of a panic comes with no success.
PassedTrusted ==
  result = "ok" =>
    /\ Len(entries) = Len(plan[batch].features)
    /\ \A i \in DOMAIN entries :
          /\ entries[i] = [name |-> SummaryName(i), outcome |-> truth[i]]
          /\ truth[i] \in {"passed", "skipped"}

\* "If non-empty, this feature will be skipped without checking any other values."
\* (harness/go/harness/feature.go:81): a batch does not end because a feature with
\* a SkipReason is not found.
SkipReasonSkips == result = "notFound" => registered[Dir] = "absent"

=============================================================================
