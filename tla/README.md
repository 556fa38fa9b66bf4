# Verification of the SDK features runner

This directory specifies and verifies the program that runs the SDK features:
the command `features run` (`cmd/run.go`), the language harnesses it starts
(`harness/`), and what lies between them. The features themselves
(`features/`) are that program's input.

## The system

`features run` groups the features to run into batches (one for the features
without variants, one for each variant), and executes the batches one by one.
For a batch it acquires a server, Nexus endpoints, perhaps an HTTP CONNECT
proxy, and a TCP listener; it then runs the harness of one language, which runs
the batch's features in order and, for some languages, reports an entry per
feature over a TCP connection. When the harness has ended, the runner takes the
report, compares the proxy's counters and compares the histories of the
features' workflows with those stored in the repository.

| component | state | operations | interacts with | hard behaviour |
| --- | --- | --- | --- | --- |
| `Runner.Run`, `runBatch` | config, environment, program, deferred calls | one batch after the other, acquire, release | all others | every acquisition can fail; a signal may come at any moment |
| signal goroutine | – | remove the temporary directory, exit | `r.program`, unsynchronised | a signal during a build |
| dev server, Nexus endpoints | servers and endpoints that exist | start, create, delete, stop | release order | partial failure, denial, timeouts |
| summary server | listener, socket, entries read, channel | accept, read, hand over | harness, main thread | accept races close; EOF; read errors |
| language harnesses (7) | position in the feature list, failures | run a feature, report, exit | summary server, proxy | early exits, exit status, panics, no report |
| HTTP CONNECT proxy | two counters, open tunnels | accept, authenticate, tunnel, count | SDK clients, main thread | half-open tunnels, failures after hijack |
| history check | stored files, executions listed, histories fetched | list, fetch, replay, compare, store | server visibility, code of the workflows | listings that lag behind, order of histories, torn files |
| Go feature runner | client, worker, options of the registered features | wait for the namespace, create, run, check, close | server, summary server | shared options, releases reached from several places, panics |
| features about worker versions | two workers, routing, one workflow | start and stop workers, route, signal, query | server, workers | propagation, waits, workflow IDs shared by features |
| program builders, `prepare` | directories, one of them shared by name | seven sequences of steps, clean up | toolchains, other processes | failure half-way, processes that are killed, steps whose failure nobody sees |
| feature selection | patterns, configs | glob, filter, group | – | patterns, versions, variants |
| feature runners of the other SDKs | client, worker | run, check | server | worker and workflow race |
| other commands | – | images, versions | docker, git, HTTP | sequential I/O |

What makes each component correct is stated as properties below, or is in the
plan.

## Modules

| module | what it is | about |
| --- | --- | --- |
| `RunBatch` | one batch, from the open summary listener to the return of `runBatch` | three processes: main thread, `summaryServer` goroutine, language harness |
| `BatchVerdict` | the abstract specification of a batch | no processes, no socket; `RunBatch` implements it (`KeepsVerdict`) |
| `RunnerLifecycle` | a whole run: acquire, harness, release, signals | `BatchDecides` stands for a `RunBatch` |
| `HTTPConnectProxy` | the proxy, its handlers and copiers, clients and targets | `RunBatch` has its two counters |
| `HistoryCheck` | the histories of a feature over several runs: visibility, fetch, replay, comparison, files | `RunBatch` has its outcome (`SingleHistory`) |
| `GoFeatureRunner` | the Go harness through all batches of a run: namespace, clients, workers, summary entries | the harness `"go"` and `"golocal"` of `RunBatch`, from inside |
| `VersionedRouting` | the ten Go features about worker versions, beside server and workers | what a feature's `Execute` does in `GoFeatureRunner` |
| `ProgramBuilds` | the seven program builders, `prepare`, `--prepared-dir`, over processes that share a directory | `RunnerLifecycle` has one build of one process |
| `MCRunBatch`, `MCHistoryCheck`, `MCGoFeatureRunner`, `MCVersionedRouting`, `MCProgramBuilds` | instances for TLC | values that a `.cfg` cannot write, and symmetry |
| `RunBatch_proofs`, `RunnerLifecycle_proofs`, `HTTPConnectProxy_proofs`, `HistoryCheck_proofs`, `GoFeatureRunner_proofs`, `VersionedRouting_proofs`, `ProgramBuilds_proofs` | theorems | TLAPS, every value of the constants |

The seven components are specified apart, for their states multiply. They meet
in these places:

- `RunnerLifecycle` runs batches; `RunBatch` is one batch between `Listen` and the
  first deferred call. What `RunnerLifecycle` assumes of it is that it ends, well
  or not (`BatchReturns`), and that its endings mean something (`BatchVerdict`).
- `RunBatch` compares the counters of the proxy after the harness has ended.
  `CountedWhenUsed` is what makes that comparison sound: a client that has heard
  from its target is counted.
- `RunBatch` has a harness write entries, in order and with true outcomes until a
  panic. `PassedTrusted` of `GoFeatureRunner` shows that of the Go harness, whose
  loop, deferred entry and panics it has in detail.
- `HandleHistory` of `RunBatch` is a run of `HistoryCheck` from `LoadAll` on.
- `BuildStarts`, `BuildSucceeds` and `BuildFails` of `RunnerLifecycle` are a `run` of
  `ProgramBuilds`; whether its builder cleans up when it fails is `StepFails`.

### RunBatch

*State.* `hState`, `hResult`, `next`, `outcome` are the harness: the position
of its loop over the features and what became of each feature. `conn`, `wire`,
`wireEnd` are the TCP connection to `--summary-uri`. `sPc`, `read`, `chan` are
the goroutine `summaryServer`: its position, its local `summary`, the channel.
`mPc`, `listener`, `received`, `report`, `hIdx`, `hist`, `result` are `runBatch`
from `net.Listen` on. `job` is what cannot change: language, variant, which
features have stored histories, `--no-history-check`, `--generate-history`.

*Actions.*

| actions | code |
| --- | --- |
| `HarnessNotBuilt` … `HarnessFinishes` | the loops in `harness/go/cmd/run.go`, `Main.java`, `main.ts`, `main.py`, `runner.rb`, `App.cs`, `runner.php`, and the processes around them (`cmd/run_*.go`) |
| `ServerAccepts`, `ServerNotAccepting`, `ServerReads`, `ServerSeesEOF`, `ServerReadFails` | `Runner.summaryServer` |
| `HarnessReturned`, `ReceiveSummary`, `ReceiveNothing` | the switch on the language, `l.Close()`, `summary, ok := <-summaryChan`, `rewriteVariantSummary` |
| `CheckProxy` | the comparison of the proxy's counters with `config.json` |
| `HandleHistory`, `HistoryClientFails`, `HistoryDone` | `handleHistory`, `handleSingleHistory` |

The harnesses share their actions. What distinguishes them is in the records
`GoHarness` … `PhpHarness`: whether they report, by which name, whether they can
skip, and what they do with a feature they know nothing of. `"golocal"` is the
Go harness in the runner's own process: there a panic of a feature is a panic of
the runner.

*Names.* The runner looks a feature up by `SummaryName()` (directory and
variant), external harnesses report by `Dir`. The model keeps both as pairs, so
a lookup can miss; `RewriteVariantSummary` is what makes it hit.

### RunnerLifecycle

*State.* `pc` is the main thread, `defers` the stack of deferred calls of
`runBatch`, `local` its copy of the config, `config` the runner's, `saved` what
the deferred restore puts back, `env` the environment variable with the
namespace capabilities. `servers`, `endpoints`, `orphans`, `proxyUp`,
`listening`, `tempDir` are what exists outside. A server, a capability set and
an endpoint bear the number of the batch they belong to: whether a batch is
given another batch's is then visible.

*Actions.* One per acquisition, in the order of `runBatch`, each with its
failure; `createNexusEndpoints` is a loop (`CreateEndpoint`, `…Denied`,
`…Fails`) with its `cleanup` closure (`DeleteEndpoint`) reached from three
places; one action per deferred call, taken from the end of `defers`.
`SignalDestroys` and `SignalExits` are the signal goroutine: between the two the
main thread goes on. `orphans` are endpoints that exist though nobody will
delete them: a create that timed out but took effect, or a delete that failed.
The runner only logs them. The properties say where there can be any: after a
run on a server given by `--server` alone, since a dev server takes them with it
(`ReturnReleasesAll`), and beside a harness only if the batch has no Nexus feature
left (`NexusReady`).

### HTTPConnectProxy

*State.* For each connection: the handler's place, what the client was told,
which ends are open, to which the proxy closed, and per direction the packets
sent, on the wire, in a goroutine's hand, and delivered. `tunneled` holds the
two counters.

*Actions.* `Hijack` … `ForwardFirst` follow the handler; `CopyRead`,
`CopyWrite`, `CopyEnd` are the two `io.Copy` goroutines, of which only the one
towards the client closes the target. `Panic` is a failing read or write in the
handler: `net/http` recovers, and the hijacked connection stays open. Clients
and targets may send, hang up and stay silent at any time.

### HistoryCheck

*State.* `files` and `kept` are the files `history.<lang>.<version>.json` and
what they hold: absent, stored, or torn by a process that stopped between
`os.WriteFile`'s truncation and its write. `run`, `conf` and `code` are one run:
its flags and SDK version, and the revision of each workflow's code, which may
change from run to run. `open` and `vis` are the server: which executions have
not closed, and what visibility shows of each, which is written later. `rows`,
`due`, `polls`, `fetched` are the `Fetcher`; `who` says for whom it fetches, the
default check of the Go harness or `handleSingleHistory`.

A history is what tells two of them apart after `ScrubRunSpecificFields`: type,
input, revision of the code. With it go the run it is of (a scrubbed field) and
whether it is whole.

*Actions.* `ListingStarts`, `RowArrives`, `ListingEnds` are `GetExecutions` page
by page while visibility moves on, so a row may come twice with two statuses;
`Fetched` fetches and sorts; `ReplayHistories` is the rest of
`CheckHistoryDefault`; `LoadAll`, `Compare`, `StoreTruncates`, `StoreWrites` are
`handleSingleHistory` and `Storage`; `ServerFails` and `Killed` may come anywhere.

### GoFeatureRunner

*State.* `options` are the `ClientOptions` of the registered features, which
outlive a batch when batches share a process (`flags.inProcess`). `client`,
`worker` are the fields of a `Runner`, `clients`, `workers` what really is open:
the two differ after a failure, and that is what the properties are about.
`truth` is what became of each feature, `entries` what the summary says.

*Actions.* `AttemptFails` … `RetryForGivesUp` are `WaitNamespaceAvailable` inside
`RetryFor`, with its dummy worker; `NewDials`, `NewFails`, `NewStartsWorker` are
`NewRunner`; `ExecuteStops`, `ExecuteStarts` are what a feature may do to its
worker in any order; `ClosesInTurn` is one step of `Close`, which is reached from
`NewRunner`, `Run` and `runFeature`; `Reports` is the deferred entry, written even
while a panic unwinds.

### VersionedRouting

*State.* `at` is how far the feature is in its script, `first` and `second` the
runner's worker and the one beside it, `rules` and `active` the routing that was
set and that which has propagated, `sets` the compatible sets of build IDs, `wf`
the workflow, `leftover` what an earlier feature left under `"workflow_1"`.

*Actions.* A script is a sequence of steps, one step for each call in the
feature's `Execute` that has an effect or waits; an action for each kind of step.
Beside the feature act the server (`Registers`, `Propagates`, `Enqueues`) and the
workers (`TakesTask`, `TakesPart`). The server may be at fault: with `astray` it
serves versions it should not, without `faithful` not the one it should.

Sleeps and waits end whether or not what they are for has happened: `Sleeps` has no
guard but its place, `GivesUp` ends any wait of `DoUntilEventually` and
`QueryUntilEventually` that is not met, `SeesNoAnswer` is `MustTimeoutQuery` when its
three seconds are over, `TimesOut` the execution time-out. `timely` is a history
variable that no action reads: it remembers whether each of these found nothing
under way (`Quiet`), or for the sleep, the first task queued. Properties whose truth
hangs on time-outs being long enough have it as a premise.

### ProgramBuilds

*State.* `disk` is every directory: what it holds, which SDK a step resolved for
it, for which version it was made and how many steps have passed. `pc`, `cmd` and
`kind` are the processes: `prepare`, `run` and `run --prepared-dir`.

*Actions.* A builder is the sequence of its steps (`GoBuild` … `RubyBuild`), each
with what it makes and what a failure of it does. `Prepares` is `os.Mkdir` and the
beginning of a build, `StepPasses`, `StepIgnored`, `StepFails` go through it,
`BuildReturns` looks whether what `NewCommand` needs is there, `Killed` stops a
process anywhere. `RunsPrepared` trusts the marker that `…ProgramFromDir` looks for.

## What the runs check

Twelve runs. Seven pass; five refute a statement that a comment makes.

**`batch`** (`RunBatch.cfg`). Eight ways to run a harness, one or two features,
with or without variant, every combination of stored histories and flags, a
socket that may break.

- `SummaryExact`: a summary that is received names each feature of the batch, in
  order, under the name by which it is looked up, with its true outcome. It fails
  if the server stops at the end of the harness instead of the end of the
  stream.
- `SuccessMeansPassed`: a batch without error means that every feature passed or
  was skipped. This rests on the exit status alone, for four of the harnesses do
  not report, and even those that do may not be heard. PHP and .NET are exempt by
  `ExitStatusFaithful`; `success_means_run` is about them.
- `SuccessMeansVerified`: a batch without error compared each passed feature that
  has stored histories, i.e. no lookup by name came up empty.
- `SkipsLeftAlone`: with a summary, no history is asked for a skipped feature
  (there would be none, and the check would wait for it).
- `ProxyVerified`: with a summary, the tunnels are exactly those which the
  features that passed ask for.
- `BatchReturns`: the receive from `summaryChan` always ends.
- `KeepsVerdict`: what the runner goes by changes once, to the exact outcomes or
  to "all passed", and success comes after that (refinement of `BatchVerdict`).

**`lifecycle`** (`RunnerLifecycle.cfg`). A run of up to three batches: every
acquisition may fail, and a signal may come in every state.

- `ReturnReleasesAll`: a run that returns leaves no server, proxy or listener, no
  config and environment of a batch, no temporary program unless it is to be
  retained (or a PHP build failed). An endpoint it can leave, on a server given by
  `--server`: one whose deletion failed, or whose creation was reported as failed
  and took effect.
- `HarnessOnOwnServer`: the harness is given the server and capabilities of its own
  batch, whatever the batches before it did. A batch starts from `r.config`,
  which an earlier batch has overwritten and put back.
- `NexusReady`: each Nexus feature in the batch has its endpoint, and no other
  endpoint of the batch is there while the harness runs. The exception: when creation
  is denied at the second endpoint, the first is deleted and no Nexus feature stays
  in the batch; if that deletion fails, the endpoint stays.
- `ProgramOnDisk`: a program built in the first batch is there in the others.
- `EndpointsGoFirst`: a server is stopped after its endpoints are deleted and
  after the config which names it is taken back.
- `RunEnds`: `cleanup` and the loops around it end.

**`proxy`** (`HTTPConnectProxy.cfg`). A connection with three packets each way,
against a client and a target that close any time. Several connections are left
to the theorems.

- `CountedWhenUsed`: the count is made after the answer, so a client can be told
  "established" and not be counted yet. But one that has heard from its target
  is counted, which is what the comparison in `runBatch` needs.
- `ClientSpeaksFirst`: the target's first packet does not overtake the client's.
- `StreamsInOrder`: the hand-over from the handler to the copier loses, doubles
  and reorders nothing.
- `TunnelCarries`: while both ends stay, everything sent arrives.

**`history`** (`HistoryCheck.cfg`). Two runs of a feature with two executions,
any flags, SDK version and code of the workflows in each; visibility lags behind,
rows repeat, calls fail, the process is killed.

- `OnlyWholeHistories`: nothing is compared, replayed or stored of an execution
  that is still open, and no execution that visibility showed is missing or there
  twice.
- `VerdictIsRight`: a mismatch means that code changed, success that it did not,
  where the check can tell: executions of one type are alike, and none was
  missing, now or when the file was stored.
- `OldHistoriesReplay`: past the harness's check, every stored version up to the
  SDK's replays on the code of this run.
- `TornNeverPasses`: no run that meets a torn file ends well.
- `GenerationUnderCheckChangesNothing`: without `--no-history-check` a generation
  adds a version or writes the same again.

**`go_runner`** (`GoFeatureRunner.cfg`). One batch of two features, or three
batches of one, in one process or several, own or external server.

- `DialsOwnServer`: a client is one of this batch's server, though the registered
  features keep the options of the batch before.
- `OneWorkerOnOpenClient`: at most one worker polls, and the client it polls with is
  open until it stops.
- `NothingLeft`: between features and at the end no client and worker is left, and
  none was closed twice, though three deferred calls close a `Runner`.
- `PassedTrusted`: success means an entry for every feature, in order, each true
  and none a failure; a panic, whose entry says PASSED, brings no success.

**`versioned_routing`** (`VersionedRouting.cfg`). All ten features, a right server
and servers that serve wrong versions or withhold the right one, with what an
earlier feature left, and any sleep or time-out too short.

- `NoFalseAlarm`: if no sleep or time-out was too short, a server that is right and
  reports propagation fails none of the features, but for `routing_pinned` and
  `unversioned_worker_gets_unversioned_task`; these fail only if their first task was
  not taken by their first worker (see *Observations*). The sleep of a second must
  have seen the first task queued, and the ten seconds of a wait must have been
  enough for the server to propagate: in the code both are a matter of time, and a
  server that is slower does fail the feature.
- `MisroutingDetected`: a worker that must get nothing and does is found out, though
  the features look only through a query that must time out, by any error. The
  premise is that the three seconds were enough for an answer.
- `WithholdingDetected`: a server that does not serve the right worker is found out,
  unless it serves, by another fault, each version that the feature wants to see.
  The reverse of the property above: there the proof is an answer that does not
  come, here one that does, or the result of the workflow.
- `PassIsItsOwn`: a feature that expects version 1.0 never passes on the workflow of
  an earlier one, though they share an ID.
- `FeatureEnds`: no wait is without end, whatever the server routes wrongly or never
  does, and whether or not any worker acts: the waits of a feature end by their
  own time-outs. Only the wait for the result is ended by the server, which keeps
  the execution time-out of the workflow.

**`builds`** (`ProgramBuilds.cfg`). Three processes, seven languages, three kinds
of versions; each step may fail, each process be killed.

- `RunsAskedSDK`: the harness runs against the SDK version which the build of its
  directory was asked for. Not Python (`requested_sdk`), and not Java: a
  directory killed before `settings.gradle` resolves any release.
- `HalfBuiltNeverRuns`: a prepare that failed, was killed or is still at work gives
  no harness that runs, though the marker which `FromDir` looks for is the first
  thing it writes. Go, .NET, PHP, and Ruby unless the SDK is a path; for the
  others what `NewCommand` needs is there before the last step.

**Refuted statements**

| run | statement | what happens |
| --- | --- | --- |
| `reporting_harness_heard` | the summary server handles a single incoming connection | `l.Close()` before `Accept`: the connection in the backlog is lost; the runner falls back to "all passed", which is right unless features were skipped |
| `success_means_run` | `Run` runs all matching features | PHP returns with status 0 when it cannot connect and ignores a feature it has no class for; .NET leaves its loop with status 0 |
| `cleaned_on_ctrl_c` | the temporary directory is cleaned on ctrl-c | during a build `r.program` is nil, so its directory stays |
| `skip_reason_skips` | a Go feature with a `SkipReason` is skipped | it is registered without its directory and never found; the batch ends with "not found" |
| `requested_sdk` | a version that is given is the one used | `BuildPythonProgram` drops the result of `uv add temporalio==…` |

A last word on `reporting_harness_heard`: `SummaryExact` says *received ⇒
exact*, so the runner never goes by a wrong summary. It goes by a missing one.

## Bounds

| constant | value | why it is enough |
| --- | --- | --- |
| `MaxFeatures` (batch) | 2 | order, a feature after a failed one, an entry lost at the end; the theorems hold for all |
| `MaxTunnels` | 2 | one connection too many for a feature that expects one |
| `Expect` | feature 1: one unauthenticated | one feature with and one without expectation, one kind of each |
| `Langs` | all | the harness records differ in pairs only in what is listed |
| `MaxVariants` | 2 | default, variant, variant: config put back twice, a variant with and one without capabilities; the theorems hold for all |
| `MaxNexus` | 2 | failure at the second endpoint, when the first must be deleted; the theorems hold for all |
| `Builders` | 3 | all classes |
| `Conns`, `MaxPackets` | 1 and 3 | a first packet, one in hand, one on the wire; connections share the counters only, and the theorems are about any number of them |
| `NumExecs`, `NumTypes`, `Inputs` | 2 | alike, of one type and not alike, of two types in either order; the theorems hold for all |
| `Revisions`, `Replayable` | 2, forwards | code that replays old histories, but not the other way round |
| `Versions`, `MaxRuns` | 2 | a version below, at and above the SDK's; what one run stores the next one meets |
| `MaxPolls`, `MaxRepeats` | 2 and 1 | a listing that is refused and one that is taken; a row with both statuses |
| `Plans`, `MaxBatches`, `MaxFeatures` (Go harness) | 2; 3 and 2 | features of one batch, and one feature of two batches after another; the theorems are about any plans |
| `MaxAttempts`, `MaxStarts` | 2 and 3 | an attempt that fails and one that succeeds or none; a worker stopped and started again (`RetryFor` makes 600 attempts) |
| `Features`, `Faults` (routing) | all ten; no version, each one, `{1.0, 2.0}` and `{1.0, 1.1, 1.2}` | straying to one version is what each property is about; the two larger sets are the ones by which a server that withholds the right worker can still pass. The theorems hold for any sets |
| `Kinds`, `Procs` (builds) | 3 and 3 | the kinds that builders tell apart; a prepare, another one and a run of its directory. Processes are symmetric; the theorems are about any number |

These are the only bounds. The counters of the proxy are natural numbers, not
`uint32`.

`CHECK_DEADLOCK FALSE` is said where a system may really stop: clients may leave
the proxy idle for ever; a series of runs, batches, a feature and processes come to
their end (`HistoryCheck`, `GoFeatureRunner`, `VersionedRouting`,
`ProgramBuilds`). `RunBatch` and `RunnerLifecycle` have an explicit `Terminated`.

## Fairness

- `RunBatch`: weak fairness of each of the three processes. A feature's workflow has
  an execution timeout, which makes the harness go on; the other two are
  goroutines.
- `RunnerLifecycle`: weak fairness of the main thread: calls to servers have
  timeouts, and a batch returns once its harness has ended (`BatchReturns`). That a
  build and a harness process end is assumed; the code sets no limit to either. None
  of signals.
- `HTTPConnectProxy`: weak fairness of each handler and copier; none of clients,
  targets and `Close`. `TunnelCarries` therefore excuses a tunnel of which an
  end has gone.
- `VersionedRouting`: weak fairness of the feature's goroutine, and of the
  workflow's execution time-out (`TimesOut`), which is a timer of the server. None of
  the rest of the server, nor of the workers: `Registers`, `Propagates`, `Enqueues` and
  the tasks may never happen. A wait is then ended by `GivesUp`, the ten seconds
  of `DoUntilEventually` or the time-out of a query, which is a step of the goroutine.
- The other three have no fairness and no liveness property.

## Proofs

### RunBatch_proofs

For every number of features, every set of harnesses and every expectation of
tunnels (`RunBatchAssumption` is all that is assumed):

| theorem | states |
| --- | --- |
| `TypeCorrect` | `Spec => []TypeOK` |
| `Invariance` | `Spec => []IInv` |
| `SummaryCorrect` | `Spec => []SummaryExact` |
| `SuccessPassed` | `Spec => []SuccessMeansPassed` |
| `SuccessVerified` | `Spec => []SuccessMeansVerified` |
| `SkipsRespected` | `Spec => []SkipsLeftAlone` |
| `ProxyIsVerified` | `Spec => []ProxyVerified` |
| `LostInBacklog` | a summary that is not received has its connection in the backlog, or the connection broke |
| `EveryStepCounts` | each step lowers `StepsLeft`, which starts at `3 * MaxFeatures + 11` |
| `NobodyIsStuck` | until `runBatch` has returned, one of the three processes can take a step |
| `Refinement` | `Spec => KeepsVerdict` |

None of the properties is inductive. `SummaryExact` speaks of the instant when
main holds a report; what makes it true happened earlier, in the harness and in
the socket. `IInv` strings that together:

- `Control`: where the three processes can be at once; e.g. main is past
  `"harness"` only when the harness has exited well.
- `Socket`: how the connection, the server and the harness go together; a server
  that reads has a connection, one in `"send"` has seen the end of it.
- `Loop`: features before `next` have an outcome and those after have none,
  unless the harness ignores some; a harness that exited well came to the end
  and failed none, unless its exit status is not faithful.
- `Stream`: `read \o wire` is the sequence of entries of the features run so far
  (the core: at EOF `wire` is empty, so `read` is all of it). After a panic the
  last entry is wrong (deferred, still PASSED), but then the harness did not
  exit well and main never receives.
- `Report`: the report is either that sequence under the looked-up names, or
  "all passed".
- `History`: a feature before `hIdx` has the outcome of `handleHistory` that its
  report entry implies.

The proof that `Next` preserves `IInv` has a lemma for each conjunct and
process. `ProxyIsVerified` needs one more invariant: past the comparison the
counters are still those that were compared (`Compared`), for no connection is
tunneled after the harness has ended. The sum that the code makes over the report
is the sum over the features that passed, since the report has each feature once
(`ExpectedOfTrueReport`). `LostInBacklog` is the reverse of the finding about
`ReportingHarnessHeard`: it shows that the race of `Accept` with `l.Close()` is the
only way to lose a summary of a connection that holds (`Dialed`: a harness that
runs has a connection; `Settled`: a goroutine that accepted one ends by handing its
summary over). `EveryStepCounts` and `NobodyIsStuck` are the finite half of
`BatchReturns`: a batch takes a bounded number of steps, and before the last one
somebody can always go on, since main waits for the goroutine only with the
listener closed (`Rendezvous`). What is left to liveness is that a process that can
go on does. `Refinement` shows that the initial states map to initial states, and
that each step maps to a step of `BatchVerdict` or a stutter, by process. The
mapping's only definition is `Believed`, read off `report`.

### RunnerLifecycle_proofs

For any number of variants and of Nexus features and any of the builders
(`LifecycleAssumption`):

| theorem | states |
| --- | --- |
| `LifecycleTypeOK` | `Spec => []TypeOK` |
| `LifecycleInvariant` | `Spec => []IInv` |
| `ReturnReleases` | `Spec => []ReturnReleasesAll` |
| `HarnessHasItsServer` | `Spec => []HarnessOnOwnServer` |
| `NexusEndpointsReady` | `Spec => []NexusReady` |
| `ProgramStays` | `Spec => []ProgramOnDisk` |
| `EndpointsFirst` | `Spec => EndpointsGoFirst` |
| `RunIsFinite` | each step lowers `StepsLeft`, which starts at `(2 * MaxNexus + 16) * Batches + 3` |

The properties speak of the return, or of the harness; what makes them true is
the stack of deferred calls in between. `IInv` says, of a process that was not
killed:

- `Deferred`: a server, a proxy, a listener exist exactly while their release is on
  the stack; the stack is in the order of acquisition (`Rank`), holds nothing that
  the main thread has not come to (`Depth`), and all that it has passed.
- `Endpoints`: the endpoints there are, are those `cleanup` knows of, a run of
  consecutive numbers it takes from the front; none is left once `cleanup` is off
  the stack.
- `Orphaned`: on a dev server an orphan is of the batch under way, whose server is
  still to be stopped; on another server the endpoints of this batch are
  among the orphans only if no Nexus feature is left. Hence the last conjuncts of
  `ReturnReleasesAll` and `NexusReady`.
- `Settings`: while the restoring call is on the stack the runner's config is the
  batch's, and what is saved is the original; otherwise it is the original.
- `OnDisk`: where the temporary directory can be without a program, and the other
  way round.

Two lemmas about stacks (`Push`, `Pop`) say what a step does to what is held; each
conjunct then has a lemma with one step per action. `EndpointsFirst` is an action
property: only `StopDevServer` takes a server away, and when its call is the last
of the stack, those of higher rank are gone. `RunIsFinite` counts the steps: those of
the batches to come, and of this one those of the places ahead, where one that
acquires something counts double, as does an endpoint still to be created, since
both are released later. That a denied creation goes back to where endpoints are
created costs nothing, for it has fewer to delete than it had to create.

### HTTPConnectProxy_proofs

For every finite set of connections and every number of packets
(`ProxyAssumption`):

| theorem | states |
| --- | --- |
| `TypeCorrect` | `Spec => []TypeOK` |
| `Invariance` | `Spec => []IInv` |
| `CountsInTime` | `Spec => []CountedWhenUsed` |
| `ClientFirst` | `Spec => []ClientSpeaksFirst` |
| `PacketsInOrder` | `Spec => []StreamsInOrder` |
| `NoPacketStrands` | while both ends stay and the client has spoken, some goroutine can move a packet that has not arrived |

Its `IInv` has four parts beside the types:

- `Handlers`: answer, open ends and copiers follow from the handler's place.
- `Counters`: a counter is the number of the connections of its kind whose handler
  is past the addition. What the clients saw lies on either side of that.
- `Streams`: what was got is `1, 2, ...`, and while the receiver stays (or nothing
  was sent) got, hand and wire together are all that was sent. The property
  says nothing of hand and wire, so it is not inductive. A receiver that comes
  late, the target at `Dial`, finds the pipe empty; `Speech` says why.
- `Speech`: a client sends only when it was answered, a target only when it was
  dialed, and a handler that is forwarding holds a packet.

The packets are dealt with in three lemmas about sequences alone (`PipeSend`,
`PipeTake`, `PipeDeliver`). `NoPacketStrands` is the safety half of `TunnelCarries`.
By `Streams` a packet that has not arrived is in a copier's hand or on the wire; what
is missing is that the goroutine and the connection it needs are still there
(`Intact`): the proxy closes its side of a target only after an end has left, so
while both stay nothing of an established tunnel is shut and no copier is done.
`Moves` names the step, by the guards of the action that takes it.

### ProgramBuilds_proofs

For any number of processes, any versions and any of the languages
(`ProgramBuildsAssumption`):

| theorem | states |
| --- | --- |
| `ProgramBuildsTypeOK` | `Spec => []TypeOK` |
| `InvStep` | `IInv /\ [Next]_vars => IInv'` |
| `RunsTheAskedSDK` | `Spec => []RunsAskedSDK` |
| `HalfBuiltDirNeverRuns` | `Spec => []HalfBuiltNeverRuns` |

What a harness looks at is what a directory holds; what the properties are about
is how far its build came. `IInv` relates the two:

- `Contents`: of each directory, what it holds bounds the steps that have passed:
  what the last step makes is there only if all have passed, and an SDK is
  resolved only past the step that does it, and is then the one asked for.
- `Builders`: a process that builds, builds in its own directory or, as a
  `prepare`, in the shared one, for the version the directory was made for.
- `OnePrepares`: at most one process builds in the shared directory. This is
  `os.Mkdir`, which refuses a directory that exists, and what makes `Contents`
  hold of it: no two builders' steps mix.
- `Harnesses`: a harness runs where what it needs is there.

All steps but the kill change one process and one directory; `Moves` names that
change, and one lemma (`MovesKeep`) reduces the invariant to that process and that
directory. What remains are facts about the seven sequences of steps.

### HistoryCheck_proofs

For any number of executions, types, versions, runs and listings, any features and
any relation of which revision replays on which (`HistoryAssumption`):

| theorem | states |
| --- | --- |
| `HistoryInvariant` | `Spec => []IInv` |
| `HistoryTypeOK` | `Spec => []TypeOK` |
| `FetchedAreWhole` | `Spec => []OnlyWholeHistories` |
| `OldHistoriesDoReplay` | `Spec => []OldHistoriesReplay` |
| `TornIsNoticed` | `Spec => []TornNeverPasses` |
| `GenerationIsSafe` | `Spec => GenerationUnderCheckChangesNothing` |
| `VerdictRight` | `Spec => []VerdictIsRight` |

The properties speak of what was fetched, stored or replaced. `IInv` has what was
found out before:

- `Listing`: visibility never shows a close that did not happen, so a row that says
  closed names a closed execution; no execution has two rows (the length of what
  was fetched is then a cardinality, by a bijection); past the listing all rows are
  closed and cover what was due.
- `Whole`: it carries that into what was fetched, and into the files.
- `Untorn`: between `LoadAll` and `StoreTruncates` no file is torn, while one is
  written it is the only one, and a run that is about to store has found nothing
  that differs. The proof that a generation is safe is this and two steps.
- `Places`: who fetches, that a run under way has no result, and that a listing
  begins only in time.

`VerdictRight` rests on two more. `Ordered`: every set of histories, fetched or
stored, is of different executions and sorted by type. Two such sets of all
executions then agree in their types position by position, by a pigeonhole
argument (`NotLess`): if the i-th of one came earlier than the i-th of the other,
the first i executions of the one and those from i on of the other would be one
more than there are. What differs is then the code (`OnlyCodeDiffers`). `Judged`:
the result is still what the comparison found, though `-generate-history` has
written a file since.

### GoFeatureRunner_proofs

For any invocation, features, flags and attempts (`GoFeatureRunnerAssumption`):

| theorem | states |
| --- | --- |
| `RunnerInvariant` | `Spec => []IInv` |
| `RunnerTypeOK` | `Spec => []TypeOK` |
| `OwnServerDialed` | `Spec => []DialsOwnServer` |
| `OneWorker` | `Spec => []OneWorkerOnOpenClient` |
| `NothingIsLeft` | `Spec => []NothingLeft` |
| `PassedIsTrusted` | `Spec => []PassedTrusted` |

- `Named`: what is open is what the fields name, made for the batch and the feature
  the loop is at. This is why three `Close`s in a row are harmless: the field is
  taken back with the thing. One lemma (`PiecesHold`) shows it of each piece of a
  `Runner`; the actions are made of these.
- `Held`: at which places there is no client, no worker, or must be a client.
- `Where`, `Told`: at feature `at` there are `at - 1` entries, each under its
  feature's name and, but for the panic that ends the loop, true.

### VersionedRouting_proofs

For any of the ten features and any sets of versions that a server at fault serves
(`RoutingAssumption`):

| theorem | states |
| --- | --- |
| `TypesHold` | `Spec => []TypeOK` |
| `NeverAlarmed` | `Spec => []NoFalseAlarm` |
| `MisroutingIsSeen` | `Spec => []MisroutingDetected` |
| `WithholdingIsSeen` | `Spec => []WithholdingDetected` |
| `PassesOnItsOwn` | `Spec => []PassIsItsOwn` |

A lemma for each script says which step is the n-th. How far a feature is then
tells what it has done, and the invariants are read off that:

- `Typed`: the types, the signals and the workflow's set included.
- `SoFar`: which workers poll, which build IDs were added and whether there is a
  workflow, while the feature is undecided.
- `Counted`: the signals that `versions_added_while_worker_polling` sent are counted
  or wait. That the count never passes three, a part of `TypeOK`, is this.
- `Foreign`: a workflow that an earlier feature left open is closed by that
  feature's second worker or by its time-out. Hence `PassIsItsOwn`.
- `Cleared`: past its silent queries a feature has seen that its bystanders get
  nothing: a query that is not answered tells that no worker takes the tasks, or
  that the workflow's task waits for one (`SilenceTells`). It is claimed while
  `timely` holds. Hence `MisroutingDetected`.
- `OnlyAstray`: under a server that serves the right version nowhere, whatever a
  feature has seen (an answer, a part, the result) is the work of a version served
  astray; with `Cleared` for the one feature whose bystander could close its workflow,
  `WithholdingDetected` follows.
- `RoutedByPin` … `RoutedToNewest`, one for each feature (two of them share one):
  what has become of the workflow by then if the server is right (`Undisturbed`) and
  no time-out was too short. For the two racy features it says so of a workflow whose
  first task the first worker took. E.g. `RoutedAsNew`: after the signal `"default"` the workflow is
  still of the first set and has that signal and a task, or of the second and has
  no signal. From each follow two lemmas: a step keeps it, and no step fails the
  feature.

### Not proved

`BatchReturns`, `RunEnds`, `TunnelCarries`, `FeatureEnds`: liveness under fairness and
ENABLED are out of the prover's reach, and these are model-checked only. Proved is what
three of them rest on besides fairness: `EveryStepCounts` and `NobodyIsStuck` for
`BatchReturns`, `RunIsFinite` for `RunEnds`, `NoPacketStrands` for `TunnelCarries`. Every
other property of a passing run is a theorem. The five refuted statements are refuted by
TLC on small instances; of one of them, `ReportingHarnessHeard`, `LostInBacklog` names
the only two ways it can fail.

## Assumptions of the models

- The harnesses write whole, well-formed JSON lines; a line that does not parse is
  not modelled.
- In `RunBatch` the way one feature runs inside its harness (client, worker,
  workflow, check) is one step with an outcome; `GoFeatureRunner` has it in detail
  for Go.
- A failing dial of the summary listener, which all reporting harnesses treat as
  fatal, is part of `HarnessCrashes`.
- A client of the proxy sends nothing between CONNECT and the answer, as the
  protocol demands; what `Hijack`'s buffered reader would hold is then nothing.
- Finalisers of the garbage collector, which may close abandoned sockets, are
  left out.
- `HistoryCheck`: visibility is written once for each change of an execution and
  never goes back; a history is told from another by type, input and revision of
  the code; JSON and protobuf conversions lose nothing.
- `GoFeatureRunner` leaves out the logger and `WorkflowPanicPolicy`, which
  `NewRunner` also writes into the shared options, the same for every batch.
- `VersionedRouting`: how long things take is not modelled; any sleep and time-out
  may be too short. `NoFalseAlarm`, `MisroutingDetected` and `WithholdingDetected`
  are claimed of the runs in which none was (`timely`), the other properties of all.
  The execution time-out starts with the workflow; a call that fails (`CallFails`)
  ends the feature with an error, which is no verdict on the server.
- `ProgramBuilds`: a toolchain makes what its step is for, or fails; the package
  files of the repository name a version, or do not, as they do at this commit
  (`package.json` does, `pyproject.toml` and the `Gemfile` do not). A wheel or
  `node_modules` that an earlier build left in the directory of a path SDK is as
  good as a new one.

## Observations

Noted while modelling; no run is about them.

- `harness/go/harness/util.go:132` says "up to 5 seconds" of a `RetryFor` with 600
  attempts and 100 ms between them.
- Only the Go, Java and Ruby harnesses are given `--summary-uri`; for the others
  "all passed" is all the runner knows.
- `Close` of the proxy closes its server, not the tunnels that were hijacked
  (`harness/go/harness/httpproxy.go:53`); they end with their clients.
- A PHP build that fails leaves its directory (`sdkbuild/php.go:39`).
- `WaitForWorkflowRunning` waits for a status, which a workflow has before its first
  task: `routing_pinned` may set 2.0 current before its workflow is pinned to 1.0.
- `unversioned_worker_gets_unversioned_task` adds versions right after it started a
  workflow, whose first task may be queued later than that.
- `versions_added_while_worker_polling` asks for the query `waiting`, which its
  workflow does not register: the query fails whoever answers it.
- The conflict token of `SetCurrent` and `SetRamp` is read before they wait
  (`features/deployment_versioning/common.go:80`).
- A fetch ends with the first listing without an open execution; one that
  visibility does not show yet is then missing, from what is stored too.
- A CA file is looked at only together with a client certificate.
- `BuildRubyProgram` and `BuildPhpProgram` skip a step if `vendor` exists, which
  through `Preparer` it never does.

## Not modelled

| part | why |
| --- | --- |
| `features/` but for worker versions | the input of the program, about 200 small workflows in seven languages |
| `aa_clean_old_deployments` | one loop of deletions that tests nothing |
| `build-image`, `push-images`, `latest-sdk-version`, `github.go` | sequential commands around docker, git and HTTP, without state |
| what the steps of builders run (`go build`, `npm`, `gradle`, …) | I/O; what they make and how they end is modelled |
| dockerfiles, CI | configuration |
| feature runners of the other six SDKs, patterns and minimum versions of feature selection | in the plan |

## Plan

1. `RunBatch`, `BatchVerdict`, their proofs. *Done.*
2. `RunnerLifecycle` and the proofs of its safety properties. *Done.*
3. `HTTPConnectProxy` and the proofs of its safety properties. *Done.*
4. `HistoryCheck` and the proofs of all its properties. *Done.*
5. `GoFeatureRunner` and the proofs of all its properties. *Done.*
6. `VersionedRouting`, `ProgramBuilds`, and the proofs of their safety properties.
   *Done.*
7. `FeatureSelection`: `GlobFeatures`, minimum versions, `config.json`
   validation, `makeRunBatches` as operators against a reference definition. No
   RECURSIVE, so that partition and idempotence can be proved.
8. Feature runners of the other SDKs, TypeScript first: there a worker and a
   workflow race (`harness.ts`).
9. Composition: `BatchDecides` of `RunnerLifecycle` refined by `BatchVerdict`.
