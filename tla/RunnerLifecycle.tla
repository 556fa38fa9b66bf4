--------------------------- MODULE RunnerLifecycle ---------------------------
(***************************************************************************)
(* A whole `features run` (Runner.Run, cmd/run.go): batch after batch, the *)
(* main thread acquires a dev server, Nexus endpoints, a proxy, the        *)
(* summary listener and the runner's config and environment, runs the      *)
(* harness, and releases them through Go's deferred calls, in reverse.     *)
(* Beside it a goroutine waits for SIGINT or SIGTERM, removes the          *)
(* program's temporary directory and exits the process.                    *)
(*                                                                         *)
(* What happens between net.Listen and the return of handleHistory is      *)
(* RunBatch; here it is one step that ends well or not (BatchVerdict).     *)
(***************************************************************************)
EXTENDS Integers, Sequences, SequencesExt

CONSTANTS
  MaxVariants,   \* bound: batches made for run variants
  MaxNexus,      \* bound: features under features/nexus in the default batch
  Builders       \* the ways to get a program that are explored

(***************************************************************************)
(* "local": Go runs in this process.  "cleaning": the builder removes its  *)
(* temporary directory when it fails (go, java, ts, py, cs, rb).           *)
(* "leaving": it does not (php).                                           *)
(***************************************************************************)
AllBuilders == {"local", "cleaning", "leaving"}

ASSUME LifecycleAssumption ==
  /\ MaxVariants \in Nat /\ MaxNexus \in Nat \ {0}
  /\ Builders \subseteq AllBuilders

MaxBatches == MaxVariants + 1
NoServer   == 0                \* config.Server == ""
External   == MaxBatches + 1   \* the server given by --server

VARIABLES
  job,        \* flags, and the features matched; never changes
  pc,         \* where the main thread is
  batch,      \* the batch it is at
  err,        \* the error runBatch is returning, if any
  local,      \* runBatch: its copy of the config
  config,     \* Runner.config
  saved,      \* runBatch: origConfig and the old environment value
  env,        \* the namespace capabilities variable of this process
  defers,     \* runBatch: its deferred calls
  nexusLeft,  \* features under features/nexus still in batch.Run.Features
  created,    \* createNexusEndpoints: endpoints to delete
  servers,    \* dev servers up, each named by its batch
  endpoints,  \* Nexus endpoints on the server that someone will delete
  orphans,    \* Nexus endpoints on the server that nobody will delete
  proxyUp,    \* the HTTP CONNECT proxy serves
  listening,  \* the summary listener is open
  program,    \* Runner.program: "none", "temp" or "prepared"
  tempDir,    \* a directory program-* exists
  sig         \* the signal goroutine: "off", "waiting", "destroyed"

configVars   == <<local, config, saved, env>>
serverVars   == <<servers, endpoints, orphans>>
endpointVars == <<nexusLeft, created>>
socketVars   == <<proxyUp, listening>>
programVars  == <<program, tempDir>>
vars == <<job, pc, batch, err, configVars, defers, endpointVars, serverVars,
          socketVars, programVars, sig>>

Configs == [server : 0..External, caps : 0..MaxBatches]

(***************************************************************************)
(* makeRunBatches puts the features without variants in one batch, first,  *)
(* and each variant of the others in a batch of its own, of one feature.   *)
(* Against an external server variants are filtered out unless a pattern   *)
(* was given, so any number of them may be left.  capable and              *)
(* nexusVariants: the variants that expect namespace capabilities, and     *)
(* those whose feature is under features/nexus.                            *)
(***************************************************************************)
Jobs ==
  {j \in [external : BOOLEAN, prepared : BOOLEAN, retain : BOOLEAN,
          builder : Builders, plain : 0..1, nexus : 0..MaxNexus,
          variants : 0..MaxVariants, capable : SUBSET (1..MaxVariants),
          nexusVariants : SUBSET (1..MaxVariants)] :
     /\ j.plain + j.nexus + j.variants > 0
     /\ j.prepared => j.builder # "local"
     /\ j.capable \cup j.nexusVariants \subseteq 1..j.variants}

HasDefault   == job.plain + job.nexus > 0
Defaults     == IF HasDefault THEN 1 ELSE 0
Batches      == Defaults + job.variants
IsVariant(b) == b > Defaults

\* What a batch brings along: the capabilities it expects, if any, and its
\* features under features/nexus and elsewhere.
CapsOf(b)  == IF b - Defaults \in job.capable THEN b ELSE 0
NexusOf(b) == IF ~IsVariant(b) THEN job.nexus
              ELSE IF b - Defaults \in job.nexusVariants THEN 1 ELSE 0
PlainOf(b) == IF IsVariant(b) THEN 1 - NexusOf(b) ELSE job.plain

Original == [server |-> IF job.external THEN External ELSE NoServer,
             caps   |-> 0]

Init ==
  /\ job \in Jobs
  /\ pc = "start" /\ batch = 1 /\ err = FALSE
  /\ config = Original /\ local = Original /\ env = 0
  /\ saved = [config |-> Original, env |-> 0]
  /\ defers = <<>> /\ nexusLeft = 0 /\ created = <<>>
  /\ servers = {} /\ endpoints = {} /\ orphans = {}
  /\ proxyUp = FALSE /\ listening = FALSE
  /\ program = "none" /\ tempDir = FALSE
  /\ sig = "off"

-----------------------------------------------------------------------------
(* Runner.Run *)

\* The goroutine and the deferred destroyTempDir are set up, or not.
RunStarts ==
  /\ pc = "start"
  /\ sig' = IF job.prepared \/ job.retain THEN "off" ELSE "waiting"
  /\ pc' = "batch"
  /\ UNCHANGED <<job, batch, err, configVars, defers, endpointVars, serverVars,
                 socketVars, programVars>>

StartBatch ==
  /\ pc = "batch" /\ ~err /\ batch <= Batches
  /\ local' = [config EXCEPT !.caps = CapsOf(batch)]
  /\ nexusLeft' = NexusOf(batch)
  /\ created' = <<>>
  /\ pc' = "server"
  /\ UNCHANGED <<job, batch, err, config, saved, env, defers, serverVars,
                 socketVars, programVars, sig>>

\* destroyTempDir removes the directory of the program there is.
DirAfterDestroy == tempDir /\ program = "none"

\* Run returns, after an error or the last batch; its deferred call runs.
RunReturns ==
  /\ pc = "batch" /\ (err \/ batch > Batches)
  /\ tempDir' = IF sig = "off" THEN tempDir ELSE DirAfterDestroy
  /\ pc' = "returned"
  /\ UNCHANGED <<job, batch, err, configVars, defers, endpointVars, serverVars,
                 socketVars, program, sig>>

-----------------------------------------------------------------------------
(* runBatch: acquiring *)

\* An error is returned: the deferred calls run.
Fails == err' = TRUE /\ pc' = "unwind"

Defer(d) == defers' = Append(defers, d)

StartDevServer ==
  /\ pc = "server" /\ local.server = NoServer
  /\ \/ /\ servers' = servers \cup {batch}
        /\ local' = [local EXCEPT !.server = batch]
        /\ Defer("server")
        /\ pc' = "caps" /\ UNCHANGED err
     \/ Fails /\ UNCHANGED <<servers, local, defers>>
  /\ UNCHANGED <<job, batch, config, saved, env, endpointVars, endpoints,
                 orphans, socketVars, programVars, sig>>

\* Mutant: a variant is run against the given server too.
UseGivenServerForAll ==
  /\ pc = "server" /\ local.server # NoServer
  /\ pc' = "caps"
  /\ UNCHANGED <<job, batch, err, configVars, defers, endpointVars, serverVars,
                 socketVars, programVars, sig>>

\* A variant is refused; otherwise the namespace must become available.
UseGivenServer ==
  /\ pc = "server" /\ local.server # NoServer
  /\ \/ ~IsVariant(batch) /\ pc' = "caps" /\ UNCHANGED err
     \/ Fails
  /\ UNCHANGED <<job, batch, configVars, defers, endpointVars, serverVars,
                 socketVars, programVars, sig>>

AssertNamespaceCapabilities ==
  /\ pc = "caps"
  /\ \/ pc' = "endpoints" /\ UNCHANGED err
     \/ local.caps # 0 /\ Fails
  /\ UNCHANGED <<job, batch, configVars, defers, endpointVars, serverVars,
                 socketVars, programVars, sig>>

Endpoint(f)  == <<batch, f>>
MoreToCreate == pc = "endpoints" /\ Len(created) < nexusLeft

\* Mutant: the endpoint of a retried create is recorded again.
CreateEndpointRecordedTwice ==
  /\ MoreToCreate
  /\ created' = created \o <<Len(created) + 1, Len(created) + 1>>
  /\ endpoints' = endpoints \cup {Endpoint(Len(created) + 1)}
  /\ UNCHANGED <<job, pc, batch, err, configVars, defers, nexusLeft, servers,
                 orphans, socketVars, programVars, sig>>

CreateEndpoint ==
  /\ MoreToCreate
  /\ created' = Append(created, Len(created) + 1)
  /\ endpoints' = endpoints \cup {Endpoint(Len(created) + 1)}
  /\ UNCHANGED <<job, pc, batch, err, configVars, defers, nexusLeft, servers,
                 orphans, socketVars, programVars, sig>>

\* The server does not manage endpoints: those there are will be deleted.
CreateEndpointDenied ==
  /\ MoreToCreate
  /\ pc' = "denied"
  /\ UNCHANGED <<job, batch, err, configVars, defers, endpointVars, serverVars,
                 socketVars, programVars, sig>>

\* Another error, maybe a timeout of a call that took effect.
CreateEndpointFails ==
  /\ MoreToCreate
  /\ \/ UNCHANGED orphans
     \/ orphans' = orphans \cup {Endpoint(Len(created) + 1)}
  /\ pc' = "failed"
  /\ UNCHANGED <<job, batch, err, configVars, defers, endpointVars, servers,
                 endpoints, socketVars, programVars, sig>>

\* The closure cleanup, called on denial, on failure, or deferred.
CleaningUp ==
  \/ pc \in {"denied", "failed"}
  \/ pc = "unwind" /\ defers # <<>> /\ Last(defers) = "endpoints"

\* Mutant: an endpoint that cannot be deleted is tried again later.
DeleteEndpointRetried ==
  /\ CleaningUp /\ created # <<>>
  /\ \/ /\ created' = Tail(created)
        /\ endpoints' = endpoints \ {Endpoint(Head(created))}
     \/ created' = Append(Tail(created), Head(created)) /\ UNCHANGED endpoints
  /\ UNCHANGED <<job, pc, batch, err, configVars, defers, nexusLeft, servers,
                 orphans, socketVars, programVars, sig>>

\* One iteration: the call is made with a timeout; a failure is logged.
DeleteEndpoint ==
  /\ CleaningUp /\ created # <<>>
  /\ created' = Tail(created)
  /\ endpoints' = endpoints \ {Endpoint(Head(created))}
  /\ \/ UNCHANGED orphans
     \/ orphans' = orphans \cup {Endpoint(Head(created))}
  /\ UNCHANGED <<job, pc, batch, err, configVars, defers, nexusLeft, servers,
                 socketVars, programVars, sig>>

\* Mutant: the features without endpoint are left in the batch.
NexusSkippedNot ==
  /\ pc = "denied" /\ created = <<>>
  /\ pc' = "proxy"
  /\ UNCHANGED <<job, batch, err, configVars, defers, endpointVars, serverVars,
                 socketVars, programVars, sig>>

\* Denied: the batch goes on without its Nexus features.
NexusSkipped ==
  /\ pc = "denied" /\ created = <<>>
  /\ nexusLeft' = 0
  /\ pc' = "endpoints"
  /\ UNCHANGED <<job, batch, err, configVars, defers, created, serverVars,
                 socketVars, programVars, sig>>

NexusFailed ==
  /\ pc = "failed" /\ created = <<>>
  /\ Fails
  /\ UNCHANGED <<job, batch, configVars, defers, endpointVars, serverVars,
                 socketVars, programVars, sig>>

NoFeaturesLeft == PlainOf(batch) + nexusLeft = 0

\* Mutant: the cleanup function is dropped.
EndpointsReadyUndeferred ==
  /\ pc = "endpoints" /\ Len(created) = nexusLeft
  /\ pc' = IF NoFeaturesLeft THEN "unwind" ELSE "proxy"
  /\ UNCHANGED <<job, batch, err, configVars, defers, endpointVars, serverVars,
                 socketVars, programVars, sig>>

\* deleteEndpoints is deferred; a batch left without features succeeds.
EndpointsReady ==
  /\ pc = "endpoints" /\ Len(created) = nexusLeft
  /\ Defer("endpoints")
  /\ pc' = IF NoFeaturesLeft THEN "unwind" ELSE "proxy"
  /\ UNCHANGED <<job, batch, err, configVars, endpointVars, serverVars,
                 socketVars, programVars, sig>>

\* No feature of the batch expects proxied connections.
ProxyNotExpected ==
  /\ pc = "proxy"
  /\ pc' = "listen"
  /\ UNCHANGED <<job, batch, err, configVars, defers, endpointVars, serverVars,
                 socketVars, programVars, sig>>

StartProxy ==
  /\ pc = "proxy"
  /\ \/ proxyUp' = TRUE /\ Defer("proxy") /\ pc' = "listen" /\ UNCHANGED err
     \/ Fails /\ UNCHANGED <<proxyUp, defers>>
  /\ UNCHANGED <<job, batch, configVars, endpointVars, serverVars, listening,
                 programVars, sig>>

Listen ==
  /\ pc = "listen"
  /\ \/ listening' = TRUE /\ Defer("listener") /\ pc' = "swap" /\ UNCHANGED err
     \/ Fails /\ UNCHANGED <<listening, defers>>
  /\ UNCHANGED <<job, batch, configVars, endpointVars, serverVars, proxyUp,
                 programVars, sig>>

\* r.config = config; setNamespaceCapabilitiesEnv, which ignores "".
SwapConfig ==
  /\ pc = "swap"
  /\ saved' = [config |-> config, env |-> env]
  /\ config' = local
  /\ env' = IF local.caps # 0 THEN local.caps ELSE env
  /\ Defer("config")
  /\ pc' = "program"
  /\ UNCHANGED <<job, batch, err, local, endpointVars, serverVars, socketVars,
                 programVars, sig>>

-----------------------------------------------------------------------------
(* runBatch: the program and the harness *)

\* In-process, prepared by --dir, or built for an earlier batch.
ProgramThere ==
  /\ pc = "program"
  /\ \/ job.builder = "local" /\ pc' = "harness" /\ UNCHANGED <<err, program>>
     \/ job.prepared /\ program' = "prepared" /\ pc' = "harness" /\ UNCHANGED err
     \/ job.prepared /\ Fails /\ UNCHANGED program
     \/ program = "temp" /\ pc' = "harness" /\ UNCHANGED <<err, program>>
  /\ UNCHANGED <<job, batch, configVars, defers, endpointVars, serverVars,
                 socketVars, tempDir, sig>>

\* os.MkdirTemp
BuildStarts ==
  /\ pc = "program" /\ job.builder # "local" /\ ~job.prepared
  /\ program = "none"
  /\ \/ tempDir' = TRUE /\ pc' = "build" /\ UNCHANGED err
     \/ Fails /\ UNCHANGED tempDir
  /\ UNCHANGED <<job, batch, configVars, defers, endpointVars, serverVars,
                 socketVars, program, sig>>

BuildSucceeds ==
  /\ pc = "build"
  /\ program' = "temp"
  /\ pc' = "harness"
  /\ UNCHANGED <<job, batch, err, configVars, defers, endpointVars, serverVars,
                 socketVars, tempDir, sig>>

\* The deferred removal of a builder runs before its error is returned.
BuildFails ==
  /\ pc = "build"
  /\ tempDir' = (tempDir /\ job.builder = "leaving")
  /\ Fails
  /\ UNCHANGED <<job, batch, configVars, defers, endpointVars, serverVars,
                 socketVars, program, sig>>

\* From the start of the harness to the return of handleHistory (RunBatch).
\* The deferred calls run after an error and while a panic unwinds alike.
BatchDecides ==
  /\ pc = "harness"
  /\ err' \in BOOLEAN
  /\ pc' = "unwind"
  /\ UNCHANGED <<job, batch, configVars, defers, endpointVars, serverVars,
                 socketVars, programVars, sig>>

-----------------------------------------------------------------------------
(* runBatch: the deferred calls, last first *)

\* Mutant: the deferred calls run first to last.
DueFirst(d) == pc = "unwind" /\ defers # <<>> /\ Head(defers) = d

Due(d) == pc = "unwind" /\ defers # <<>> /\ Last(defers) = d

RestoreConfig ==
  /\ Due("config")
  /\ config' = saved.config
  /\ env' = IF local.caps # 0 THEN saved.env ELSE env
  /\ defers' = Front(defers)
  /\ UNCHANGED <<job, pc, batch, err, local, saved, endpointVars, serverVars,
                 socketVars, programVars, sig>>

CloseListener ==
  /\ Due("listener")
  /\ listening' = FALSE
  /\ defers' = Front(defers)
  /\ UNCHANGED <<job, pc, batch, err, configVars, endpointVars, serverVars,
                 proxyUp, programVars, sig>>

CloseProxy ==
  /\ Due("proxy")
  /\ proxyUp' = FALSE
  /\ defers' = Front(defers)
  /\ UNCHANGED <<job, pc, batch, err, configVars, endpointVars, serverVars,
                 listening, programVars, sig>>

\* The deferred cleanup has deleted everything it knows of.
EndpointsCleaned ==
  /\ Due("endpoints") /\ created = <<>>
  /\ defers' = Front(defers)
  /\ UNCHANGED <<job, pc, batch, err, configVars, endpointVars, serverVars,
                 socketVars, programVars, sig>>

\* Stopping the dev server takes what is on it along.
StopDevServer ==
  /\ Due("server")
  /\ servers' = servers \ {batch}
  /\ endpoints' = {e \in endpoints : e[1] # batch}
  /\ orphans' = {e \in orphans : e[1] # batch}
  /\ defers' = Front(defers)
  /\ UNCHANGED <<job, pc, batch, err, configVars, endpointVars, socketVars,
                 programVars, sig>>

\* Mutant: the temporary program is destroyed with its batch.
BatchReturnsDestroying ==
  /\ pc = "unwind" /\ defers = <<>>
  /\ tempDir' = DirAfterDestroy
  /\ batch' = batch + 1
  /\ pc' = "batch"
  /\ UNCHANGED <<job, err, configVars, defers, endpointVars, serverVars,
                 socketVars, program, sig>>

BatchReturns ==
  /\ pc = "unwind" /\ defers = <<>>
  /\ batch' = batch + 1
  /\ pc' = "batch"
  /\ UNCHANGED <<job, err, configVars, defers, endpointVars, serverVars,
                 socketVars, programVars, sig>>

-----------------------------------------------------------------------------
(* Signals *)

Alive == pc \notin {"returned", "killed"}

\* The goroutine got the signal: destroyTempDir.
SignalDestroys ==
  /\ Alive /\ sig = "waiting"
  /\ tempDir' = DirAfterDestroy
  /\ sig' = "destroyed"
  /\ UNCHANGED <<job, pc, batch, err, configVars, defers, endpointVars,
                 serverVars, socketVars, program>>

\* os.Exit(1); without the goroutine a signal ends the process at once.
\* No deferred call runs.
SignalExits ==
  /\ Alive /\ sig \in {"destroyed", "off"}
  /\ pc' = "killed"
  /\ UNCHANGED <<job, batch, err, configVars, defers, endpointVars, serverVars,
                 socketVars, programVars, sig>>

Terminated == ~Alive /\ UNCHANGED vars

Main ==
  \/ RunStarts \/ StartBatch \/ RunReturns
  \/ StartDevServer \/ UseGivenServer \/ AssertNamespaceCapabilities
  \/ CreateEndpoint \/ CreateEndpointDenied \/ CreateEndpointFails
  \/ DeleteEndpoint \/ NexusSkipped \/ NexusFailed \/ EndpointsReady
  \/ ProxyNotExpected \/ StartProxy \/ Listen \/ SwapConfig
  \/ ProgramThere \/ BuildStarts \/ BuildSucceeds \/ BuildFails \/ BatchDecides
  \/ RestoreConfig \/ CloseListener \/ CloseProxy \/ EndpointsCleaned
  \/ StopDevServer \/ BatchReturns

Next == Main \/ SignalDestroys \/ SignalExits \/ Terminated

\* The main thread runs.  Its calls to servers have timeouts; that a build
\* and a harness process end is assumed.  Signals need not come.
Spec == Init /\ [][Next]_vars /\ WF_vars(Main)

-----------------------------------------------------------------------------
(* Properties *)

Locations ==
  {"start", "batch", "server", "caps", "endpoints", "denied", "failed", "proxy",
   "listen", "swap", "program", "build", "harness", "unwind", "returned",
   "killed"}
Resources == {"server", "endpoints", "proxy", "listener", "config"}

\* Type invariant of the runner, its config and what it holds.
TypeOK ==
  /\ job \in Jobs
  /\ pc \in Locations /\ batch \in 1..(MaxBatches + 1) /\ err \in BOOLEAN
  /\ local \in Configs /\ config \in Configs
  /\ saved \in [config : Configs, env : 0..MaxBatches]
  /\ env \in 0..MaxBatches
  /\ defers \in Seq(Resources)
  /\ nexusLeft \in 0..MaxNexus
  /\ created \in Seq(1..MaxNexus) /\ Len(created) <= nexusLeft
  /\ servers \subseteq 1..MaxBatches
  /\ endpoints \subseteq (1..MaxBatches) \X (1..MaxNexus)
  /\ orphans \subseteq (1..MaxBatches) \X (1..MaxNexus)
  /\ proxyUp \in BOOLEAN /\ listening \in BOOLEAN
  /\ program \in {"none", "temp", "prepared"} /\ tempDir \in BOOLEAN
  /\ sig \in {"off", "waiting", "destroyed"}

\* Whatever failed on the way, when Run returns nothing that it would release
\* is left: no dev server, proxy or listener, the config and environment are
\* those it was given, and the temporary program is gone unless it is to be
\* retained (a failed PHP build leaves its directory).  An endpoint is left
\* only on a server given by --server, and only if its deletion failed, which
\* is logged, or if its creation was reported as failed but took effect.
ReturnReleasesAll ==
  pc = "returned" =>
    /\ servers = {} /\ endpoints = {} /\ ~proxyUp /\ ~listening
    /\ orphans # {} => job.external
    /\ config = Original /\ env = 0
    /\ tempDir => job.retain \/ (job.builder = "leaving" /\ program = "none")

\* A harness talks to the server of its own batch, which is up and has the
\* batch's dynamic config, never to one of an earlier batch, and sees the
\* capabilities of its own batch in the environment (runBatch starts from
\* r.config, so this depends on what the batches before it put back).
HarnessOnOwnServer ==
  pc = "harness" =>
    /\ config.server = IF job.external THEN External ELSE batch
    /\ servers = IF job.external THEN {} ELSE {batch}
    /\ IsVariant(batch) => ~job.external
    /\ config.caps = env
    /\ env = CapsOf(batch)

\* Each Nexus feature given to a harness has its endpoint
\* (createNexusEndpoints), and no other endpoint of the batch is there: the
\* exception is a batch whose Nexus features were all taken out, where one
\* is left that could not be deleted.
NexusReady ==
  pc = "harness" =>
    /\ endpoints = {Endpoint(f) : f \in 1..nexusLeft}
    /\ (\E e \in orphans : e[1] = batch) => nexusLeft = 0

\* The program a harness is started from is still on disk in every batch,
\* though it was built in the first one, unless a signal came.
ProgramOnDisk ==
  pc = "harness" /\ program = "temp" /\ sig # "destroyed" => tempDir

\* Endpoints are deleted while the server they are on is up: a dev server
\* stops only when no endpoint on it is still to be deleted, and after the
\* config that names it was taken back.
EndpointsGoFirst ==
  [][\A b \in servers : b \notin servers' =>
       endpoints = {} /\ config = Original]_vars

\* A run comes to an end, whatever fails (cleanup does not retry).
RunEnds == <>~Alive

\* "Ensure any created temp dir is cleaned on ctrl-c": after the goroutine's
\* exit there is none.
CleanedOnCtrlC == pc = "killed" /\ sig = "destroyed" => ~tempDir
=============================================================================
