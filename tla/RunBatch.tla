------------------------------ MODULE RunBatch ------------------------------
(***************************************************************************)
(* One batch of features, from the moment runBatch has its summary         *)
(* listener until it returns (cmd/run.go).  Three processes interact:      *)
(*                                                                         *)
(*   main     runBatch: waits for the language harness, closes the summary *)
(*            listener, takes the summary from the channel, compares the   *)
(*            HTTP proxy counters and checks the histories;                *)
(*   server   the goroutine summaryServer: accepts one connection, reads   *)
(*            one JSON line per feature, hands the summary over an         *)
(*            unbuffered channel;                                          *)
(*   harness  the runner of one language, in this process (Go without a    *)
(*            version) or in a subprocess: runs the features in order,     *)
(*            reports over the connection, ends with an exit status.       *)
(*                                                                         *)
(* A feature is its position in batch.Run.Features.  Steps that acquire    *)
(* resources before net.Listen are in RunnerLifecycle.                     *)
(***************************************************************************)
EXTENDS Integers, Sequences, FiniteSets, FiniteSetsExt

CONSTANTS
  MaxFeatures,   \* bound: features of one batch
  Langs,         \* the harnesses explored
  Expect,        \* feature -> proxy kind -> connections its config.json expects
  MaxTunnels,    \* bound: proxied connections one feature makes, per kind
  ConnMayBreak   \* whether a read from the summary socket may fail

AllLangs == {"golocal", "go", "java", "ts", "php", "py", "cs", "rb"}
Kinds    == {"unauthed", "authed"}

ASSUME RunBatchAssumption ==
  /\ MaxFeatures \in Nat \ {0}
  /\ Langs \subseteq AllLangs
  /\ Expect \in [1..MaxFeatures -> [Kinds -> Nat]]
  /\ MaxTunnels \in Nat
  /\ ConnMayBreak \in BOOLEAN

-----------------------------------------------------------------------------
(***************************************************************************)
(* What tells the seven language harnesses apart:                          *)
(*   summary    it dials --summary-uri and writes one entry per feature    *)
(*   fullName   the entry is named SummaryName() rather than Dir           *)
(*   skips      a feature can end skipped                                  *)
(*   absent     what a feature it knows nothing of does: "aborts" the      *)
(*              harness with a failure, "fails" and the loop goes on, is   *)
(*              "ignored", or "leaves" the loop with exit status 0         *)
(*   offline    whether it exits with status 0 when the server cannot be   *)
(*              reached (the others fail each feature)                     *)
(*   panics     a failed requirement panics, after the deferred entry      *)
(***************************************************************************)
GoHarness ==
  [summary |-> TRUE, fullName |-> FALSE, skips |-> TRUE, absent |-> "aborts",
   offline |-> FALSE, panics |-> TRUE]
GoLocalHarness ==
  [GoHarness EXCEPT !.fullName = TRUE]
JavaHarness ==
  [summary |-> TRUE, fullName |-> FALSE, skips |-> TRUE, absent |-> "aborts",
   offline |-> FALSE, panics |-> FALSE]
RubyHarness ==
  [summary |-> TRUE, fullName |-> FALSE, skips |-> TRUE, absent |-> "fails",
   offline |-> FALSE, panics |-> FALSE]
TypeScriptHarness ==
  [summary |-> FALSE, fullName |-> FALSE, skips |-> FALSE, absent |-> "fails",
   offline |-> FALSE, panics |-> FALSE]
PythonHarness ==
  [summary |-> FALSE, fullName |-> FALSE, skips |-> TRUE, absent |-> "aborts",
   offline |-> FALSE, panics |-> FALSE]
DotNetHarness ==
  [summary |-> FALSE, fullName |-> FALSE, skips |-> TRUE, absent |-> "leaves",
   offline |-> FALSE, panics |-> FALSE]
PhpHarness ==
  [summary |-> FALSE, fullName |-> FALSE, skips |-> TRUE, absent |-> "ignored",
   offline |-> TRUE, panics |-> FALSE]

\* The switch on config.Lang in runBatch.
HarnessOf(l) ==
  CASE l = "golocal" -> GoLocalHarness
    [] l = "go"      -> GoHarness
    [] l = "java"    -> JavaHarness
    [] l = "ts"      -> TypeScriptHarness
    [] l = "php"     -> PhpHarness
    [] l = "py"      -> PythonHarness
    [] l = "cs"      -> DotNetHarness
    [] OTHER         -> RubyHarness

-----------------------------------------------------------------------------
VARIABLES
  job,        \* what the batch and the flags say; never changes
  hState,     \* harness: "idle", "running", "exited"
  hResult,    \* harness: "none", "ok", "err" or "panic" (in-process only)
  next,       \* harness: the feature its loop is at
  outcome,    \* feature -> what became of it in the harness
  tunneled,   \* proxy kind -> connections the proxy tunneled
  conn,       \* summary socket: "none", "backlog", "accepted", "broken"
  wire,       \* entries written to the socket and not read yet
  wireEnd,    \* the harness has closed its end of the socket
  sPc,        \* server: "accept", "read", "send", "done"
  read,       \* server: its local variable summary
  chan,       \* summaryChan: "open" or "closed"
  mPc,        \* main: "harness", "await", "proxy", "history", "returned"
  listener,   \* the summary listener: "open" or "closed"
  received,   \* main: ok of summary, ok := <-summaryChan
  report,     \* main: the summary it goes by
  hIdx,       \* main: the feature handleHistory is at
  hist,       \* feature -> what handleHistory did with it
  result      \* main: "none", "ok", "error" or "crash"

harnessVars == <<hState, hResult, next, outcome, tunneled>>
socketVars  == <<conn, wire, wireEnd>>
serverVars  == <<sPc, read, chan>>
mainVars    == <<mPc, listener, received, report, hIdx, hist, result>>
vars == <<job, harnessVars, socketVars, serverVars, mainVars>>

Features == 1..job.features
Harness  == HarnessOf(job.lang)

(***************************************************************************)
(* A batch made by makeRunBatches: the default batch has no variant; a     *)
(* variant's batch holds that one feature.  history[f] says whether the    *)
(* feature has workflows and whether the repository stores histories of it *)
(* for this language; disable and generate are --no-history-check and      *)
(* --generate-history (one feature, no variant, an explicit version).      *)
(***************************************************************************)
Jobs ==
  {j \in [lang : Langs, variant : {"", "v"}, features : 1..MaxFeatures,
          history : [1..MaxFeatures -> {"noWorkflow", "unstored", "stored"}],
          disable : BOOLEAN, generate : BOOLEAN] :
     /\ j.variant # "" => j.features = 1
     /\ j.generate => /\ j.features = 1
                      /\ j.variant = ""
                      /\ j.lang # "golocal"
     /\ \A f \in 1..MaxFeatures : f > j.features => j.history[f] = "unstored"}

Dir(f)         == <<f, "">>
SummaryName(f) == <<f, job.variant>>

\* Summary.Find: the first entry of that name.
Listed(s, f)  == \E i \in DOMAIN s : s[i].name = SummaryName(f)
Find(s, f)    == s[CHOOSE i \in DOMAIN s :
                     /\ s[i].name = SummaryName(f)
                     /\ \A j \in 1..(i - 1) : s[j].name # SummaryName(f)]

ExpectsProxy == \E f \in Features, k \in Kinds : Expect[f][k] > 0

Init ==
  /\ job \in Jobs
  /\ hState = "idle" /\ hResult = "none" /\ next = 1
  /\ outcome = [f \in 1..MaxFeatures |-> "none"]
  /\ tunneled = [k \in Kinds |-> 0]
  /\ conn = "none" /\ wire = <<>> /\ wireEnd = FALSE
  /\ sPc = "accept" /\ read = <<>> /\ chan = "open"
  /\ mPc = "harness" /\ listener = "open" /\ received = FALSE /\ report = <<>>
  /\ hIdx = 1 /\ hist = [f \in 1..MaxFeatures |-> "none"] /\ result = "none"

-----------------------------------------------------------------------------
(* The language harness *)

Entry(f, o) ==
  [name |-> IF Harness.fullName THEN SummaryName(f) ELSE Dir(f), outcome |-> o]

\* A line for the summary server; writes to a broken socket are lost.
Write(e) ==
  wire' = IF Harness.summary /\ conn # "broken" THEN Append(wire, e) ELSE wire

\* The process ends, or the in-process runner returns: its socket is closed.
HarnessEnds(res) ==
  /\ hState' = "exited" /\ hResult' = res /\ wireEnd' = TRUE

\* Building the program or starting the subprocess fails.
HarnessNotBuilt ==
  /\ hState = "idle" /\ job.lang # "golocal"
  /\ HarnessEnds("err")
  /\ UNCHANGED <<job, next, outcome, tunneled, conn, wire, serverVars, mainVars>>

\* The harness starts; a connection waits in the listener's backlog at once.
HarnessStarts ==
  /\ hState = "idle"
  /\ hState' = "running"
  /\ conn' = IF Harness.summary THEN "backlog" ELSE conn
  /\ UNCHANGED <<job, hResult, next, outcome, tunneled, wire, wireEnd,
                 serverVars, mainVars>>

\* The PHP runner returns, and so exits with 0, when it cannot connect.
HarnessOffline ==
  /\ hState = "running" /\ next = 1 /\ Harness.offline
  /\ HarnessEnds("ok")
  /\ UNCHANGED <<job, next, outcome, tunneled, conn, wire, serverVars, mainVars>>

AtFeature == hState = "running" /\ next \in Features

\* Mutant: the loop advances twice.
RunFeatureSkippingOne(o, t) ==
  /\ AtFeature
  /\ o = "SKIPPED" => Harness.skips
  /\ \A k \in Kinds : t[k] > 0 => Expect[next][k] > 0
  /\ outcome' = [outcome EXCEPT ![next] = o]
  /\ tunneled' = [k \in Kinds |-> tunneled[k] + t[k]]
  /\ Write(Entry(next, o))
  /\ next' = next + 2
  /\ UNCHANGED <<job, hState, hResult, conn, wireEnd, serverVars, mainVars>>

\* One turn of the feature loop: the feature runs, its entry is written.
RunFeature(o, t) ==
  /\ AtFeature
  /\ o = "SKIPPED" => Harness.skips
  /\ \A k \in Kinds : t[k] > 0 => Expect[next][k] > 0
  /\ outcome' = [outcome EXCEPT ![next] = o]
  /\ tunneled' = [k \in Kinds |-> tunneled[k] + t[k]]
  /\ Write(Entry(next, o))
  /\ next' = next + 1
  /\ UNCHANGED <<job, hState, hResult, conn, wireEnd, serverVars, mainVars>>

\* The Go harness writes its deferred entry, still PASSED, and panics.
RunFeaturePanics ==
  /\ AtFeature /\ Harness.panics
  /\ outcome' = [outcome EXCEPT ![next] = "FAILED"]
  /\ Write(Entry(next, "PASSED"))
  /\ HarnessEnds(IF job.lang = "golocal" THEN "panic" ELSE "err")
  /\ UNCHANGED <<job, next, tunneled, conn, serverVars, mainVars>>

\* The feature has a file for this language but the harness knows none of it.
\* A harness that "fails" such a feature runs it like any other failed one.
FeatureAbsent ==
  /\ AtFeature
  /\ \/ /\ Harness.absent = "aborts" /\ HarnessEnds("err")
        /\ UNCHANGED next
     \/ /\ Harness.absent = "leaves" /\ HarnessEnds("ok")
        /\ UNCHANGED next
     \/ /\ Harness.absent = "ignored" /\ next' = next + 1
        /\ UNCHANGED <<hState, hResult, wireEnd>>
  /\ UNCHANGED <<job, outcome, tunneled, conn, wire, serverVars, mainVars>>

\* The subprocess is killed, or an exception leaves its feature loop.
HarnessCrashes ==
  /\ hState = "running" /\ job.lang # "golocal"
  /\ HarnessEnds("err")
  /\ UNCHANGED <<job, next, outcome, tunneled, conn, wire, serverVars, mainVars>>

\* Mutant: the failures counted in the loop are not turned into a status.
HarnessFinishesAnyway ==
  /\ hState = "running" /\ next \notin Features
  /\ HarnessEnds("ok")
  /\ UNCHANGED <<job, next, outcome, tunneled, conn, wire, serverVars, mainVars>>

\* The loop is over: the exit status says whether any feature failed.
HarnessFinishes ==
  /\ hState = "running" /\ next \notin Features
  /\ HarnessEnds(IF \E f \in Features : outcome[f] = "FAILED" THEN "err" ELSE "ok")
  /\ UNCHANGED <<job, next, outcome, tunneled, conn, wire, serverVars, mainVars>>

HarnessStep ==
  \/ HarnessNotBuilt \/ HarnessStarts \/ HarnessOffline
  \/ \E o \in {"PASSED", "FAILED", "SKIPPED"}, t \in [Kinds -> 0..MaxTunnels] :
       RunFeature(o, t)
  \/ RunFeaturePanics \/ FeatureAbsent \/ HarnessCrashes \/ HarnessFinishes

-----------------------------------------------------------------------------
(* The summary server goroutine *)

ServerAccepts ==
  /\ sPc = "accept" /\ listener = "open" /\ conn = "backlog"
  /\ conn' = "accepted" /\ sPc' = "read"
  /\ UNCHANGED <<job, harnessVars, wire, wireEnd, read, chan, mainVars>>

\* Accept fails once the listener is closed, whatever its backlog holds.
ServerNotAccepting ==
  /\ sPc = "accept" /\ listener = "closed"
  /\ chan' = "closed" /\ sPc' = "done"
  /\ UNCHANGED <<job, harnessVars, socketVars, read, mainVars>>

ServerReads ==
  /\ sPc = "read" /\ wire # <<>>
  /\ read' = Append(read, Head(wire)) /\ wire' = Tail(wire)
  /\ UNCHANGED <<job, harnessVars, conn, wireEnd, sPc, chan, mainVars>>

\* Mutant: the end of the harness is taken for the end of the stream.
ServerSeesHarnessEnd ==
  /\ sPc = "read" /\ wireEnd
  /\ sPc' = "send"
  /\ UNCHANGED <<job, harnessVars, socketVars, read, chan, mainVars>>

ServerSeesEOF ==
  /\ sPc = "read" /\ wire = <<>> /\ wireEnd
  /\ sPc' = "send"
  /\ UNCHANGED <<job, harnessVars, socketVars, read, chan, mainVars>>

\* A read fails with something else than EOF: what was read is dropped.
ServerReadFails ==
  /\ ConnMayBreak /\ sPc = "read"
  /\ chan' = "closed" /\ sPc' = "done" /\ conn' = "broken"
  /\ UNCHANGED <<job, harnessVars, wire, wireEnd, read, mainVars>>

ServerStep ==
  \/ ServerAccepts \/ ServerNotAccepting \/ ServerReads \/ ServerSeesEOF
  \/ ServerReadFails

-----------------------------------------------------------------------------
(* The main thread *)

Returns(r) == mPc' = "returned" /\ result' = r

\* Mutant: l.Close() is left to the deferred call.
HarnessReturnedStillListening ==
  /\ mPc = "harness" /\ hState = "exited"
  /\ \/ hResult = "ok"    /\ mPc' = "await" /\ UNCHANGED <<result, listener>>
     \/ hResult = "err"   /\ Returns("error") /\ listener' = "closed"
     \/ hResult = "panic" /\ Returns("crash") /\ listener' = "closed"
  /\ UNCHANGED <<job, harnessVars, socketVars, serverVars, received, report,
                 hIdx, hist>>

\* The harness returned: an error ends the batch at once (the deferred
\* l.Close() runs), and so does a panic; otherwise l.Close() and on.
HarnessReturned ==
  /\ mPc = "harness" /\ hState = "exited"
  /\ listener' = "closed"
  /\ \/ hResult = "ok"    /\ mPc' = "await" /\ UNCHANGED result
     \/ hResult = "err"   /\ Returns("error")
     \/ hResult = "panic" /\ Returns("crash")
  /\ UNCHANGED <<job, harnessVars, socketVars, serverVars, received, report,
                 hIdx, hist>>

\* Mutant: external harnesses are expected to know the variant.
RewriteNothing(s) == s

\* rewriteVariantSummary: Dir becomes SummaryName().
RewriteVariantSummary(s) ==
  [i \in DOMAIN s |->
     IF \E f \in Features : s[i].name = Dir(f)
       THEN [s[i] EXCEPT !.name = SummaryName(@[1])]
       ELSE s[i]]

\* The rendezvous on summaryChan.
ReceiveSummary ==
  /\ mPc = "await" /\ sPc = "send"
  /\ received' = TRUE
  /\ report' = IF job.variant # "" THEN RewriteVariantSummary(read) ELSE read
  /\ mPc' = "proxy" /\ sPc' = "done"
  /\ UNCHANGED <<job, harnessVars, socketVars, read, chan, listener, hIdx, hist,
                 result>>

\* Mutant: the entries read before the channel was closed are used.
ReceivePartially ==
  /\ mPc = "await" /\ chan = "closed"
  /\ report' = read
  /\ mPc' = "proxy"
  /\ UNCHANGED <<job, harnessVars, socketVars, serverVars, listener, received,
                 hIdx, hist, result>>

\* The channel is closed: every feature is taken to have passed.
ReceiveNothing ==
  /\ mPc = "await" /\ chan = "closed"
  /\ report' = [f \in Features |->
                  [name |-> SummaryName(f), outcome |-> "PASSED"]]
  /\ mPc' = "proxy"
  /\ UNCHANGED <<job, harnessVars, socketVars, serverVars, listener, received,
                 hIdx, hist, result>>

\* Mutant: skipped features are expected to have used the proxy too.
ExpectedTunnelsOfAll(k) ==
  MapThenSumSet(LAMBDA i : Expect[report[i].name[1]][k], DOMAIN report)

ExpectedTunnels(k) ==
  MapThenSumSet(LAMBDA i : Expect[report[i].name[1]][k],
                {i \in DOMAIN report : /\ report[i].outcome = "PASSED"
                                       /\ \E f \in Features :
                                            report[i].name = SummaryName(f)})

\* The comparison is left out when the report has a failure.
ProxyCountsDiffer ==
  /\ ExpectsProxy
  /\ \A i \in DOMAIN report : report[i].outcome # "FAILED"
  /\ \E k \in Kinds : tunneled[k] # ExpectedTunnels(k)

CheckProxy ==
  /\ mPc = "proxy"
  /\ \/ ProxyCountsDiffer /\ Returns("error")
     \/ ~ProxyCountsDiffer /\ mPc' = "history" /\ UNCHANGED result
  /\ UNCHANGED <<job, harnessVars, socketVars, serverVars, listener, received,
                 report, hIdx, hist>>

\* Mutant: only unlisted features are left alone.
LeftAloneIfUnlisted(f) ==
  IF job.history[f] = "noWorkflow" THEN "ignored"
  ELSE IF ~Listed(report, f) THEN "unlisted"
  ELSE "none"

\* handleHistory leaves a feature alone: it has no workflows, or the report
\* does not list it, or lists it as skipped.
LeftAlone(f) ==
  IF job.history[f] = "noWorkflow" THEN "ignored"
  ELSE IF ~Listed(report, f) THEN "unlisted"
  ELSE IF Find(report, f).outcome = "SKIPPED" THEN "skipped"
  ELSE "none"

\* handleSingleHistory.  Loading, fetching, comparing or storing may fail;
\* nothing can be fetched for a feature that never ran.
SingleHistory(f) ==
  {"failed"} \cup
  (IF ~job.generate /\ (job.disable \/ job.history[f] = "unstored")
     THEN {"nothing"}
   ELSE IF outcome[f] = "none" THEN {}
   ELSE IF job.generate THEN {"stored"} ELSE {"matched"})

HandleHistory(h) ==
  /\ mPc = "history" /\ hIdx \in Features
  /\ IF LeftAlone(hIdx) # "none" THEN h = LeftAlone(hIdx)
                                 ELSE h \in SingleHistory(hIdx)
  /\ hist' = [hist EXCEPT ![hIdx] = h]
  /\ hIdx' = hIdx + 1
  /\ UNCHANGED <<job, harnessVars, socketVars, serverVars, mPc, listener,
                 received, report, result>>

Handled == {"nothing", "matched", "stored", "failed"}

\* The client is dialed for the first feature that needs it.
HistoryClientFails ==
  /\ mPc = "history" /\ hIdx \in Features
  /\ LeftAlone(hIdx) = "none" /\ \A f \in Features : hist[f] \notin Handled
  /\ Returns("error")
  /\ UNCHANGED <<job, harnessVars, socketVars, serverVars, listener, received,
                 report, hIdx, hist>>

HistoryDone ==
  /\ mPc = "history" /\ hIdx \notin Features
  /\ Returns(IF \E f \in Features : hist[f] = "failed" THEN "error" ELSE "ok")
  /\ UNCHANGED <<job, harnessVars, socketVars, serverVars, listener, received,
                 report, hIdx, hist>>

HistoryOutcomes == {"ignored", "unlisted", "skipped"} \cup Handled

MainStep ==
  \/ HarnessReturned \/ ReceiveSummary \/ ReceiveNothing \/ CheckProxy
  \/ \E h \in HistoryOutcomes : HandleHistory(h)
  \/ HistoryClientFails \/ HistoryDone

\* runBatch has returned and the other processes can do no more.
Terminated ==
  /\ mPc = "returned"
  /\ UNCHANGED vars

Next == HarnessStep \/ ServerStep \/ MainStep \/ Terminated

(***************************************************************************)
(* Features run under workflow execution timeouts, so the harness keeps    *)
(* going; goroutines are scheduled.                                        *)
(***************************************************************************)
Fairness == WF_vars(HarnessStep) /\ WF_vars(ServerStep) /\ WF_vars(MainStep)

Spec == Init /\ [][Next]_vars /\ Fairness

-----------------------------------------------------------------------------
(* Properties *)

Outcomes == {"PASSED", "FAILED", "SKIPPED"}

\* Lines of the summary: a name is Dir or SummaryName(), as JSON carries it.
Entries == [name : (1..MaxFeatures) \X {"", "v"}, outcome : Outcomes]

\* Type invariant: the state of the three processes and of the socket.
TypeOK ==
  /\ job \in Jobs
  /\ hState \in {"idle", "running", "exited"}
  /\ hResult \in {"none", "ok", "err", "panic"}
  /\ next \in 1..(MaxFeatures + 1)
  /\ outcome \in [1..MaxFeatures -> Outcomes \cup {"none"}]
  /\ tunneled \in [Kinds -> Nat]
  /\ conn \in {"none", "backlog", "accepted", "broken"}
  /\ wire \in Seq(Entries) /\ wireEnd \in BOOLEAN
  /\ read \in Seq(Entries)
  /\ sPc \in {"accept", "read", "send", "done"}
  /\ chan \in {"open", "closed"}
  /\ mPc \in {"harness", "await", "proxy", "history", "returned"}
  /\ listener \in {"open", "closed"}
  /\ received \in BOOLEAN
  /\ report \in Seq(Entries)
  /\ hIdx \in 1..(MaxFeatures + 1)
  /\ hist \in [1..MaxFeatures -> HistoryOutcomes \cup {"none"}]
  /\ result \in {"none", "ok", "error", "crash"}

\* What the summary would be, had the runner watched the harness itself.
TrueReport ==
  [f \in Features |-> [name |-> SummaryName(f), outcome |-> outcome[f]]]

\* A summary that crossed the socket and the channel names every feature of
\* the batch, in order and under its SummaryName(), with the outcome it had
\* in the harness: nothing is lost at EOF, and external harnesses, which
\* know no variant, are translated (summaryServer, rewriteVariantSummary).
SummaryExact == received => report = TrueReport

\* The harness tells every failure by its exit status, and never succeeds
\* without having come to each feature.
ExitStatusFaithful ==
  /\ Harness.absent \notin {"leaves", "ignored"}
  /\ ~Harness.offline

\* runBatch returns nil only if every feature ran and passed, or was
\* skipped, for the harnesses whose exit status can be relied on.
SuccessMeansPassed ==
  result = "ok" /\ ExitStatusFaithful =>
    \A f \in Features : outcome[f] \in {"PASSED", "SKIPPED"}

\* runBatch returns nil only if each feature that passed and has stored
\* histories was compared with them: no lookup by name came up empty and no
\* early return stepped over it (handleHistory).
SuccessMeansVerified ==
  result = "ok" /\ ~job.disable =>
    \A f \in Features :
      outcome[f] = "PASSED" /\ job.history[f] = "stored" =>
        hist[f] \in {"matched", "stored"}

\* With a summary in hand, handleHistory never asks the server for the
\* history of a skipped feature.
SkipsLeftAlone ==
  received => \A f \in Features : outcome[f] = "SKIPPED" => hist[f] \notin Handled

\* A batch that succeeds on a summary tunneled exactly the connections its
\* passed features ask for in their config.json (the proxy comparison).
ProxyVerified ==
  result = "ok" /\ received /\ ExpectsProxy =>
    \A k \in Kinds :
      tunneled[k] = MapThenSumSet(LAMBDA f : Expect[f][k],
                                  {f \in Features : outcome[f] = "PASSED"})

\* runBatch always returns: it does not wait for ever on summaryChan,
\* whether the harness never connects, connects late or breaks off.
BatchReturns == <>(mPc = "returned")

\* The batch keeps the promise of BatchVerdict: what the runner goes by
\* changes once, to the exact outcomes or to "all passed".
Believed(f) ==
  IF report = <<>> THEN "unknown"
  ELSE IF f \in Features /\ Listed(report, f) THEN Find(report, f).outcome
  ELSE "none"

Verdict == INSTANCE BatchVerdict WITH
             features <- job.features,
             ran      <- outcome,
             believed <- [f \in 1..MaxFeatures |-> Believed(f)],
             verdict  <- result

KeepsVerdict == Verdict!Spec

\* "summaryServer uses the supplied listener to handle a single incoming
\* connection": a harness that reports is heard, if it ends well.
ReportingHarnessHeard ==
  Harness.summary /\ mPc \in {"proxy", "history"} => received

\* "Run runs all matching features": success says that each one ran.
SuccessMeansRun ==
  result = "ok" => \A f \in Features : outcome[f] \in {"PASSED", "SKIPPED"}
=============================================================================
