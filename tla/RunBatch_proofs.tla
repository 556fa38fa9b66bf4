--------------------------- MODULE RunBatch_proofs ---------------------------
(***************************************************************************)
(* Proofs about RunBatch, for any number of features, any set of           *)
(* harnesses and any expectations.  IInv, the inductive invariant, says    *)
(* where the three processes can be relative to each other (Control), what *)
(* the harness loop has done (Loop), that the socket loses nothing         *)
(* (Stream), what the runner goes by (Report) and what it did about the    *)
(* histories (History).                                                    *)
(***************************************************************************)
EXTENDS RunBatch, SequenceTheorems, TLAPS

-----------------------------------------------------------------------------
(* The inductive invariant *)

Control ==
  /\ wireEnd <=> hState = "exited"
  /\ hResult = "none" <=> hState # "exited"
  /\ hState # "exited" => mPc = "harness"
  /\ mPc \in {"harness", "await"} =>
       report = <<>> /\ result = "none" /\ ~received /\ hIdx = 1
  /\ mPc \in {"await", "proxy", "history"} => hResult = "ok"
  /\ mPc = "returned" <=> result # "none"
  /\ mPc = "proxy" => hIdx = 1
  /\ result = "ok" => hResult = "ok"

\* The goroutine and its socket.
Socket ==
  /\ ~Harness.summary => conn = "none"
  /\ hState = "idle" => conn = "none" /\ next = 1 /\ wire = <<>>
  /\ sPc = "accept" => conn \in {"none", "backlog"} /\ read = <<>>
  /\ sPc \in {"read", "send"} => conn = "accepted"
  /\ sPc = "send" => wire = <<>> /\ wireEnd
  /\ chan = "closed" => sPc = "done"
  /\ conn = "broken" => chan = "closed"

\* The feature loop of the harness.
Loop ==
  /\ next <= job.features + 1
  /\ \A f \in 1..MaxFeatures :
       /\ outcome[f] # "none" => f \in Features /\ f <= next
       /\ outcome[f] # "none" /\ hResult \in {"none", "ok"} => f < next
       /\ f < next /\ Harness.absent # "ignored" => outcome[f] # "none"
  /\ hResult = "ok" /\ ExitStatusFaithful =>
       /\ next = job.features + 1
       /\ \A f \in Features : outcome[f] # "FAILED"

\* What a harness that reports has written so far.
Written == [f \in 1..(next - 1) |-> Entry(f, outcome[f])]

Stream ==
  Harness.summary /\ conn # "broken" /\ hResult \in {"none", "ok"} =>
    read \o wire = Written

AllPassedReport ==
  [f \in Features |-> [name |-> SummaryName(f), outcome |-> "PASSED"]]

Report ==
  /\ received => report = TrueReport /\ Harness.summary /\ hResult = "ok"
  /\ ~received => report \in {<<>>, AllPassedReport}
  /\ mPc \in {"proxy", "history"} \/ result = "ok" \/ hIdx > 1 => report # <<>>

History ==
  /\ hIdx <= job.features + 1
  /\ \A f \in Features :
       /\ f < hIdx => IF LeftAlone(f) # "none" THEN hist[f] = LeftAlone(f)
                                               ELSE hist[f] \in SingleHistory(f)
       /\ f >= hIdx => hist[f] = "none"
  /\ result = "ok" =>
       hIdx = job.features + 1 /\ \A f \in Features : hist[f] # "failed"

IInv == TypeOK /\ Control /\ Socket /\ Loop /\ Stream /\ Report /\ History

-----------------------------------------------------------------------------
(* The constants and the jobs *)

\* What the rest needs to know of the table of harnesses.
LEMMA HarnessTable ==
  ASSUME NEW l
  PROVE  /\ HarnessOf(l).summary \in BOOLEAN
         /\ HarnessOf(l).summary =>
              /\ HarnessOf(l).absent \in {"aborts", "fails"}
              /\ HarnessOf(l).offline = FALSE
         /\ HarnessOf(l).panics => HarnessOf(l).summary
         /\ HarnessOf(l).fullName <=> l = "golocal"
  BY DEF HarnessOf, GoHarness, GoLocalHarness, JavaHarness, RubyHarness,
         TypeScriptHarness, PythonHarness, DotNetHarness, PhpHarness

\* A job has at least one feature; one with a variant has exactly one.
LEMMA JobFacts ==
  ASSUME job \in Jobs
  PROVE  /\ job.features \in 1..MaxFeatures
         /\ job.features \in Nat /\ MaxFeatures \in Nat
         /\ Features \subseteq 1..MaxFeatures
         /\ job.variant \in {"", "v"}
         /\ job.variant # "" => job.features = 1
         /\ 1 \in Features
<1>1. MaxFeatures \in Nat
  BY RunBatchAssumption
<1>2. job.features \in 1..MaxFeatures
  BY DEF Jobs
<1>3. job.features \in Nat /\ 1 <= job.features /\ job.features <= MaxFeatures
  BY <1>1, <1>2
<1>4. 1 \in Features /\ Features \subseteq 1..MaxFeatures
  BY <1>1, <1>3 DEF Features
<1>5. job.variant \in {"", "v"} /\ (job.variant # "" => job.features = 1)
  BY DEF Jobs
<1> QED
  BY <1>1, <1>2, <1>3, <1>4, <1>5

-----------------------------------------------------------------------------
(* Type correctness *)

\* A line of the summary stream has the type of an Entry, whichever name the
\* harness gives it (RunFeature of the Go harness: SummaryName or Dir).
LEMMA EntryType ==
  ASSUME job \in Jobs, NEW f \in 1..MaxFeatures, NEW o \in Outcomes
  PROVE  /\ Entry(f, o) \in Entries
         /\ [name |-> SummaryName(f), outcome |-> o] \in Entries
  BY JobFacts DEF Entry, Entries, SummaryName, Dir

\* Writing a line, or losing it to a broken socket, leaves entries on the wire.
LEMMA WriteType ==
  ASSUME TypeOK, NEW f \in 1..MaxFeatures, NEW o \in Outcomes,
         Write(Entry(f, o))
  PROVE  wire' \in Seq(Entries)
  BY EntryType, AppendProperties DEF TypeOK, Write

\* runBatch starts in a state of the right types.
THEOREM TypeInit == Init => TypeOK
<1> SUFFICES ASSUME Init PROVE TypeOK
  OBVIOUS
<1>1. MaxFeatures \in Nat
  BY RunBatchAssumption
<1>2. next \in 1..(MaxFeatures + 1) /\ hIdx \in 1..(MaxFeatures + 1)
  BY <1>1 DEF Init
<1>3. outcome \in [1..MaxFeatures -> Outcomes \cup {"none"}]
  BY DEF Init
<1>4. hist \in [1..MaxFeatures -> HistoryOutcomes \cup {"none"}]
  BY DEF Init
<1>5. tunneled \in [Kinds -> Nat]
  BY DEF Init
<1>6. wire \in Seq(Entries) /\ read \in Seq(Entries) /\ report \in Seq(Entries)
  BY EmptySeq DEF Init
<1> QED
  BY <1>2, <1>3, <1>4, <1>5, <1>6 DEF Init, TypeOK

\* The types are kept by every step of the language harness.
LEMMA HarnessStepType ==
  ASSUME TypeOK, HarnessStep
  PROVE  TypeOK'
<1> USE DEF TypeOK
<1>1. CASE HarnessNotBuilt
  BY <1>1 DEF HarnessNotBuilt, HarnessEnds, serverVars, mainVars
<1>2. CASE HarnessStarts
  BY <1>2 DEF HarnessStarts, serverVars, mainVars
<1>3. CASE HarnessOffline
  BY <1>3 DEF HarnessOffline, HarnessEnds, serverVars, mainVars
<1>4. ASSUME NEW o \in {"PASSED", "FAILED", "SKIPPED"},
             NEW t \in [Kinds -> 0..MaxTunnels], RunFeature(o, t)
      PROVE  TypeOK'
  <2>1. next \in Features /\ next \in 1..MaxFeatures
    BY <1>4, JobFacts DEF RunFeature, AtFeature
  <2>2. wire' \in Seq(Entries)
    BY <1>4, <2>1, WriteType DEF RunFeature, Outcomes
  <2>3. tunneled' \in [Kinds -> Nat]
    BY <1>4, RunBatchAssumption DEF RunFeature
  <2>4. next' \in 1..(MaxFeatures + 1)
    BY <1>4, <2>1, RunBatchAssumption DEF RunFeature
  <2>5. outcome' \in [1..MaxFeatures -> Outcomes \cup {"none"}]
    BY <1>4, <2>1 DEF RunFeature, Outcomes
  <2> QED
    BY <1>4, <2>2, <2>3, <2>4, <2>5 DEF RunFeature, serverVars, mainVars
<1>5. CASE RunFeaturePanics
  <2>1. next \in 1..MaxFeatures
    BY <1>5, JobFacts DEF RunFeaturePanics, AtFeature
  <2>2. wire' \in Seq(Entries)
    BY <1>5, <2>1, WriteType DEF RunFeaturePanics, Outcomes
  <2> QED
    BY <1>5, <2>1, <2>2
    DEF RunFeaturePanics, HarnessEnds, Outcomes, serverVars, mainVars
<1>6. CASE FeatureAbsent
  <2>1. next \in 1..MaxFeatures
    BY <1>6, JobFacts DEF FeatureAbsent, AtFeature
  <2>2. next' \in 1..(MaxFeatures + 1)
    BY <1>6, <2>1, RunBatchAssumption DEF FeatureAbsent
  <2>3. /\ hState' \in {"idle", "running", "exited"}
        /\ hResult' \in {"none", "ok", "err", "panic"}
        /\ wireEnd' \in BOOLEAN
    BY <1>6 DEF FeatureAbsent, HarnessEnds
  <2> QED
    BY <1>6, <2>2, <2>3 DEF FeatureAbsent, serverVars, mainVars
<1>7. CASE HarnessCrashes
  BY <1>7 DEF HarnessCrashes, HarnessEnds, serverVars, mainVars
<1>8. CASE HarnessFinishes
  BY <1>8 DEF HarnessFinishes, HarnessEnds, serverVars, mainVars
<1> QED
  BY <1>1, <1>2, <1>3, <1>4, <1>5, <1>6, <1>7, <1>8 DEF HarnessStep

\* The types are kept by every step of the goroutine summaryServer.
LEMMA ServerStepType ==
  ASSUME TypeOK, ServerStep
  PROVE  TypeOK'
<1> USE DEF TypeOK, harnessVars, socketVars, mainVars
<1>1. CASE ServerAccepts
  BY <1>1 DEF ServerAccepts
<1>2. CASE ServerNotAccepting
  BY <1>2 DEF ServerNotAccepting
<1>3. CASE ServerReads
  <2>1. Head(wire) \in Entries /\ Tail(wire) \in Seq(Entries)
    BY <1>3, HeadTailProperties DEF ServerReads
  <2>2. Append(read, Head(wire)) \in Seq(Entries)
    BY <2>1, AppendProperties
  <2> QED
    BY <1>3, <2>1, <2>2 DEF ServerReads
<1>4. CASE ServerSeesEOF
  BY <1>4 DEF ServerSeesEOF
<1>5. CASE ServerReadFails
  BY <1>5 DEF ServerReadFails
<1> QED
  BY <1>1, <1>2, <1>3, <1>4, <1>5 DEF ServerStep

\* Renaming keeps a summary a summary of the same length.
LEMMA RewriteType ==
  ASSUME job \in Jobs, NEW s \in Seq(Entries)
  PROVE  RewriteVariantSummary(s) \in Seq(Entries)
<1> DEFINE r == RewriteVariantSummary(s)
<1>1. DOMAIN r = 1..Len(s) /\ Len(s) \in Nat
  BY LenProperties DEF RewriteVariantSummary
<1>2. ASSUME NEW i \in 1..Len(s)
      PROVE  r[i] \in Entries
  <2>1. s[i] \in Entries
    BY ElementOfSeq
  <2>2. s[i].name[1] \in 1..MaxFeatures
    BY <2>1 DEF Entries
  <2>3. [s[i] EXCEPT !.name = SummaryName(@[1])] \in Entries
    BY <2>1, <2>2, JobFacts DEF Entries, SummaryName
  <2> QED
    BY <1>1, <2>1, <2>3, LenProperties DEF RewriteVariantSummary
<1>3. r = [i \in 1..Len(s) |-> r[i]]
  BY LenProperties DEF RewriteVariantSummary
<1> HIDE DEF r
<1>4. r \in [1..Len(s) -> Entries]
  BY <1>2, <1>3
<1> QED
  BY <1>1, <1>4 DEF r

\* What the runner assumes of a legacy harness is a summary too.
LEMMA AllPassedType ==
  ASSUME job \in Jobs
  PROVE  AllPassedReport \in Seq(Entries)
<1>1. \A f \in Features :
        [name |-> SummaryName(f), outcome |-> "PASSED"] \in Entries
  BY JobFacts, EntryType DEF Outcomes
<1>2. AllPassedReport \in [1..job.features -> Entries]
  BY <1>1 DEF AllPassedReport, Features
<1>3. job.features \in Nat
  BY JobFacts
<1> QED
  BY <1>2, <1>3

\* The types are kept by every step of runBatch's own thread.
LEMMA MainStepType ==
  ASSUME TypeOK, MainStep
  PROVE  TypeOK'
<1> USE DEF TypeOK, harnessVars, socketVars, serverVars, Returns
<1>1. CASE HarnessReturned
  BY <1>1 DEF HarnessReturned
<1>2. CASE ReceiveSummary
  <2>1. report' \in Seq(Entries)
    BY <1>2, RewriteType DEF ReceiveSummary
  <2>2. /\ received' = TRUE /\ mPc' = "proxy" /\ sPc' = "done"
        /\ UNCHANGED <<job, harnessVars, socketVars, read, chan, listener, hIdx,
                       hist, result>>
    BY <1>2 DEF ReceiveSummary
  <2> QED
    BY <2>1, <2>2
<1>3. CASE ReceiveNothing
  <2>1. AllPassedReport \in Seq(Entries)
    BY AllPassedType
  <2>2. report' = AllPassedReport
    BY <1>3 DEF ReceiveNothing, AllPassedReport
  <2>3. report' \in Seq(Entries)
    BY <2>1, <2>2
  <2> QED
    BY <1>3, <2>3 DEF ReceiveNothing
<1>4. CASE CheckProxy
  BY <1>4 DEF CheckProxy
<1>5. ASSUME NEW h \in HistoryOutcomes, HandleHistory(h)
      PROVE  TypeOK'
  <2>1. hIdx \in 1..MaxFeatures
    BY <1>5, JobFacts DEF HandleHistory
  <2>2. hIdx' \in 1..(MaxFeatures + 1)
    BY <1>5, <2>1, RunBatchAssumption DEF HandleHistory
  <2>3. hist' \in [1..MaxFeatures -> HistoryOutcomes \cup {"none"}]
    BY <1>5, <2>1 DEF HandleHistory
  <2> QED
    BY <1>5, <2>2, <2>3 DEF HandleHistory
<1>6. CASE HistoryClientFails
  BY <1>6 DEF HistoryClientFails
<1>7. CASE HistoryDone
  BY <1>7 DEF HistoryDone
<1> QED
  BY <1>1, <1>2, <1>3, <1>4, <1>5, <1>6, <1>7 DEF MainStep

\* A step that changes nothing keeps everything.
LEMMA StutterType ==
  ASSUME TypeOK, UNCHANGED vars
  PROVE  TypeOK'
  BY DEF TypeOK, vars, harnessVars, socketVars, serverVars, mainVars

\* Every step of every process keeps the types: sequences stay sequences of
\* entries whatever the harness writes and the server reads, and the loop
\* counters stay within the batch.
THEOREM TypeCorrect == Spec => []TypeOK
<1>1. Init => TypeOK
  BY TypeInit
<1>2. TypeOK /\ [Next]_vars => TypeOK'
  BY HarnessStepType, ServerStepType, MainStepType, StutterType
  DEF Next, Terminated
<1> QED
  BY <1>1, <1>2, PTL DEF Spec

-----------------------------------------------------------------------------
(* Frames: what each process leaves alone *)

\* The harness touches nothing of main or of the server, and has not ended.
LEMMA HarnessFrame ==
  ASSUME HarnessStep
  PROVE  UNCHANGED <<job, serverVars, mainVars>> /\ hState # "exited"
<1>1. ASSUME NEW o, NEW t, RunFeature(o, t)
      PROVE  UNCHANGED <<job, serverVars, mainVars>> /\ hState # "exited"
  BY <1>1 DEF RunFeature, AtFeature
<1> QED
  BY <1>1 DEF HarnessStep, HarnessNotBuilt, HarnessStarts, HarnessOffline,
              RunFeaturePanics, FeatureAbsent, HarnessCrashes, HarnessFinishes,
              AtFeature

\* The server touches nothing of the harness but the wire.
LEMMA ServerFrame ==
  ASSUME ServerStep
  PROVE  UNCHANGED <<job, harnessVars, wireEnd, mainVars>>
  BY DEF ServerStep, ServerAccepts, ServerNotAccepting, ServerReads,
         ServerSeesEOF, ServerReadFails, socketVars

\* Main touches nothing of the harness, the wire or what the server has read.
LEMMA MainFrame ==
  ASSUME MainStep
  PROVE  UNCHANGED <<job, harnessVars, socketVars, read, chan>>
<1>1. ASSUME NEW h, HandleHistory(h)
      PROVE  UNCHANGED <<job, harnessVars, socketVars, read, chan>>
  BY <1>1 DEF HandleHistory, serverVars
<1> QED
  BY <1>1 DEF MainStep, HarnessReturned, ReceiveSummary, ReceiveNothing,
              CheckProxy, HistoryClientFails, HistoryDone, serverVars

-----------------------------------------------------------------------------
(* Control *)

\* Control holds when runBatch starts.
THEOREM ControlInit == Init => Control
  BY DEF Init, Control

\* Control is kept while the harness runs: main waits for it.
LEMMA ControlHarness ==
  ASSUME TypeOK, Control, HarnessStep
  PROVE  Control'
<1>1. UNCHANGED mainVars /\ hState # "exited"
  BY HarnessFrame
<1>2. /\ wireEnd' <=> hState' = "exited"
      /\ hResult' = "none" <=> hState' # "exited"
  <2>1. ASSUME NEW o, NEW t, RunFeature(o, t)
        PROVE  UNCHANGED <<wireEnd, hState, hResult>>
    BY <2>1 DEF RunFeature
  <2> QED
    BY <2>1, <1>1
    DEF Control, HarnessStep, HarnessNotBuilt, HarnessStarts, HarnessOffline,
        RunFeaturePanics, FeatureAbsent, HarnessCrashes, HarnessFinishes,
        HarnessEnds
<1>3. mPc = "harness"
  BY <1>1 DEF Control
<1> QED
  BY <1>1, <1>2, <1>3 DEF Control, mainVars

\* Control is kept as runBatch goes from one wait to the next.
LEMMA ControlMain ==
  ASSUME TypeOK, Control, MainStep
  PROVE  Control'
<1>0. UNCHANGED <<hState, hResult, wireEnd>>
  BY MainFrame DEF harnessVars, socketVars
<1> USE DEF Control, Returns
<1>1. CASE HarnessReturned
  BY <1>0, <1>1 DEF HarnessReturned
<1>2. CASE ReceiveSummary
  BY <1>0, <1>2 DEF ReceiveSummary
<1>3. CASE ReceiveNothing
  BY <1>0, <1>3 DEF ReceiveNothing
<1>4. CASE CheckProxy
  BY <1>0, <1>4 DEF CheckProxy
<1>5. ASSUME NEW h, HandleHistory(h)
      PROVE  Control'
  BY <1>0, <1>5 DEF HandleHistory
<1>6. CASE HistoryClientFails
  BY <1>0, <1>6 DEF HistoryClientFails
<1>7. CASE HistoryDone
  BY <1>0, <1>7 DEF HistoryDone
<1> QED
  BY <1>1, <1>2, <1>3, <1>4, <1>5, <1>6, <1>7 DEF MainStep

\* Control says nothing of the server.
LEMMA ControlServer ==
  ASSUME Control, ServerStep
  PROVE  Control'
  BY ServerFrame DEF Control, harnessVars, mainVars

-----------------------------------------------------------------------------
(* Socket *)

\* Socket holds before the harness dials.
THEOREM SocketInit == Init => Socket
  BY DEF Init, Socket

\* Socket is kept as the harness dials, writes and closes its end.
LEMMA SocketHarness ==
  ASSUME TypeOK, Control, Socket, HarnessStep
  PROVE  Socket'
<1>1. UNCHANGED <<job, serverVars>> /\ hState # "exited"
  BY HarnessFrame
<1>2. Harness' = Harness /\ ~wireEnd /\ sPc # "send"
  BY <1>1 DEF Control, Socket, Harness
<1>3. Harness.summary \in BOOLEAN
  BY HarnessTable DEF Harness
<1> USE <1>1, <1>2, <1>3 DEF Socket, serverVars, HarnessEnds
<1>4. CASE HarnessStarts
  BY <1>4 DEF HarnessStarts
<1>5. ASSUME NEW o, NEW t, RunFeature(o, t)
      PROVE  Socket'
  BY <1>5 DEF RunFeature, AtFeature
<1>6. CASE HarnessNotBuilt
  BY <1>6 DEF HarnessNotBuilt
<1>7. CASE HarnessOffline
  BY <1>7 DEF HarnessOffline
<1>8. CASE RunFeaturePanics
  BY <1>8 DEF RunFeaturePanics, AtFeature
<1>9. CASE FeatureAbsent
  BY <1>9 DEF FeatureAbsent, AtFeature
<1>10. CASE HarnessCrashes
  BY <1>10 DEF HarnessCrashes
<1>11. CASE HarnessFinishes
  BY <1>11 DEF HarnessFinishes
<1> QED
  BY <1>4, <1>5, <1>6, <1>7, <1>8, <1>9, <1>10, <1>11 DEF HarnessStep

\* Socket is kept as the server accepts, reads and sees EOF.
LEMMA SocketServer ==
  ASSUME TypeOK, Control, Socket, ServerStep
  PROVE  Socket'
<1>1. UNCHANGED <<job, hState, next, wireEnd>>
  BY ServerFrame DEF harnessVars
<1>2. Harness' = Harness
  BY <1>1 DEF Harness
<1> USE <1>1, <1>2 DEF Socket, socketVars
<1>3. CASE ServerAccepts
  BY <1>3 DEF ServerAccepts
<1>4. CASE ServerNotAccepting
  BY <1>4 DEF ServerNotAccepting
<1>5. CASE ServerReads
  BY <1>5 DEF ServerReads
<1>6. CASE ServerSeesEOF
  BY <1>6 DEF ServerSeesEOF
<1>7. CASE ServerReadFails
  BY <1>7 DEF ServerReadFails
<1> QED
  BY <1>3, <1>4, <1>5, <1>6, <1>7 DEF ServerStep

\* Socket is kept by main, which only takes the summary off the channel.
LEMMA SocketMain ==
  ASSUME Socket, MainStep
  PROVE  Socket'
<1>1. UNCHANGED <<job, harnessVars, socketVars, read, chan>>
  BY MainFrame
<1>2. Harness' = Harness
  BY <1>1 DEF Harness
<1>3. ASSUME NEW h, HandleHistory(h)
      PROVE  sPc' = sPc
  BY <1>3 DEF HandleHistory, serverVars
<1>4. sPc' = sPc \/ sPc' = "done"
  BY <1>3 DEF MainStep, HarnessReturned, ReceiveSummary, ReceiveNothing,
              CheckProxy, HistoryClientFails, HistoryDone, serverVars
<1> QED
  BY <1>1, <1>2, <1>4 DEF Socket, harnessVars, socketVars

-----------------------------------------------------------------------------
(* Loop *)

\* Loop holds before the first feature.
THEOREM LoopInit == Init => Loop
<1> SUFFICES ASSUME Init PROVE Loop
  OBVIOUS
<1>1. job.features \in Nat /\ MaxFeatures \in Nat
  BY JobFacts DEF Init
<1> QED
  BY <1>1 DEF Init, Loop

\* Loop is kept by the feature loop of every harness and its early exits.
LEMMA LoopHarness ==
  ASSUME TypeOK, Control, Loop, HarnessStep
  PROVE  Loop'
<1>1. /\ job' = job /\ Features' = Features
      /\ Harness' = Harness /\ ExitStatusFaithful' = ExitStatusFaithful
  BY HarnessFrame DEF Features, Harness, ExitStatusFaithful
<1>2. hResult = "none"
  BY HarnessFrame DEF Control
<1>3. /\ next \in Nat /\ 1 <= next /\ job.features \in Nat
      /\ MaxFeatures \in Nat /\ Features \subseteq 1..MaxFeatures
      /\ outcome \in [1..MaxFeatures -> Outcomes \cup {"none"}]
  <2>1. job \in Jobs /\ next \in 1..(MaxFeatures + 1)
        /\ outcome \in [1..MaxFeatures -> Outcomes \cup {"none"}]
    BY DEF TypeOK
  <2>2. /\ job.features \in Nat /\ MaxFeatures \in Nat
        /\ Features \subseteq 1..MaxFeatures
    BY <2>1, JobFacts
  <2> QED
    BY <2>1, <2>2
<1> USE <1>1, <1>2, <1>3 DEF Loop
<1>4. ASSUME NEW o \in {"PASSED", "FAILED", "SKIPPED"}, NEW t, RunFeature(o, t)
      PROVE  Loop'
  <2>1. /\ next \in Features /\ next' = next + 1 /\ hResult' = hResult
        /\ outcome' = [outcome EXCEPT ![next] = o]
    BY <1>4 DEF RunFeature, AtFeature
  <2>2. next' <= job.features + 1
    BY <2>1 DEF Features
  <2> QED
    BY <2>1, <2>2
<1>5. CASE RunFeaturePanics
  <2>1. /\ next \in Features /\ next' = next
        /\ hResult' \in {"err", "panic"}
        /\ outcome' = [outcome EXCEPT ![next] = "FAILED"]
    BY <1>5 DEF RunFeaturePanics, AtFeature, HarnessEnds
  <2> QED
    BY <2>1
<1>6. CASE FeatureAbsent
  <2>1. /\ next \in Features /\ outcome' = outcome
        /\ \/ next' = next /\ hResult' = "err"
           \/ next' = next /\ hResult' = "ok" /\ ~ExitStatusFaithful
           \/ next' = next + 1 /\ hResult' = hResult /\ Harness.absent = "ignored"
    BY <1>6 DEF FeatureAbsent, AtFeature, HarnessEnds, ExitStatusFaithful
  <2>2. next' <= job.features + 1
    BY <2>1 DEF Features
  <2> QED
    BY <2>1, <2>2
<1>7. CASE HarnessFinishes
  <2>1. /\ next \notin Features /\ next' = next /\ outcome' = outcome
        /\ hResult' = "ok" => \A f \in Features : outcome[f] # "FAILED"
    BY <1>7 DEF HarnessFinishes, HarnessEnds
  <2>2. next = job.features + 1
    BY <2>1 DEF Features
  <2> QED
    BY <2>1, <2>2
<1>8. CASE HarnessOffline
  BY <1>8 DEF HarnessOffline, HarnessEnds, ExitStatusFaithful
<1>9. CASE HarnessNotBuilt
  BY <1>9 DEF HarnessNotBuilt, HarnessEnds
<1>10. CASE HarnessStarts
  BY <1>10 DEF HarnessStarts
<1>11. CASE HarnessCrashes
  BY <1>11 DEF HarnessCrashes, HarnessEnds
<1> QED
  BY <1>4, <1>5, <1>6, <1>7, <1>8, <1>9, <1>10, <1>11 DEF HarnessStep

\* Loop is about the harness alone.
LEMMA LoopKept ==
  ASSUME Loop, UNCHANGED <<job, harnessVars>>
  PROVE  Loop'
  BY DEF Loop, harnessVars, Features, Harness, ExitStatusFaithful

-----------------------------------------------------------------------------
(* Stream *)

\* The server moves an entry from the front of the wire to the end of read.
LEMMA MoveHead ==
  ASSUME NEW S, NEW r \in Seq(S), NEW w \in Seq(S), w # <<>>
  PROVE  Append(r, Head(w)) \o Tail(w) = r \o w
<1>1. Head(w) \in S /\ Tail(w) \in Seq(S) /\ w = <<Head(w)>> \o Tail(w)
  BY HeadTailProperties, ConcatProperties
<1>2. Append(r, Head(w)) = r \o <<Head(w)>>
  BY <1>1, AppendIsConcat
<1>3. (r \o <<Head(w)>>) \o Tail(w) = r \o (<<Head(w)>> \o Tail(w))
  BY <1>1, ConcatAssociative
<1> QED
  BY <1>1, <1>2, <1>3

\* An entry appended to the wire is appended to the whole stream.
LEMMA AppendLast ==
  ASSUME NEW S, NEW r \in Seq(S), NEW w \in Seq(S), NEW e \in S
  PROVE  r \o Append(w, e) = Append(r \o w, e)
<1>1. Append(w, e) = w \o <<e>>
  BY AppendIsConcat
<1>2. r \o (w \o <<e>>) = (r \o w) \o <<e>>
  BY ConcatAssociative
<1>3. r \o w \in Seq(S)
  BY ConcatProperties
<1> QED
  BY <1>1, <1>2, <1>3, AppendIsConcat

\* Stream holds before anything is written.
THEOREM StreamInit == Init => Stream
  BY EmptySeq, ConcatEmptySeq DEF Init, Stream, Written

\* Stream is kept as the harness appends one entry per feature.
LEMMA StreamHarness ==
  ASSUME TypeOK, Control, Socket, Loop, Stream, HarnessStep
  PROVE  Stream'
<1>1. /\ job' = job /\ read' = read /\ Harness' = Harness
      /\ \A f, o : Entry(f, o)' = Entry(f, o)
  BY HarnessFrame DEF serverVars, Harness, Entry, SummaryName, Dir
<1>2. hResult = "none"
  BY HarnessFrame DEF Control
<1>3. Harness.summary =>
        Harness.absent \in {"aborts", "fails"} /\ Harness.offline = FALSE
  BY HarnessTable DEF Harness
<1>4. ASSUME NEW o \in {"PASSED", "FAILED", "SKIPPED"}, NEW t, RunFeature(o, t)
      PROVE  Stream'
  <2> SUFFICES ASSUME Harness.summary, conn' # "broken"
               PROVE  read' \o wire' = Written'
    BY <1>1 DEF Stream
  <2>1. /\ next \in Features /\ next' = next + 1
        /\ outcome' = [outcome EXCEPT ![next] = o]
        /\ wire' = Append(wire, Entry(next, o)) /\ conn # "broken"
    BY <1>4 DEF RunFeature, AtFeature, Write
  <2>2. job \in Jobs /\ read \in Seq(Entries) /\ wire \in Seq(Entries)
        /\ outcome \in [1..MaxFeatures -> Outcomes \cup {"none"}]
    BY DEF TypeOK
  <2>3. next \in 1..MaxFeatures /\ next \in Nat /\ MaxFeatures \in Nat
    <3>1. MaxFeatures \in Nat /\ Features \subseteq 1..MaxFeatures
      BY <2>2, JobFacts
    <3>2. next \in 1..MaxFeatures
      BY <2>1, <3>1
    <3> QED
      BY <3>1, <3>2
  <2>4. Entry(next, o) \in Entries
    BY <2>2, <2>3, EntryType DEF Outcomes
  <2>5. read \o wire' = Append(Written, Entry(next, o))
    BY <1>2, <2>1, <2>2, <2>4, AppendLast DEF Stream
  <2>6. Append(Written, Entry(next, o)) =
          [f \in 1..next |-> Entry(f, outcome'[f])]
    <3>1. Written \in Seq(Entries) /\ Len(Written) = next - 1
      <4>1. read \o wire \in Seq(Entries)
        BY <2>2, ConcatProperties
      <4>2. Written = read \o wire
        BY <1>2, <2>1 DEF Stream
      <4>3. DOMAIN Written = 1..(next - 1)
        BY DEF Written
      <4> QED
        BY <4>1, <4>2, <4>3, <2>3
    <3>2. \A f \in 1..(next - 1) : Written[f] = Entry(f, outcome'[f])
      BY <2>1, <2>2, <2>3 DEF Written
    <3>3. outcome'[next] = o
      BY <2>1, <2>2, <2>3
    <3> DEFINE app == Append(Written, Entry(next, o))
    <3>4. /\ DOMAIN app = 1..next /\ app[next] = Entry(next, o)
          /\ \A f \in 1..(next - 1) : app[f] = Written[f]
          /\ app \in Seq(Entries)
      BY <3>1, <2>3, <2>4, AppendProperties
    <3>5. \A f \in 1..next : app[f] = Entry(f, outcome'[f])
      BY <3>2, <3>3, <3>4, <2>3
    <3> HIDE DEF app
    <3>6. app = [f \in 1..next |-> app[f]]
      <4>1. app \in [1..Len(app) -> Entries] /\ DOMAIN app = 1..Len(app)
        BY <3>4, LenProperties
      <4> QED
        BY <3>4, <4>1
    <3>7. app = [f \in 1..next |-> Entry(f, outcome'[f])]
      BY <3>5, <3>6
    <3> QED
      BY <3>7 DEF app
  <2>7. Written' = [f \in 1..next |-> Entry(f, outcome'[f])]
    BY <1>1, <2>1, <2>3 DEF Written
  <2> QED
    BY <1>1, <2>5, <2>6, <2>7
<1>5. CASE RunFeaturePanics
  BY <1>5 DEF RunFeaturePanics, HarnessEnds, Stream
<1>6. CASE HarnessNotBuilt
  BY <1>6 DEF HarnessNotBuilt, HarnessEnds, Stream
<1>7. CASE HarnessCrashes
  BY <1>7 DEF HarnessCrashes, HarnessEnds, Stream
<1> DEFINE Keeps ==
      /\ UNCHANGED <<next, outcome, wire>>
      /\ conn' # "broken" => conn # "broken"
<1>8. CASE Keeps
  <2>1. Written' = Written
    BY <1>1, <1>8 DEF Written
  <2> QED
    BY <1>1, <1>2, <1>8, <2>1 DEF Stream
<1>9. CASE HarnessStarts
  <2>1. Keeps
    BY <1>9 DEF HarnessStarts, Socket
  <2> QED
    BY <1>8, <2>1
<1>10. CASE HarnessOffline
  BY <1>1, <1>3, <1>10 DEF HarnessOffline, Stream
<1>11. CASE FeatureAbsent
  <2>1. Keeps \/ ~Harness.summary
    BY <1>3, <1>11 DEF FeatureAbsent
  <2> QED
    BY <1>1, <1>8, <2>1 DEF Stream
<1>12. CASE HarnessFinishes
  <2>1. Keeps
    BY <1>12 DEF HarnessFinishes
  <2> QED
    BY <1>8, <2>1
<1> QED
  BY <1>4, <1>5, <1>6, <1>7, <1>9, <1>10, <1>11, <1>12 DEF HarnessStep

\* Stream is kept as the server moves entries from the wire to its summary.
LEMMA StreamServer ==
  ASSUME TypeOK, Stream, ServerStep
  PROVE  Stream'
<1>1. UNCHANGED <<job, hResult, next, outcome>>
  BY ServerFrame DEF harnessVars
<1>2. Harness' = Harness /\ Written' = Written
  BY <1>1 DEF Harness, Written, Entry, SummaryName, Dir
<1> USE <1>1, <1>2 DEF Stream, socketVars
<1>3. CASE ServerAccepts
  <2>1. conn = "backlog"
    BY <1>3 DEF ServerAccepts
  <2> QED
    BY <1>3, <2>1 DEF ServerAccepts
<1>4. CASE ServerNotAccepting
  BY <1>4 DEF ServerNotAccepting
<1>5. CASE ServerReads
  <2>1. read \in Seq(Entries) /\ wire \in Seq(Entries) /\ wire # <<>>
    BY <1>5 DEF ServerReads, TypeOK
  <2>2. read' \o wire' = read \o wire
    BY <1>5, <2>1, MoveHead DEF ServerReads
  <2> QED
    BY <1>5, <2>2 DEF ServerReads
<1>6. CASE ServerSeesEOF
  BY <1>6 DEF ServerSeesEOF
<1>7. CASE ServerReadFails
  BY <1>7 DEF ServerReadFails
<1> QED
  BY <1>3, <1>4, <1>5, <1>6, <1>7 DEF ServerStep

\* Stream is about the harness, the wire and what was read.
LEMMA StreamKept ==
  ASSUME Stream, UNCHANGED <<job, harnessVars, socketVars, read>>
  PROVE  Stream'
  BY DEF Stream, Written, Harness, Entry, SummaryName, Dir, harnessVars,
         socketVars

-----------------------------------------------------------------------------
(* Report *)

\* Renamed or not, what the harness wrote of all features is TrueReport.
LEMMA RewriteExact ==
  ASSUME job \in Jobs, NEW s, s = [f \in Features |-> Entry(f, outcome[f])]
  PROVE  /\ RewriteVariantSummary(s) = TrueReport
         /\ job.variant = "" => s = TrueReport
<1>1. ASSUME NEW f \in Features
      PROVE  /\ s[f].outcome = outcome[f]
             /\ s[f].name = SummaryName(f) \/ s[f].name = Dir(f)
             /\ s[f] = [name |-> s[f].name, outcome |-> outcome[f]]
  BY DEF Entry
<1>2. ASSUME NEW f \in Features
      PROVE  RewriteVariantSummary(s)[f] =
               [name |-> SummaryName(f), outcome |-> outcome[f]]
  <2>1. CASE \E g \in Features : s[f].name = Dir(g)
    <3>1. s[f].name[1] = f
      <4>1. SummaryName(f)[1] = f /\ Dir(f)[1] = f
        BY DEF SummaryName, Dir
      <4> QED
        BY <1>1, <4>1
    <3>2. RewriteVariantSummary(s)[f] =
            [s[f] EXCEPT !.name = SummaryName(s[f].name[1])]
      BY <2>1 DEF RewriteVariantSummary
    <3> QED
      BY <1>1, <3>1, <3>2
  <2>2. CASE ~\E g \in Features : s[f].name = Dir(g)
    <3>1. s[f].name = SummaryName(f)
      BY <1>1, <2>2
    <3>2. RewriteVariantSummary(s)[f] = s[f]
      BY <2>2 DEF RewriteVariantSummary
    <3> QED
      BY <1>1, <3>1, <3>2
  <2> QED
    BY <2>1, <2>2
<1>3. RewriteVariantSummary(s) = [f \in Features |-> RewriteVariantSummary(s)[f]]
  BY DEF RewriteVariantSummary
<1>4. RewriteVariantSummary(s) = TrueReport
  <2> HIDE DEF RewriteVariantSummary
  <2> QED
    BY <1>2, <1>3 DEF TrueReport
<1>5. ASSUME job.variant = ""
      PROVE  s = TrueReport
  BY <1>5 DEF TrueReport, Entry, SummaryName, Dir
<1> QED
  BY <1>4, <1>5

\* When a summary is handed over, the harness has come through its loop and
\* everything it wrote has been read.
LEMMA HandedOver ==
  ASSUME TypeOK, Control, Socket, Loop, Stream, mPc = "await", sPc = "send"
  PROVE  /\ Harness.summary /\ hResult = "ok"
         /\ read = [f \in Features |-> Entry(f, outcome[f])]
<1>1. hResult = "ok" /\ conn = "accepted" /\ wire = <<>>
  BY DEF Control, Socket
<1>2. Harness.summary
  BY <1>1 DEF Socket
<1>3. ExitStatusFaithful
  BY <1>2, HarnessTable DEF ExitStatusFaithful, Harness
<1>4. next = job.features + 1
  BY <1>1, <1>3 DEF Loop
<1>5. read \o <<>> = read
  BY ConcatEmptySeq DEF TypeOK
<1>6. read = Written
  BY <1>1, <1>2, <1>5 DEF Stream
<1>7. job \in Jobs
  BY DEF TypeOK
<1>8. next - 1 = job.features
  <2>1. job.features \in Nat
    BY <1>7, JobFacts
  <2> QED
    BY <1>4, <2>1
<1> QED
  BY <1>1, <1>2, <1>6, <1>8 DEF Written, Features

\* A batch has a feature, so neither report it may go by is empty.
LEMMA NotEmpty ==
  ASSUME job \in Jobs
  PROVE  TrueReport # <<>> /\ AllPassedReport # <<>>
<1>1. 1 \in Features
  BY JobFacts
<1>2. 1 \in DOMAIN TrueReport /\ 1 \in DOMAIN AllPassedReport
  BY <1>1 DEF TrueReport, AllPassedReport
<1>3. DOMAIN <<>> = {}
  OBVIOUS
<1> QED
  BY <1>2, <1>3

\* Report holds before runBatch has a summary.
THEOREM ReportInit == Init => Report
  BY DEF Init, Report

\* Report is kept by the harness: it ended before there is a report.
LEMMA ReportHarness ==
  ASSUME Control, Report, HarnessStep
  PROVE  Report'
<1>1. UNCHANGED <<job, mainVars>> /\ hState # "exited"
  BY HarnessFrame
<1>2. mPc = "harness"
  BY <1>1 DEF Control
<1> QED
  BY <1>1, <1>2 DEF Control, Report, AllPassedReport, SummaryName, Features,
                   mainVars

\* Report is kept by the server: what it reads later is not the report.
LEMMA ReportServer ==
  ASSUME Report, ServerStep
  PROVE  Report'
  BY ServerFrame DEF Report, AllPassedReport, TrueReport, SummaryName, Features,
                     Harness, harnessVars, mainVars

\* Report is kept as main takes the summary, or assumes one.
LEMMA ReportMain ==
  ASSUME TypeOK, Control, Socket, Loop, Stream, Report, MainStep
  PROVE  Report'
<1>1. UNCHANGED <<job, hResult, outcome>>
  BY MainFrame DEF harnessVars
<1>2. /\ Harness' = Harness /\ TrueReport' = TrueReport
      /\ AllPassedReport' = AllPassedReport
  BY <1>1 DEF Harness, TrueReport, AllPassedReport, SummaryName, Features
<1>3. job \in Jobs
  BY DEF TypeOK
<1> USE <1>1, <1>2 DEF Report, Returns
<1>4. CASE HarnessReturned
  BY <1>4 DEF HarnessReturned, Control
<1>5. CASE ReceiveSummary
  <2>1. mPc = "await" /\ sPc = "send"
    BY <1>5 DEF ReceiveSummary
  <2>2. /\ Harness.summary /\ hResult = "ok"
        /\ read = [f \in Features |-> Entry(f, outcome[f])]
    BY <2>1, HandedOver
  <2>3. report' = TrueReport
    BY <1>3, <1>5, <2>2, RewriteExact DEF ReceiveSummary
  <2>4. received' = TRUE
    BY <1>5 DEF ReceiveSummary
  <2> QED
    BY <1>3, <2>2, <2>3, <2>4, NotEmpty
<1>6. CASE ReceiveNothing
  <2>1. report' = AllPassedReport
    BY <1>6 DEF ReceiveNothing, AllPassedReport
  <2>2. ~received'
    BY <1>6 DEF ReceiveNothing, Control
  <2> QED
    BY <1>3, <2>1, <2>2, NotEmpty
<1>7. CASE CheckProxy
  BY <1>7 DEF CheckProxy
<1>8. ASSUME NEW h, HandleHistory(h)
      PROVE  Report'
  BY <1>8 DEF HandleHistory
<1>9. CASE HistoryClientFails
  BY <1>9 DEF HistoryClientFails
<1>10. CASE HistoryDone
  BY <1>10 DEF HistoryDone
<1> QED
  BY <1>4, <1>5, <1>6, <1>7, <1>8, <1>9, <1>10 DEF MainStep

-----------------------------------------------------------------------------
(* History *)

\* Whatever the runner goes by, a lookup by name finds the feature's entry.
LEMMA FindAt ==
  ASSUME job \in Jobs, report \in {TrueReport, AllPassedReport},
         NEW f \in Features
  PROVE  /\ Listed(report, f)
         /\ Find(report, f) = report[f]
         /\ Find(report, f).outcome =
              IF report = TrueReport THEN outcome[f] ELSE "PASSED"
<1>1. DOMAIN report = Features
  BY DEF TrueReport, AllPassedReport
<1>2. \A g \in Features : report[g].name = SummaryName(g)
  BY DEF TrueReport, AllPassedReport
<1>3. report[f].outcome = IF report = TrueReport THEN outcome[f] ELSE "PASSED"
  BY DEF TrueReport, AllPassedReport
<1>4. \A g, h : SummaryName(g) = SummaryName(h) => g = h
  BY DEF SummaryName
<1> DEFINE First(i) == /\ report[i].name = SummaryName(f)
                       /\ \A j \in 1..(i - 1) : report[j].name # SummaryName(f)
<1>5. First(f)
  <2>1. ASSUME NEW j \in 1..(f - 1)
        PROVE  j \in Features /\ j # f
    <3>1. job.features \in Nat
      BY JobFacts
    <3> QED
      BY <3>1 DEF Features
  <2> QED
    BY <1>2, <1>4, <2>1
<1>6. ASSUME NEW i \in DOMAIN report, First(i)
      PROVE  i = f
  BY <1>1, <1>2, <1>4, <1>6
<1>7. f = CHOOSE i \in DOMAIN report : First(i)
  <2> HIDE DEF First
  <2> QED
    BY <1>1, <1>5, <1>6
<1> QED
  BY <1>1, <1>2, <1>3, <1>7 DEF Listed, Find

\* History holds before handleHistory.
THEOREM HistoryInit == Init => History
<1> SUFFICES ASSUME Init PROVE History
  OBVIOUS
<1>1. /\ job.features \in Nat /\ 1 <= job.features
      /\ Features \subseteq 1..MaxFeatures
  <2>1. job \in Jobs
    BY DEF Init
  <2>2. 1 \in Features /\ job.features \in Nat
    BY <2>1, JobFacts
  <2>3. Features \subseteq 1..MaxFeatures
    BY <2>1, JobFacts
  <2>4. 1 <= job.features
    BY <2>2 DEF Features
  <2> QED
    BY <2>2, <2>3, <2>4
<1>2. hIdx = 1 /\ result = "none" /\ \A f \in Features : f >= 1 /\ hist[f] = "none"
  BY <1>1 DEF Init, Features
<1> QED
  BY <1>1, <1>2 DEF History, Features

\* History is kept by the harness: it ended before handleHistory.
LEMMA HistoryHarness ==
  ASSUME TypeOK, Control, History, HarnessStep
  PROVE  History'
<1>1. UNCHANGED <<job, hIdx, hist, result>> /\ hState # "exited"
  BY HarnessFrame DEF mainVars
<1>2. hIdx = 1 /\ result = "none" /\ Features' = Features
  BY <1>1 DEF Control, Features
<1>3. job.features \in Nat
  BY JobFacts DEF TypeOK
<1>4. \A f \in Features : f >= 1
  BY <1>3 DEF Features
<1> QED
  BY <1>1, <1>2, <1>3, <1>4 DEF History, Features

\* History is about the report and what handleHistory did.
LEMMA HistoryKept ==
  ASSUME History, UNCHANGED <<job, outcome, report, hIdx, hist, result>>
  PROVE  History'
<1>1. /\ Features' = Features
      /\ \A f : LeftAlone(f)' = LeftAlone(f)
      /\ \A f : SingleHistory(f)' = SingleHistory(f)
  BY DEF Features, LeftAlone, SingleHistory, Listed, Find, SummaryName
<1> QED
  BY <1>1 DEF History

\* History is kept by each turn of handleHistory and by what it returns.
LEMMA HistoryMain ==
  ASSUME TypeOK, Control, History, MainStep
  PROVE  History'
<1>1. UNCHANGED <<job, outcome>>
  BY MainFrame DEF harnessVars
<1>2. /\ Features' = Features
      /\ \A f : SingleHistory(f)' = SingleHistory(f)
  BY <1>1 DEF Features, SingleHistory
<1>3. /\ job.features \in Nat /\ MaxFeatures \in Nat
      /\ Features \subseteq 1..MaxFeatures /\ Features \subseteq Nat
      /\ \A f \in Features : 1 <= f /\ f <= job.features
  <2>1. job \in Jobs
    BY DEF TypeOK
  <2>2. /\ job.features \in Nat /\ MaxFeatures \in Nat
        /\ Features \subseteq 1..MaxFeatures
    BY <2>1, JobFacts
  <2> QED
    BY <2>2 DEF Features
\* Before the report is there, no history has been looked at.
<1>4. ASSUME mPc \in {"harness", "await"}, hIdx' = hIdx, hist' = hist,
             result' # "ok"
      PROVE  History'
  <2>1. hIdx = 1
    BY <1>4 DEF Control
  <2>2. \A f \in Features : hist[f] = "none"
    BY <1>3, <2>1 DEF History
  <2>3. hIdx' <= job'.features + 1
    BY <1>1, <1>4, <2>1 DEF History
  <2>4. \A f \in Features' : ~(f < hIdx') /\ hist'[f] = "none"
    BY <1>2, <1>3, <1>4, <2>1, <2>2
  <2> QED
    BY <1>4, <2>3, <2>4 DEF History
<1>5. CASE HarnessReturned
  BY <1>4, <1>5 DEF HarnessReturned, Returns, Control
<1>6. CASE ReceiveSummary
  BY <1>4, <1>6 DEF ReceiveSummary, Control
<1>7. CASE ReceiveNothing
  BY <1>4, <1>7 DEF ReceiveNothing, Control
\* Afterwards the report stays.
<1>8. ASSUME report' = report
      PROVE  \A f : LeftAlone(f)' = LeftAlone(f)
  BY <1>1, <1>8 DEF LeftAlone, Listed, Find, SummaryName
<1>9. ASSUME UNCHANGED <<report, hIdx, hist>>, result' = result \/ result' # "ok"
      PROVE  History'
  BY <1>1, <1>2, <1>8, <1>9 DEF History
<1>10. CASE CheckProxy
  BY <1>9, <1>10 DEF CheckProxy, Returns
<1>11. CASE HistoryClientFails
  BY <1>9, <1>11 DEF HistoryClientFails, Returns
<1>12. ASSUME NEW h, HandleHistory(h)
       PROVE  History'
  <2>1. /\ hIdx \in Features /\ hIdx' = hIdx + 1 /\ mPc = "history"
        /\ hist' = [hist EXCEPT ![hIdx] = h] /\ report' = report
        /\ result' = result
    BY <1>12 DEF HandleHistory
  <2>2. IF LeftAlone(hIdx) # "none" THEN h = LeftAlone(hIdx)
                                    ELSE h \in SingleHistory(hIdx)
    BY <1>12 DEF HandleHistory
  <2>3. result = "none"
    BY <2>1 DEF Control
  <2>4. hIdx' <= job'.features + 1
    BY <1>1, <1>3, <2>1
  <2>5. DOMAIN hist = 1..MaxFeatures
    BY DEF TypeOK
  <2>6. ASSUME NEW f \in Features, f < hIdx'
        PROVE  IF LeftAlone(f) # "none" THEN hist'[f] = LeftAlone(f)
                                        ELSE hist'[f] \in SingleHistory(f)
    <3>1. f < hIdx \/ f = hIdx
      BY <1>3, <2>1, <2>6
    <3>2. f # hIdx => hist'[f] = hist[f]
      BY <1>3, <2>1, <2>5
    <3>3. hist'[hIdx] = h
      BY <1>3, <2>1, <2>5
    <3>4. CASE f = hIdx
      BY <2>2, <3>3, <3>4
    <3>5. CASE f # hIdx
      BY <3>1, <3>2, <3>5 DEF History
    <3> QED
      BY <3>4, <3>5
  <2>7. ASSUME NEW f \in Features, f >= hIdx'
        PROVE  hist'[f] = "none"
    <3>1. f >= hIdx /\ f # hIdx
      BY <1>3, <2>1, <2>7
    <3> QED
      BY <1>3, <2>1, <2>5, <3>1 DEF History
  <2> QED
    BY <1>2, <1>8, <2>1, <2>3, <2>4, <2>6, <2>7 DEF History
<1>13. CASE HistoryDone
  <2>1. /\ hIdx \notin Features /\ UNCHANGED <<hIdx, hist, report>>
        /\ result' = "ok" => \A f \in Features : hist[f] # "failed"
    BY <1>13 DEF HistoryDone, Returns
  <2>2. hIdx = job.features + 1
    <3>1. hIdx \in Nat /\ 1 <= hIdx /\ hIdx <= job.features + 1
      BY <1>3 DEF TypeOK, History
    <3> QED
      BY <1>3, <2>1, <3>1 DEF Features
  <2> QED
    BY <1>1, <1>2, <1>8, <2>1, <2>2 DEF History
<1> QED
  BY <1>5, <1>6, <1>7, <1>10, <1>11, <1>12, <1>13 DEF MainStep

-----------------------------------------------------------------------------
(* The inductive invariant holds *)

\* The inductive invariant holds when runBatch has its listener.
THEOREM IInvInit == Init => IInv
  BY TypeInit, ControlInit, SocketInit, LoopInit, StreamInit, ReportInit,
     HistoryInit
  DEF IInv

\* No step of the harness, the server or main breaks the inductive invariant.
THEOREM IInvStep == IInv /\ [Next]_vars => IInv'
<1> SUFFICES ASSUME IInv, [Next]_vars PROVE IInv'
  OBVIOUS
<1> USE DEF IInv
<1>1. CASE HarnessStep
  BY <1>1, HarnessStepType, ControlHarness, SocketHarness, LoopHarness,
     StreamHarness, ReportHarness, HistoryHarness
<1>2. CASE ServerStep
  <2>1. Loop'
    BY <1>2, ServerFrame, LoopKept
  <2>2. History'
    BY <1>2, ServerFrame, HistoryKept DEF harnessVars, mainVars
  <2> QED
    BY <1>2, <2>1, <2>2, ServerStepType, ControlServer, SocketServer,
       StreamServer, ReportServer
<1>3. CASE MainStep
  <2>1. Loop' /\ Stream'
    BY <1>3, MainFrame, LoopKept, StreamKept
  <2> QED
    BY <1>3, <2>1, MainStepType, ControlMain, SocketMain, ReportMain,
       HistoryMain
<1>4. CASE UNCHANGED vars
  <2>1. TypeOK' /\ Loop' /\ Stream' /\ History'
    BY <1>4, StutterType, LoopKept, StreamKept, HistoryKept
    DEF vars, harnessVars, socketVars, serverVars, mainVars
  <2>2. Control' /\ Socket' /\ Report'
    BY <1>4
    DEF vars, harnessVars, socketVars, serverVars, mainVars, Control, Socket,
        Report, TrueReport, AllPassedReport, SummaryName, Features, Harness
  <2> QED
    BY <2>1, <2>2
<1> QED
  BY <1>1, <1>2, <1>3, <1>4 DEF Next, Terminated

\* So it holds throughout the batch, whatever the order of their steps.
THEOREM Invariance == Spec => []IInv
  BY IInvInit, IInvStep, PTL DEF Spec

-----------------------------------------------------------------------------
(* The safety properties *)

\* A summary that crossed the socket and the channel is the true one, for any
\* number of features, any harness and any interleaving.
THEOREM SummaryCorrect == Spec => []SummaryExact
<1>1. IInv => SummaryExact
  BY DEF IInv, Report, SummaryExact
<1> QED
  BY <1>1, Invariance, PTL

\* Where the exit status can be relied on, success means that every feature
\* came to its turn and none failed.
THEOREM SuccessPassed == Spec => []SuccessMeansPassed
<1>1. ASSUME IInv, result = "ok", ExitStatusFaithful, NEW f \in Features
      PROVE  outcome[f] \in {"PASSED", "SKIPPED"}
  <2>1. hResult = "ok" /\ job \in Jobs
    BY <1>1 DEF IInv, Control, TypeOK
  <2>2. next = job.features + 1 /\ outcome[f] # "FAILED"
    BY <1>1, <2>1 DEF IInv, Loop
  <2>3. f \in 1..MaxFeatures /\ f < next
    <3>1. job.features \in Nat /\ Features \subseteq 1..MaxFeatures
      BY <2>1, JobFacts
    <3> QED
      BY <2>2, <3>1 DEF Features
  <2>4. outcome[f] # "none"
    BY <1>1, <2>3 DEF IInv, Loop, ExitStatusFaithful
  <2>5. outcome[f] \in Outcomes \cup {"none"}
    BY <1>1, <2>3 DEF IInv, TypeOK
  <2> QED
    BY <2>2, <2>4, <2>5 DEF Outcomes
<1>2. IInv => SuccessMeansPassed
  BY <1>1 DEF SuccessMeansPassed
<1> QED
  BY <1>2, Invariance, PTL

\* The runner goes by the true report or by "all passed" once it has one.
LEMMA ReportIsOneOfTwo ==
  ASSUME IInv, result = "ok" \/ received
  PROVE  job \in Jobs /\ report \in {TrueReport, AllPassedReport}
  BY DEF IInv, TypeOK, Report

\* Success means that each passed feature with stored histories was compared
\* with them: neither the lookup by name nor an early return missed it.
THEOREM SuccessVerified == Spec => []SuccessMeansVerified
<1>1. ASSUME IInv, result = "ok", ~job.disable, NEW f \in Features,
             outcome[f] = "PASSED", job.history[f] = "stored"
      PROVE  hist[f] \in {"matched", "stored"}
  <2>1. job \in Jobs /\ report \in {TrueReport, AllPassedReport}
    BY <1>1, ReportIsOneOfTwo
  <2>2. Listed(report, f) /\ Find(report, f).outcome = "PASSED"
    BY <1>1, <2>1, FindAt
  <2>3. LeftAlone(f) = "none"
    BY <1>1, <2>2 DEF LeftAlone
  <2>4. hIdx = job.features + 1 /\ hist[f] # "failed"
    BY <1>1 DEF IInv, History
  <2>5. f < hIdx
    <3>1. job.features \in Nat
      BY <2>1, JobFacts
    <3> QED
      BY <2>4, <3>1 DEF Features
  <2>6. hist[f] \in SingleHistory(f)
    BY <1>1, <2>3, <2>5 DEF IInv, History
  <2> QED
    BY <1>1, <2>4, <2>6 DEF SingleHistory
<1>2. IInv => SuccessMeansVerified
  BY <1>1 DEF SuccessMeansVerified
<1> QED
  BY <1>2, Invariance, PTL

\* With a summary in hand, a skipped feature's history is never asked for.
THEOREM SkipsRespected == Spec => []SkipsLeftAlone
<1>1. ASSUME IInv, received, NEW f \in Features, outcome[f] = "SKIPPED"
      PROVE  hist[f] \notin Handled
  <2>1. job \in Jobs /\ report = TrueReport
    BY <1>1, ReportIsOneOfTwo DEF IInv, Report
  <2>2. Listed(report, f) /\ Find(report, f).outcome = "SKIPPED"
    BY <1>1, <2>1, FindAt
  <2>3. LeftAlone(f) \in {"ignored", "skipped"}
    BY <2>2 DEF LeftAlone
  <2>4. f < hIdx \/ f >= hIdx
    <3>1. job.features \in Nat /\ MaxFeatures \in Nat
      BY <2>1, JobFacts
    <3> QED
      BY <1>1, <3>1 DEF IInv, TypeOK, Features
  <2>5. hist[f] = LeftAlone(f) \/ hist[f] = "none"
    BY <1>1, <2>3, <2>4 DEF IInv, History
  <2> QED
    BY <2>3, <2>5 DEF Handled
<1>2. IInv => SkipsLeftAlone
  BY <1>1 DEF SkipsLeftAlone
<1> QED
  BY <1>2, Invariance, PTL

-----------------------------------------------------------------------------
(* Which summaries are lost *)

\* A harness that reports and was started has dialed the listener.
Dialed ==
  Harness.summary /\ (hState = "running" \/ hResult = "ok") => conn # "none"

\* The goroutine has ended when main goes on, and if the connection it
\* accepted did not break it ended by handing its summary over.
Settled ==
  /\ mPc \in {"proxy", "history"} => sPc = "done"
  /\ sPc = "done" /\ conn = "accepted" => received
  /\ conn = "broken" => ConnMayBreak

LEMMA DialedKept ==
  ASSUME IInv, Dialed, [Next]_vars
  PROVE  Dialed'
<1>1. CASE HarnessStep
  <2>1. Harness' = Harness
    BY <1>1, HarnessFrame DEF Harness
  <2>2. CASE HarnessStarts
    <3>1. hResult' = hResult /\ (Harness.summary => conn' = "backlog")
      BY <2>2 DEF HarnessStarts
    <3> QED
      BY <2>1, <3>1 DEF Dialed
  <2>3. CASE HarnessNotBuilt
    BY <2>1, <2>3 DEF HarnessNotBuilt, HarnessEnds, Dialed
  <2>4. ASSUME NEW o, NEW t, RunFeature(o, t)
        PROVE  Dialed'
    BY <2>1, <2>4 DEF RunFeature, Dialed
  <2>5. CASE HarnessOffline \/ RunFeaturePanics \/ FeatureAbsent \/ HarnessCrashes
             \/ HarnessFinishes
    <3>1. hState = "running" /\ conn' = conn
      BY <2>5 DEF HarnessOffline, RunFeaturePanics, FeatureAbsent, HarnessCrashes,
         HarnessFinishes, AtFeature
    <3> QED
      BY <2>1, <3>1 DEF Dialed
  <2> QED
    BY <1>1, <2>2, <2>3, <2>4, <2>5 DEF HarnessStep
<1>2. CASE ServerStep
  <2>1. /\ UNCHANGED <<job, hState, hResult>>
        /\ conn' \in {conn, "accepted", "broken"}
    BY <1>2, ServerFrame DEF ServerStep, ServerAccepts, ServerNotAccepting, ServerReads,
       ServerSeesEOF, ServerReadFails, socketVars, harnessVars
  <2> QED
    BY <2>1 DEF Dialed, Harness
<1>3. CASE MainStep \/ UNCHANGED vars
  <2>1. UNCHANGED <<job, hState, hResult, conn>>
    BY <1>3, MainFrame DEF vars, harnessVars, socketVars
  <2> QED
    BY <2>1 DEF Dialed, Harness
<1> QED
  BY <1>1, <1>2, <1>3 DEF Next, Terminated

LEMMA SettledKept ==
  ASSUME IInv, Settled, [Next]_vars
  PROVE  Settled'
<1>1. CASE HarnessStep
  <2>1. sPc' = sPc /\ mPc' = mPc /\ received' = received
    BY <1>1, HarnessFrame DEF serverVars, mainVars
  <2>2. conn' \in {conn, "backlog"}
    <3>1. ASSUME NEW o, NEW t, RunFeature(o, t)
          PROVE  conn' = conn
      BY <3>1 DEF RunFeature
    <3> QED
      BY <1>1, <3>1 DEF HarnessStep, HarnessNotBuilt, HarnessStarts, HarnessOffline,
         RunFeaturePanics, FeatureAbsent, HarnessCrashes, HarnessFinishes
  <2> QED
    BY <2>1, <2>2 DEF Settled
<1>2. CASE ServerStep
  <2>1. sPc # "done" /\ mPc' = mPc /\ received' = received
    BY <1>2, ServerFrame DEF ServerStep, ServerAccepts, ServerNotAccepting, ServerReads,
       ServerSeesEOF, ServerReadFails, mainVars
  <2>2. sPc' = "done" => conn' # "accepted"
    BY <1>2, <2>1 DEF ServerStep, ServerAccepts, ServerNotAccepting, ServerReads,
       ServerSeesEOF, ServerReadFails, socketVars, IInv, Socket
  <2>3. conn' = "broken" => conn = "broken" \/ ConnMayBreak
    BY <1>2 DEF ServerStep, ServerAccepts, ServerNotAccepting, ServerReads,
       ServerSeesEOF, ServerReadFails, socketVars
  <2> QED
    BY <2>1, <2>2, <2>3 DEF Settled
<1>3. CASE HarnessReturned
  BY <1>3 DEF HarnessReturned, Returns, serverVars, socketVars, Settled
<1>4. CASE ReceiveSummary
  BY <1>4 DEF ReceiveSummary, socketVars, Settled
<1>5. CASE ReceiveNothing
  BY <1>5 DEF ReceiveNothing, serverVars, socketVars, Settled, IInv, Socket
<1>6. CASE CheckProxy
  BY <1>6 DEF CheckProxy, Returns, serverVars, socketVars, Settled
<1>7. ASSUME NEW h, HandleHistory(h) \/ HistoryClientFails \/ HistoryDone
      PROVE  Settled'
  BY <1>7 DEF HandleHistory, HistoryClientFails, HistoryDone, Returns, serverVars,
     socketVars, Settled
<1>8. CASE UNCHANGED vars
  BY <1>8 DEF vars, serverVars, socketVars, mainVars, Settled
<1> QED
  BY <1>1, <1>2, <1>3, <1>4, <1>5, <1>6, <1>7, <1>8 DEF Next, MainStep, Terminated

\* The only summaries that are lost, for any harness: of one that reports and
\* ended well the runner goes on without a summary only if its connection is
\* still in the backlog, where l.Close() left it, or broke (runBatch,
\* summaryServer).  A connection that was accepted is heard.
THEOREM LostInBacklog ==
  Spec => [](Harness.summary /\ mPc \in {"proxy", "history"} /\ ~received
               => conn = "backlog" \/ (conn = "broken" /\ ConnMayBreak))
<1>1. Init => Dialed /\ Settled
  BY DEF Init, Dialed, Settled
<1>2. ASSUME IInv, Dialed, Settled, Harness.summary, mPc \in {"proxy", "history"},
             ~received
      PROVE  conn = "backlog" \/ (conn = "broken" /\ ConnMayBreak)
  <2>1. conn \in {"none", "backlog", "accepted", "broken"} /\ hResult = "ok"
    BY <1>2 DEF IInv, TypeOK, Control
  <2> QED
    BY <1>2, <2>1 DEF Dialed, Settled
<1> QED
  BY <1>1, <1>2, DialedKept, SettledKept, Invariance, PTL DEF Spec

-----------------------------------------------------------------------------
(* The comparison of the proxy's counters *)

\* Past the comparison, the counters are still those that were compared.
Compared == mPc = "history" \/ result = "ok" => ~ProxyCountsDiffer

\* No connection is tunneled, and no report changed, by a step that leaves
\* what the comparison looks at alone.
LEMMA DifferKept ==
  ASSUME UNCHANGED <<job, report, tunneled>>
  PROVE  ProxyCountsDiffer' = ProxyCountsDiffer
<1>1. \A k : ExpectedTunnels(k)' = ExpectedTunnels(k)
  BY DEF ExpectedTunnels, SummaryName, Features, MapThenSumSet, MapThenFoldSet
<1> QED
  BY <1>1 DEF ProxyCountsDiffer, ExpectsProxy, Features

\* Only CheckProxy leads past the comparison, and the harness has ended before.
LEMMA ComparedStep ==
  ASSUME IInv, Compared, [Next]_vars
  PROVE  Compared'
<1>1. CASE HarnessStep
  <2>1. mPc' = mPc /\ result' = result /\ mPc = "harness" /\ result = "none"
    BY <1>1, HarnessFrame DEF IInv, Control, mainVars
  <2> QED
    BY <2>1 DEF Compared
<1>2. CASE ServerStep \/ UNCHANGED vars
  <2>1. UNCHANGED <<job, report, tunneled, mPc, result>>
    BY <1>2, ServerFrame DEF vars, harnessVars, mainVars
  <2> QED
    BY <2>1, DifferKept DEF Compared
<1>3. CASE MainStep
  <2>1. UNCHANGED <<job, tunneled>>
    BY <1>3, MainFrame DEF harnessVars
  <2>2. CASE HarnessReturned \/ ReceiveSummary \/ ReceiveNothing
    <3>1. mPc \in {"harness", "await"}
      BY <2>2 DEF HarnessReturned, ReceiveSummary, ReceiveNothing
    <3>2. result = "none"
      BY <3>1 DEF IInv, Control
    <3>3. ReceiveSummary \/ ReceiveNothing => mPc' = "proxy" /\ result' = result
      BY DEF ReceiveSummary, ReceiveNothing
    <3>4. HarnessReturned => mPc' # "history" /\ result' \in {result, "error", "crash"}
      BY DEF HarnessReturned, Returns
    <3> QED
      BY <2>2, <3>2, <3>3, <3>4 DEF Compared
  <2>3. CASE CheckProxy
    <3>1. report' = report /\ (mPc' = "history" \/ result' = "ok" => ~ProxyCountsDiffer)
      BY <2>3 DEF CheckProxy, Returns, IInv, Control
    <3> QED
      BY <2>1, <3>1, DifferKept DEF Compared
  <2>4. ASSUME NEW h, HandleHistory(h) \/ HistoryClientFails \/ HistoryDone
        PROVE  Compared'
    <3>1. report' = report /\ mPc = "history"
      BY <2>4 DEF HandleHistory, HistoryClientFails, HistoryDone
    <3> QED
      BY <2>1, <3>1, DifferKept DEF Compared
  <2> QED
    BY <1>3, <2>2, <2>3, <2>4 DEF MainStep
<1> QED
  BY <1>1, <1>2, <1>3 DEF Next, Terminated

\* What the features that passed expect (config.json).
PassedExpect(k) ==
  MapThenSumSet(LAMBDA f : Expect[f][k], {f \in Features : outcome[f] = "PASSED"})

\* ExpectedTunnels adds up what the features that passed expect, when the
\* report is the true one: it names each of them once.
LEMMA ExpectedOfTrueReport ==
  ASSUME job \in Jobs, report = TrueReport, NEW k
  PROVE  ExpectedTunnels(k) = PassedExpect(k)
<1> DEFINE S    == {f \in Features : outcome[f] = "PASSED"}
           c(s) == CHOOSE x \in s : TRUE
           A(g) == [s \in SUBSET S |-> IF s = {} THEN 0
                      ELSE Expect[report[c(s)].name[1]][k] + g[s \ {c(s)}]]
           B(g) == [s \in SUBSET S |-> IF s = {} THEN 0
                      ELSE Expect[c(s)][k] + g[s \ {c(s)}]]
<1>1. \A f \in Features : /\ report[f].name = SummaryName(f)
                          /\ report[f].name[1] = f /\ report[f].outcome = outcome[f]
  BY DEF TrueReport, SummaryName
<1>2. DOMAIN report = Features
  BY DEF TrueReport
<1>3. {i \in DOMAIN report : /\ report[i].outcome = "PASSED"
                             /\ \E f \in Features : report[i].name = SummaryName(f)} = S
  BY <1>1, <1>2
<1>4. ASSUME NEW g PROVE A(g) = B(g)
  <2>1. ASSUME NEW s \in SUBSET S, s # {}
        PROVE  Expect[report[c(s)].name[1]][k] = Expect[c(s)][k]
    <3>1. c(s) \in S
      BY <2>1
    <3> QED
      BY <1>1, <3>1
  <2> QED
    BY <2>1
<1>5. MapThenSumSet(LAMBDA i : Expect[report[i].name[1]][k], S)
        = MapThenSumSet(LAMBDA f : Expect[f][k], S)
  <2> HIDE DEF A, B
  <2>1. (CHOOSE g : g = A(g)) = (CHOOSE g : g = B(g))
    BY <1>4
  <2> QED
    BY <2>1 DEF MapThenSumSet, MapThenFoldSet, A, B
<1> QED
  BY <1>3, <1>5 DEF ExpectedTunnels, PassedExpect

\* A batch that succeeds on a summary tunneled exactly the connections its
\* passed features ask for, for any expectations: nothing was tunneled after
\* the comparison, and the comparison was not left out for a failure.
THEOREM ProxyIsVerified == Spec => []ProxyVerified
<1>1. Init => Compared
  BY DEF Init, Compared
<1>2. ASSUME IInv, Compared, result = "ok", received, ExpectsProxy, NEW k \in Kinds
      PROVE  tunneled[k] = PassedExpect(k)
  <2>1. /\ job \in Jobs /\ report = TrueReport
        /\ Harness.summary /\ hResult = "ok"
    BY <1>2 DEF IInv, TypeOK, Report
  <2>2. ExitStatusFaithful
    BY <2>1, HarnessTable DEF ExitStatusFaithful, Harness
  <2>3. \A i \in DOMAIN report : report[i].outcome # "FAILED"
    BY <1>2, <2>1, <2>2 DEF IInv, Loop, TrueReport
  <2>4. tunneled[k] = ExpectedTunnels(k)
    BY <1>2, <2>3 DEF Compared, ProxyCountsDiffer
  <2> QED
    BY <2>1, <2>4, ExpectedOfTrueReport
<1>3. IInv /\ Compared => ProxyVerified
  BY <1>2 DEF ProxyVerified, PassedExpect
<1> QED
  BY <1>1, <1>3, ComparedStep, Invariance, PTL DEF Spec


-----------------------------------------------------------------------------
(* A batch comes to an end *)

\* Steps that are still to be taken at most: a turn of the feature loop counts
\* double, for the entry it writes is read later.
HarnessLeft ==
  (IF hState = "idle" THEN 4 ELSE IF hState = "running" THEN 2 ELSE 0)
    + 2 * (MaxFeatures + 1 - next)
ServerLeft ==
  IF sPc = "accept" THEN 3 ELSE IF sPc = "read" THEN 2
  ELSE IF sPc = "send" THEN 1 ELSE 0
MainLeft ==
  (IF mPc = "harness" THEN 4 ELSE IF mPc = "await" THEN 3
   ELSE IF mPc = "proxy" THEN 2 ELSE IF mPc = "history" THEN 1 ELSE 0)
    + (MaxFeatures + 1 - hIdx)
StepsLeft == HarnessLeft + Len(wire) + ServerLeft + MainLeft

LEMMA LeftNat ==
  ASSUME TypeOK
  PROVE  /\ HarnessLeft \in Nat /\ ServerLeft \in Nat /\ MainLeft \in Nat
         /\ Len(wire) \in Nat /\ StepsLeft \in Nat
<1>1. MaxFeatures \in Nat
  BY RunBatchAssumption
<1>2. /\ next \in Nat /\ next <= MaxFeatures + 1
      /\ hIdx \in Nat /\ hIdx <= MaxFeatures + 1
  BY <1>1 DEF TypeOK
<1>3. Len(wire) \in Nat
  BY LenProperties DEF TypeOK
<1> QED
  BY <1>1, <1>2, <1>3 DEF HarnessLeft, ServerLeft, MainLeft, StepsLeft

\* The same of the state after a step.
LEMMA LeftNatNext ==
  (TypeOK => /\ HarnessLeft \in Nat /\ ServerLeft \in Nat /\ MainLeft \in Nat
             /\ Len(wire) \in Nat /\ StepsLeft \in Nat)'
<1>1. TypeOK => /\ HarnessLeft \in Nat /\ ServerLeft \in Nat /\ MainLeft \in Nat
                /\ Len(wire) \in Nat /\ StepsLeft \in Nat
  BY LeftNat
<1> QED
  BY <1>1, PTL

\* A line is at most one more on the wire.
LEMMA WriteOne ==
  ASSUME TypeOK, NEW e, Write(e)
  PROVE  Len(wire') \in Nat /\ Len(wire') <= Len(wire) + 1
<1>1. Len(wire) \in Nat
  BY LenProperties DEF TypeOK
<1> QED
  BY <1>1, AppendProperties DEF Write, TypeOK

LEMMA HarnessCounts ==
  ASSUME IInv, HarnessStep
  PROVE  HarnessLeft' + Len(wire') < HarnessLeft + Len(wire)
<1>1. /\ MaxFeatures \in Nat /\ next \in Nat /\ Len(wire) \in Nat
      /\ hState \in {"idle", "running", "exited"}
  BY RunBatchAssumption, LenProperties DEF IInv, TypeOK
<1> USE <1>1 DEF HarnessLeft
<1>2. CASE HarnessNotBuilt \/ HarnessOffline \/ HarnessCrashes \/ HarnessFinishes
  BY <1>2 DEF HarnessNotBuilt, HarnessOffline, HarnessCrashes, HarnessFinishes, HarnessEnds
<1>3. CASE HarnessStarts
  BY <1>3 DEF HarnessStarts
<1>4. ASSUME NEW o, NEW t, RunFeature(o, t)
      PROVE  HarnessLeft' + Len(wire') < HarnessLeft + Len(wire)
  <2>1. hState' = hState /\ next' = next + 1
    BY <1>4 DEF RunFeature
  <2>2. Len(wire') \in Nat /\ Len(wire') <= Len(wire) + 1
    BY <1>4, WriteOne DEF RunFeature, IInv
  <2> QED
    BY <2>1, <2>2
<1>5. CASE RunFeaturePanics
  <2>1. hState = "running" /\ hState' = "exited" /\ next' = next
    BY <1>5 DEF RunFeaturePanics, AtFeature, HarnessEnds
  <2>2. Len(wire') \in Nat /\ Len(wire') <= Len(wire) + 1
    BY <1>5, WriteOne DEF RunFeaturePanics, IInv
  <2> QED
    BY <2>1, <2>2
<1>6. CASE FeatureAbsent
  <2>1. wire' = wire /\ hState = "running"
    BY <1>6 DEF FeatureAbsent, AtFeature
  <2>2. \/ hState' = "exited" /\ next' = next
        \/ hState' = hState /\ next' = next + 1
    BY <1>6 DEF FeatureAbsent, HarnessEnds
  <2> QED
    BY <2>1, <2>2
<1> QED
  BY <1>2, <1>3, <1>4, <1>5, <1>6 DEF HarnessStep

LEMMA ServerCounts ==
  ASSUME IInv, ServerStep
  PROVE  ServerLeft' + Len(wire') < ServerLeft + Len(wire)
<1>1. wire \in Seq(Entries) /\ Len(wire) \in Nat
  BY LenProperties DEF IInv, TypeOK
<1>2. CASE ServerReads
  <2>1. Len(wire') = Len(wire) - 1
    BY <1>1, <1>2, HeadTailProperties DEF ServerReads
  <2>2. sPc' = sPc
    BY <1>2 DEF ServerReads
  <2> QED
    BY <1>1, <2>1, <2>2 DEF ServerLeft
<1>3. CASE ServerAccepts \/ ServerNotAccepting \/ ServerSeesEOF \/ ServerReadFails
  BY <1>1, <1>3 DEF ServerAccepts, ServerNotAccepting, ServerSeesEOF, ServerReadFails,
     ServerLeft, socketVars
<1> QED
  BY <1>2, <1>3 DEF ServerStep

LEMMA MainCounts ==
  ASSUME IInv, MainStep
  PROVE  /\ MainLeft' < MainLeft
         /\ ServerLeft' <= ServerLeft /\ wire' = wire
<1>1. MaxFeatures \in Nat /\ hIdx \in Nat
  BY RunBatchAssumption DEF IInv, TypeOK
<1>2. CASE HarnessReturned
  BY <1>1, <1>2 DEF HarnessReturned, Returns, MainLeft, ServerLeft, socketVars, serverVars
<1>3. CASE ReceiveSummary \/ ReceiveNothing
  <2>1. mPc = "await" /\ mPc' = "proxy" /\ hIdx' = hIdx /\ wire' = wire
    BY <1>3 DEF ReceiveSummary, ReceiveNothing, socketVars
  <2>2. ReceiveSummary => sPc = "send" /\ sPc' = "done"
    BY DEF ReceiveSummary
  <2>3. ReceiveNothing => sPc' = sPc
    BY DEF ReceiveNothing, serverVars
  <2> QED
    BY <1>1, <1>3, <2>1, <2>2, <2>3 DEF MainLeft, ServerLeft
<1>4. CASE CheckProxy
  BY <1>1, <1>4 DEF CheckProxy, Returns, MainLeft, ServerLeft, socketVars, serverVars
<1>5. ASSUME NEW h, HandleHistory(h)
      PROVE  /\ MainLeft' < MainLeft
             /\ ServerLeft' <= ServerLeft /\ wire' = wire
  BY <1>1, <1>5 DEF HandleHistory, MainLeft, ServerLeft, socketVars, serverVars
<1>6. CASE HistoryClientFails \/ HistoryDone
  BY <1>1, <1>6 DEF HistoryClientFails, HistoryDone, Returns, MainLeft, ServerLeft,
     socketVars, serverVars
<1> QED
  BY <1>2, <1>3, <1>4, <1>5, <1>6 DEF MainStep

\* Every step of a batch, for any number of features, leaves less to do: the
\* three processes take no more than 3 * MaxFeatures + 11 steps together,
\* whatever the harness, the goroutine and the socket do.
THEOREM EveryStepCounts == Spec => [][StepsLeft' < StepsLeft /\ StepsLeft' \in Nat]_vars
<1>1. ASSUME IInv, IInv', [Next]_vars
      PROVE  [StepsLeft' < StepsLeft /\ StepsLeft' \in Nat]_vars
  <2>1. /\ HarnessLeft \in Nat /\ ServerLeft \in Nat /\ MainLeft \in Nat
        /\ Len(wire) \in Nat
    BY <1>1, LeftNat DEF IInv
  <2>2. /\ HarnessLeft' \in Nat /\ ServerLeft' \in Nat /\ MainLeft' \in Nat
        /\ Len(wire') \in Nat /\ StepsLeft' \in Nat
    BY <1>1, LeftNatNext DEF IInv
  <2>3. CASE HarnessStep
    <3>1. ServerLeft' = ServerLeft /\ MainLeft' = MainLeft
      BY <2>3, HarnessFrame DEF serverVars, mainVars, ServerLeft, MainLeft
    <3> QED
      BY <1>1, <2>1, <2>2, <2>3, <3>1, HarnessCounts DEF StepsLeft
  <2>4. CASE ServerStep
    <3>1. HarnessLeft' = HarnessLeft /\ MainLeft' = MainLeft
      BY <2>4, ServerFrame DEF harnessVars, mainVars, HarnessLeft, MainLeft
    <3> QED
      BY <1>1, <2>1, <2>2, <2>4, <3>1, ServerCounts DEF StepsLeft
  <2>5. CASE MainStep
    <3>1. HarnessLeft' = HarnessLeft
      BY <2>5, MainFrame DEF harnessVars, HarnessLeft
    <3> QED
      BY <1>1, <2>1, <2>2, <2>5, <3>1, MainCounts DEF StepsLeft
  <2> QED
    BY <1>1, <2>3, <2>4, <2>5 DEF Next, Terminated
<1> QED
  BY <1>1, Invariance, PTL DEF Spec

\* Who can take a step: the guards of the actions of each process.
HarnessGoesOn == hState \in {"idle", "running"}
ServerGoesOn ==
  \/ sPc = "accept" /\ listener = "closed"
  \/ sPc = "read" /\ (wire # <<>> \/ wireEnd)
MainGoesOn ==
  \/ mPc = "harness" /\ hState = "exited"
  \/ mPc = "await" /\ (sPc = "send" \/ chan = "closed")
  \/ mPc \in {"proxy", "history"}

\* Main waits for the goroutine only with the listener closed, and the
\* goroutine ends before that only by closing the channel.
Rendezvous ==
  /\ mPc # "harness" => listener = "closed"
  /\ mPc \in {"harness", "await"} /\ sPc = "done" => chan = "closed"

LEMMA RendezvousKept ==
  ASSUME IInv, Rendezvous, [Next]_vars
  PROVE  Rendezvous'
<1>1. CASE HarnessStep
  BY <1>1, HarnessFrame DEF Rendezvous, serverVars, mainVars
<1>2. CASE ServerStep
  BY <1>2 DEF ServerStep, ServerAccepts, ServerNotAccepting, ServerReads, ServerSeesEOF,
     ServerReadFails, mainVars, Rendezvous
<1>3. CASE HarnessReturned
  BY <1>3 DEF HarnessReturned, Returns, serverVars, Rendezvous
<1>4. CASE ReceiveSummary \/ ReceiveNothing \/ CheckProxy
  BY <1>4 DEF ReceiveSummary, ReceiveNothing, CheckProxy, Returns, serverVars, Rendezvous
<1>5. CASE (\E h \in HistoryOutcomes : HandleHistory(h)) \/ HistoryClientFails \/ HistoryDone
  BY <1>5 DEF HandleHistory, HistoryClientFails, HistoryDone, Returns, serverVars, Rendezvous
<1>6. CASE UNCHANGED vars
  BY <1>6 DEF vars, serverVars, mainVars, Rendezvous
<1> QED
  BY <1>1, <1>2, <1>3, <1>4, <1>5, <1>6 DEF Next, MainStep, Terminated

\* No process waits for another that waits for it: until runBatch has returned
\* one of the three can take a step.  With EveryStepCounts this leaves nothing
\* of BatchReturns but that a process which can go on does.
THEOREM NobodyIsStuck ==
  Spec => [](mPc = "returned" \/ HarnessGoesOn \/ ServerGoesOn \/ MainGoesOn)
<1>1. Init => Rendezvous
  BY DEF Init, Rendezvous
<1>2. IInv /\ Rendezvous => mPc = "returned" \/ HarnessGoesOn \/ ServerGoesOn \/ MainGoesOn
  BY DEF IInv, TypeOK, Control, Rendezvous, HarnessGoesOn, ServerGoesOn, MainGoesOn
<1> QED
  BY <1>1, <1>2, RendezvousKept, Invariance, PTL DEF Spec

-----------------------------------------------------------------------------
(* Refinement *)

Bel == [f \in 1..MaxFeatures |-> Believed(f)]

\* Before there is a report BatchVerdict believes nothing.
LEMMA BelievedUnknown ==
  ASSUME report = <<>>
  PROVE  Bel = Verdict!Unknown
  BY DEF Bel, Believed, Verdict!Unknown, Verdict!All

\* Once there is a report the runner believes something of each feature.
Learnt == [f \in 1..MaxFeatures |->
             IF f \in Features
               THEN IF report = TrueReport THEN outcome[f] ELSE "PASSED"
               ELSE "none"]

\* With a report it believes the true outcomes, or that all passed.
LEMMA BelievedKnown ==
  job \in Jobs /\ report \in {TrueReport, AllPassedReport} => Bel = Learnt
<1> SUFFICES ASSUME job \in Jobs, report \in {TrueReport, AllPassedReport}
             PROVE  Bel = Learnt
  OBVIOUS
<1>1. report # <<>>
  BY NotEmpty
<1>2. ASSUME NEW f \in 1..MaxFeatures
      PROVE  Believed(f) = Learnt[f]
  <2>1. CASE f \in Features
    BY <1>1, <2>1, FindAt DEF Believed, Learnt
  <2>2. CASE f \notin Features
    BY <1>1, <2>2 DEF Believed, Learnt
  <2> QED
    BY <2>1, <2>2
<1> QED
  BY <1>2 DEF Bel, Learnt

\* The same of the state after a step.
LEMMA BelievedKnownNext ==
  (job \in Jobs /\ report \in {TrueReport, AllPassedReport} => Bel = Learnt)'
  BY BelievedKnown, PTL

\* The batch starts as BatchVerdict does.
LEMMA VerdictInit == Init => Verdict!Init
<1> SUFFICES ASSUME Init PROVE Verdict!Init
  OBVIOUS
<1>1. job.features \in 1..MaxFeatures
  <2>1. job \in Jobs
    BY DEF Init
  <2> QED
    BY <2>1, JobFacts
<1>2. Bel = Verdict!Unknown
  BY BelievedUnknown DEF Init
<1> QED
  BY <1>1, <1>2 DEF Init, Verdict!Init, Verdict!All, Bel

\* A step of the harness is a Run of one feature, or a stutter.
LEMMA VerdictHarness ==
  ASSUME IInv, HarnessStep
  PROVE  Verdict!Next \/ UNCHANGED Verdict!vars
<1>1. UNCHANGED <<job, mainVars>> /\ hState # "exited"
  BY HarnessFrame
<1>2. report = <<>> /\ result = "none" /\ hResult = "none"
  BY <1>1 DEF IInv, Control
<1>3. Bel = Verdict!Unknown /\ Bel' = Bel
  <2>1. report' = report /\ Features' = Features
    BY <1>1 DEF mainVars, Features
  <2> QED
    BY <1>2, <2>1, BelievedUnknown DEF Bel, Believed
<1>4. ASSUME NEW f \in Features, NEW o \in Outcomes, outcome[f] = "none",
             outcome' = [outcome EXCEPT ![f] = o]
      PROVE  Verdict!Next
  <2>1. f \in 1..MaxFeatures /\ f <= job.features
    <3>1. job \in Jobs
      BY DEF IInv, TypeOK
    <3>2. job.features \in Nat /\ Features \subseteq 1..MaxFeatures
      BY <3>1, JobFacts
    <3> QED
      BY <3>2 DEF Features
  <2>2. Verdict!Run(f, o)
    BY <1>1, <1>2, <1>3, <1>4, <2>1 DEF Verdict!Run, Bel, mainVars
  <2> QED
    BY <2>1, <2>2 DEF Verdict!Next, Verdict!All, Verdict!Outcomes, Outcomes
<1>5. ASSUME outcome' = outcome
      PROVE  UNCHANGED Verdict!vars
  BY <1>1, <1>3, <1>5 DEF Verdict!vars, Bel, mainVars
<1>6. AtFeature => outcome[next] = "none" /\ next \in Features
  <2> SUFFICES ASSUME AtFeature
               PROVE  outcome[next] = "none" /\ next \in Features
    OBVIOUS
  <2>1. next \in Features
    BY DEF AtFeature
  <2>2. job \in Jobs
    BY DEF IInv, TypeOK
  <2>3. next \in 1..MaxFeatures /\ MaxFeatures \in Nat
    <3>1. MaxFeatures \in Nat /\ Features \subseteq 1..MaxFeatures
      BY <2>2, JobFacts
    <3> QED
      BY <2>1, <3>1
  <2> QED
    BY <1>2, <2>1, <2>3 DEF IInv, Loop
<1>7. ASSUME NEW o \in {"PASSED", "FAILED", "SKIPPED"}, NEW t, RunFeature(o, t)
      PROVE  Verdict!Next
  BY <1>4, <1>6, <1>7 DEF RunFeature, Outcomes
<1>8. CASE RunFeaturePanics
  BY <1>4, <1>6, <1>8 DEF RunFeaturePanics, Outcomes
<1> QED
  BY <1>5, <1>7, <1>8
  DEF HarnessStep, HarnessNotBuilt, HarnessStarts, HarnessOffline,
      FeatureAbsent, HarnessCrashes, HarnessFinishes

\* A step of main is LearnExactly, Assume, Decide or a stutter.
LEMMA VerdictMain ==
  ASSUME IInv, IInv', MainStep
  PROVE  Verdict!Next \/ UNCHANGED Verdict!vars
<1>1. UNCHANGED <<job, outcome>>
  BY MainFrame DEF harnessVars
<1>2. ASSUME report' = report
      PROVE  Bel' = Bel
  <2>1. \A f : Believed(f)' = Believed(f)
    BY <1>1, <1>2 DEF Believed, Listed, Find, SummaryName, Features
  <2> QED
    BY <2>1 DEF Bel
<1>3. ASSUME report' = report, result' = result
      PROVE  UNCHANGED Verdict!vars
  BY <1>1, <1>2, <1>3 DEF Verdict!vars, Bel
<1>4. job \in Jobs /\ job' \in Jobs
  BY DEF IInv, TypeOK
<1>5. ASSUME report \in {TrueReport, AllPassedReport}
      PROVE  Bel # Verdict!Unknown
  <2>1. 1 \in Features /\ 1 \in 1..MaxFeatures
    BY <1>4, JobFacts
  <2>2. Bel[1] = IF report = TrueReport THEN outcome[1] ELSE "PASSED"
    BY <1>4, <1>5, <2>1, BelievedKnown DEF Learnt
  <2>3. outcome[1] # "unknown"
    BY <2>1 DEF IInv, TypeOK, Outcomes
  <2>4. Verdict!Unknown[1] = "unknown"
    BY <2>1 DEF Verdict!Unknown, Verdict!All
  <2> QED
    BY <2>2, <2>3, <2>4
<1>6. ASSUME report' = report, result = "none",
             NEW v \in {"ok", "error", "crash"}, result' = v,
             v = "ok" => report # <<>>
      PROVE  Verdict!Next
  <2>1. v = "ok" => Bel # Verdict!Unknown
    BY <1>5, <1>6 DEF IInv, Report
  <2>2. Verdict!Decide(v)
    BY <1>1, <1>2, <1>6, <2>1 DEF Verdict!Decide, Bel
  <2> QED
    BY <2>2 DEF Verdict!Next
<1>7. CASE HarnessReturned
  <2>1. result = "none" /\ report' = report
    BY <1>7 DEF HarnessReturned, IInv, Control
  <2>2. result' = result \/ result' = "error" \/ result' = "crash"
    BY <1>7 DEF HarnessReturned, Returns
  <2> QED
    BY <1>3, <1>6, <2>1, <2>2
\* The one step at which the runner's belief changes.
<1>8. ASSUME mPc = "await", result' = result, NEW r \in {TrueReport, AllPassedReport},
             report' = r
      PROVE  /\ Bel = Verdict!Unknown /\ result = "none"
             /\ Bel' = [f \in 1..MaxFeatures |->
                          IF f \in Features
                            THEN IF r = TrueReport THEN outcome[f] ELSE "PASSED"
                            ELSE "none"]
  <2>1. report = <<>> /\ result = "none"
    BY <1>8 DEF IInv, Control
  <2>2. /\ TrueReport' = TrueReport /\ AllPassedReport' = AllPassedReport
        /\ Features' = Features
    BY <1>1 DEF TrueReport, AllPassedReport, SummaryName, Features
  <2>3. Bel' = Learnt'
    BY <1>4, <1>8, <2>2, BelievedKnownNext
  <2> QED
    BY <1>1, <1>8, <2>1, <2>2, <2>3, BelievedUnknown DEF Learnt
<1>9. \A f \in 1..MaxFeatures : f \in Features <=> f <= job.features
  <2>1. job.features \in Nat /\ MaxFeatures \in Nat
    BY <1>4, JobFacts
  <2> QED
    BY <2>1 DEF Features
<1>10. CASE ReceiveSummary
  <2>1. mPc = "await" /\ result' = result /\ sPc = "send" /\ received'
    BY <1>10 DEF ReceiveSummary
  <2>2. report' = TrueReport
    BY <1>1, <2>1 DEF IInv, Report, TrueReport, SummaryName, Features
  <2>3. /\ Bel = Verdict!Unknown /\ result = "none"
        /\ Bel' = [f \in 1..MaxFeatures |->
                     IF f \in Features THEN outcome[f] ELSE "none"]
    BY <1>8, <2>1, <2>2
  <2>4. Bel' = outcome
    <3>1. outcome = [f \in 1..MaxFeatures |-> outcome[f]]
      BY DEF IInv, TypeOK
    <3>2. \A f \in 1..MaxFeatures : f \notin Features => outcome[f] = "none"
      BY DEF IInv, Loop
    <3> QED
      BY <2>3, <3>1, <3>2
  <2>5. \A f \in Features : outcome[f] \in {"PASSED", "SKIPPED"}
    <3>1. hResult = "ok" /\ Harness.summary
      BY <2>1, HandedOver DEF IInv
    <3>2. ExitStatusFaithful
      BY <3>1, HarnessTable DEF ExitStatusFaithful, Harness
    <3>3. next = job.features + 1
      BY <3>1, <3>2 DEF IInv, Loop
    <3>4. \A f \in Features : f \in 1..MaxFeatures /\ f < next
      <4>1. job.features \in Nat /\ Features \subseteq 1..MaxFeatures
        BY <1>4, JobFacts
      <4> QED
        BY <3>3, <4>1 DEF Features
    <3>5. \A f \in Features : outcome[f] # "FAILED" /\ outcome[f] # "none"
      BY <3>1, <3>2, <3>4 DEF IInv, Loop, ExitStatusFaithful
    <3> QED
      BY <3>4, <3>5 DEF IInv, TypeOK, Outcomes
  <2>6. Verdict!LearnExactly
    BY <1>1, <1>9, <2>1, <2>3, <2>4, <2>5
    DEF Verdict!LearnExactly, Verdict!All, Bel
  <2> QED
    BY <2>6 DEF Verdict!Next
<1>11. CASE ReceiveNothing
  <2>1. mPc = "await" /\ result' = result /\ report' = AllPassedReport
        /\ received' = received
    BY <1>11 DEF ReceiveNothing, AllPassedReport
  <2>2. /\ Bel = Verdict!Unknown /\ result = "none"
        /\ Bel' = [f \in 1..MaxFeatures |->
                     IF f \in Features
                       THEN IF AllPassedReport = TrueReport THEN outcome[f]
                                                            ELSE "PASSED"
                       ELSE "none"]
    BY <1>8, <2>1
  <2>3. ASSUME AllPassedReport = TrueReport, NEW f \in Features
        PROVE  outcome[f] = "PASSED"
    <3>1. TrueReport[f].outcome = outcome[f]
      BY DEF TrueReport
    <3>2. AllPassedReport[f].outcome = "PASSED"
      BY DEF AllPassedReport
    <3> QED
      BY <2>3, <3>1, <3>2
  <2>4. Bel' = Verdict!AllPassed
    BY <1>9, <2>2, <2>3 DEF Verdict!AllPassed, Verdict!All
  <2>5. Verdict!Assume
    BY <1>1, <2>1, <2>2, <2>4 DEF Verdict!Assume, Bel
  <2> QED
    BY <2>5 DEF Verdict!Next
<1>12. ASSUME mPc = "history" \/ mPc = "proxy"
       PROVE  result = "none" /\ report # <<>>
  BY <1>12 DEF IInv, Control, Report
<1>13. CASE CheckProxy
  <2>1. report' = report /\ (result' = result \/ result' = "error")
        /\ result = "none"
    BY <1>12, <1>13 DEF CheckProxy, Returns
  <2> QED
    BY <1>3, <1>6, <2>1
<1>14. ASSUME NEW h, HandleHistory(h)
       PROVE  UNCHANGED Verdict!vars
  BY <1>3, <1>14 DEF HandleHistory
<1>15. CASE HistoryClientFails
  BY <1>6, <1>12, <1>15 DEF HistoryClientFails, Returns
<1>16. CASE HistoryDone
  <2>1. /\ report' = report /\ result = "none" /\ report # <<>>
        /\ result' \in {"error", "ok"}
    BY <1>12, <1>16 DEF HistoryDone, Returns
  <2> QED
    BY <1>6, <2>1
<1> QED
  BY <1>7, <1>10, <1>11, <1>13, <1>14, <1>15, <1>16 DEF MainStep

\* One batch implements BatchVerdict: the goroutine, the socket, the channel
\* and the early returns never make the runner believe a mixture of what
\* happened and what it assumes, and never let it decide before it believes.
THEOREM Refinement == Spec => KeepsVerdict
<1>1. IInv /\ IInv' /\ [Next]_vars => [Verdict!Next]_(Verdict!vars)
  <2> SUFFICES ASSUME IInv, IInv', [Next]_vars
               PROVE  Verdict!Next \/ UNCHANGED Verdict!vars
    OBVIOUS
  <2>1. CASE HarnessStep
    BY <2>1, VerdictHarness
  <2>2. CASE ServerStep \/ UNCHANGED vars
    <3>1. UNCHANGED <<job, outcome, report, result>>
      BY <2>2, ServerFrame
      DEF vars, harnessVars, mainVars
    <3>2. \A f : Believed(f)' = Believed(f)
      BY <3>1 DEF Believed, Listed, Find, SummaryName, Features
    <3> QED
      BY <3>1, <3>2 DEF Verdict!vars
  <2>3. CASE MainStep
    BY <2>3, VerdictMain
  <2> QED
    BY <2>1, <2>2, <2>3 DEF Next, Terminated
<1> QED
  BY <1>1, VerdictInit, Invariance, PTL DEF Spec, KeepsVerdict, Verdict!Spec
=============================================================================
