--------------------------- MODULE VersionedRouting ---------------------------
(***************************************************************************)
(* The features that test which worker gets the tasks of a workflow:       *)
(* features/deployment_versioning/routing_* and                            *)
(* features/build_id_versioning/*.  A feature starts and stops workers,    *)
(* changes the routing, starts a workflow, signals and queries it, and     *)
(* passes or fails, beside the server and the workers.                     *)
(*                                                                         *)
(* A feature is a script of steps, translated from its Execute function.   *)
(* The server may be at fault, which is what these features are there to   *)
(* find: it serves the versions in `astray' beside the right one, or       *)
(* instead of it.                                                          *)
(***************************************************************************)
EXTENDS Integers, FiniteSets, Sequences

CONSTANTS
  Features,   \* the features explored
  Faults      \* the sets of versions that a server at fault serves

Deployments == {"pinned", "override", "ramp", "auto_upgrade"}
BuildIds ==
  {"appropriate_worker", "while_polling", "worker_no_task", "unversioned_task",
   "continues_as_new", "activity_and_child"}
Workers == {"1.0", "1.1", "1.2", "2.0", "2.1", "unversioned"}

ASSUME RoutingAssumption ==
  /\ Features \subseteq Deployments \cup BuildIds
  /\ Faults \subseteq SUBSET Workers

(***************************************************************************)
(* Steps.  Worker: stop the runner's worker, start it with this version.   *)
(* Second: start a worker beside it.  Set: a version becomes current, or   *)
(* gets all of the ramp.  Add: a build ID in a new default set ("new"), or *)
(* compatible with another.  Until: query until this answer; Never: that   *)
(* must time out; Silent: no query must be answered.                       *)
(***************************************************************************)
Step(op, arg, val) == [op |-> op, arg |-> arg, val |-> val]
Worker(v)    == Step("worker", v, "none")
Stop         == Step("stop", "none", "none")
Second(v)    == Step("second", v, "none")
Set(rule, v) == Step("set", rule, v)
Add(v, old)  == Step("add", v, old)
Exec(over)   == Step("exec", over, "none")
Running      == Step("running", "none", "none")
Sleep        == Step("sleep", "none", "none")
Signal(what) == Step("signal", what, "none")
Until(q, a)  == Step("until", q, a)
Never(q, a)  == Step("never", q, a)
Silent(q)    == Step("silent", q, "none")

\* The first worker is current, and the second becomes so, or gets the ramp.
StartOnOne(rule) ==
  <<Second("2.0"), Set("current", "1.0"), Exec("none"), Running,
    Set(rule, "2.0"), Signal("go")>>
RoutingPinned       == StartOnOne("current")
RoutingAutoUpgrade  == StartOnOne("current")
RoutingWithRamp     == StartOnOne("ramp")
RoutingWithOverride ==
  <<Second("2.0"), Set("current", "2.0"), Exec("1.0"), Running, Signal("go")>>

\* AddSomeVersions: {1.0} and {2.0, 2.1}, with 2.1 as default.
OnlyAppropriateWorker ==
  <<Add("1.0", "new"), Add("2.0", "new"), Add("2.1", "2.0"),
    Worker("2.1"), Exec("none"), Until("waiting", "true"), Stop, Signal("go"),
    Worker("2.0"), Silent("waiting"), Stop,
    Worker("1.0"), Silent("waiting"), Stop, Worker("2.1")>>

AddedWhilePolling ==
  <<Add("1.0", "new"), Worker("1.0"), Exec("none"), Signal("add1"),
    Until("counter", 1), Worker("1.1"), Signal("add1"), Silent("waiting"),
    Add("1.1", "1.0"), Worker("1.1"), Until("counter", 2),
    Add("1.2", "1.1"), Signal("add1"), Never("counter", 2),
    Worker("1.2"), Signal("cancel")>>

UnversionedNoTask ==
  <<Add("1.0", "new"), Add("2.0", "new"), Add("2.1", "2.0"),
    Exec("none"), Silent("__stack_trace"), Worker("2.1")>>

UnversionedTask ==
  <<Exec("none"), Add("1.0", "new"), Add("2.0", "new"), Add("2.1", "2.0"),
    Signal("go")>>

ContinuesAsNew ==
  <<Add("1.0", "new"), Second("2.0"), Exec("none"), Sleep, Add("2.0", "new"),
    Until("runningOn", "1.0"), Signal("same"), Until("runningOn", "1.0"),
    Signal("default"), Until("runningOn", "2.0"), Signal("end")>>

ActivityAndChild ==
  <<Add("1.0", "new"), Second("2.0"), Exec("none"), Sleep, Add("2.0", "new"),
    Signal("go")>>

Script(f) ==
  CASE f = "pinned"             -> RoutingPinned
    [] f = "auto_upgrade"       -> RoutingAutoUpgrade
    [] f = "ramp"               -> RoutingWithRamp
    [] f = "override"           -> RoutingWithOverride
    [] f = "appropriate_worker" -> OnlyAppropriateWorker
    [] f = "while_polling"      -> AddedWhilePolling
    [] f = "worker_no_task"     -> UnversionedNoTask
    [] f = "unversioned_task"   -> UnversionedTask
    [] f = "continues_as_new"   -> ContinuesAsNew
    [] f = "activity_and_child" -> ActivityAndChild

\* The worker that NewRunner starts.
FirstWorker(f) ==
  CASE f = "appropriate_worker" -> "2.1"
    [] f \in {"worker_no_task", "unversioned_task"} -> "unversioned"
    [] OTHER -> "1.0"

\* Behaviour the first worker registers its workflow with.
PinsOnStart(f) == f = "pinned"

\* ExpectRunResult: "prefix_v1" or "prefix_v2"; the others expect no value.
Expected(f) ==
  CASE f \in {"pinned", "override"} -> {"1.0"}
    [] f \in {"ramp", "auto_upgrade"} -> {"2.0"}
    [] OTHER -> Workers

\* Query handlers of the workflow; the SDK answers __stack_trace itself.
Handlers(f) ==
  {"__stack_trace"} \cup
  CASE f = "appropriate_worker" -> {"waiting"}
    [] f = "while_polling"      -> {"counter"}
    [] f = "continues_as_new"   -> {"runningOn"}
    [] OTHER                    -> {}

VARIABLES
  feature, at,   \* the feature, and how many of its steps are done
  astray,        \* the versions that a server at fault serves
  faithful,      \* the server serves the right version (it may still stray)
  reports,       \* the server reports whether routing has propagated
  leftover,      \* "workflow_1" of an earlier feature: none open, open, or
                 \* open with the second worker of that feature still polling
  first, second, \* the runner's worker and the one beside it, or "none"
  known,         \* deployment versions the server has seen a worker of
  rules, active, \* routing of the deployment, and what task queues have of it
  sets,          \* compatible sets of build IDs, the default one last
  wf,            \* the workflow
  inbox,         \* signals its code has not seen
  result,        \* "right": the result was right, the history is to check
  timely         \* history: no time-out has cut off what was under way

given == <<feature, astray, faithful, reports, leftover>>
workers == <<first, second>>
routing == <<known, rules, active, sets>>
vars == <<given, at, workers, routing, wf, inbox, result, timely>>

NoRule == [current |-> "none", ramp |-> "none"]

NoWorkflow ==
  [state |-> "none",   \* none, started (no task queued yet), open, closed
   by |-> "none",      \* the worker that completed it, "failed" or "timeout"
   pin |-> "none",     \* the version it is pinned to, by override or behaviour
   set |-> 0,          \* the compatible set it is bound to; 0: unversioned
   task |-> FALSE,     \* a workflow task is to be taken
   began |-> "none",   \* the worker that took its first task
   count |-> 0,        \* signals counted
   part |-> 0]         \* the activity or child that runs (activity_and_child)

Init ==
  /\ feature \in Features /\ at = 0 /\ astray \in Faults
  /\ faithful \in BOOLEAN /\ reports \in BOOLEAN
  /\ leftover \in
       IF feature \in Deployments THEN {"none", "open", "served"} ELSE {"none"}
  /\ first = FirstWorker(feature) /\ second = "none"
  /\ known = {} /\ rules = NoRule /\ active = NoRule /\ sets = <<>>
  /\ wf = NoWorkflow /\ inbox = <<>> /\ result = "none" /\ timely = TRUE

(***************************************************************************)
(* What the server does: route, propagate, queue.                          *)
(***************************************************************************)
Polling  == {first, second} \ {"none"}
Attached == leftover # "none" /\ wf.state # "none"   \* Exec got the leftover

NewestOf(n) == IF n = 0 THEN "unversioned" ELSE sets[n][Len(sets[n])]

\* The version whose workers are to get the tasks of the workflow.
Target ==
  IF feature \in BuildIds THEN NewestOf(wf.set)
  ELSE IF wf.pin # "none" THEN wf.pin
  ELSE IF active.ramp # "none" THEN active.ramp ELSE active.current

\* Mutant: Close leaves the first worker running, too.
OrphansOfAll == {"1.0", "2.0"}

\* Of a leftover only the second worker of its feature can be alive.
OrphanVersions == {"2.0"}

Served(v) == Polling \cap ((IF faithful THEN {v} ELSE {}) \cup astray)

Takers ==
  IF Attached THEN IF leftover = "served" THEN OrphanVersions ELSE {}
  ELSE Served(Target)

Registers ==
  /\ feature \in Deployments /\ ~ Polling \subseteq known
  /\ known' = known \cup Polling
  /\ UNCHANGED <<given, at, workers, rules, active, sets, wf, inbox, result,
                 timely>>

Propagates ==
  /\ active # rules /\ active' = rules
  /\ UNCHANGED <<given, at, workers, known, rules, sets, wf, inbox, result,
                 timely>>

\* Mutant: bound to a set that is to come.
EnqueuesBeyond ==
  /\ wf.state = "started"
  /\ wf' = [wf EXCEPT !.state = "open", !.task = TRUE, !.set = Len(sets) + 1]
  /\ UNCHANGED <<given, at, workers, routing, inbox, result, timely>>

\* The first task is queued after the call that started the workflow returns,
\* and binds the workflow to the default set of that moment.
Enqueues ==
  /\ wf.state = "started"
  /\ wf' = [wf EXCEPT !.state = "open", !.task = TRUE, !.set = Len(sets)]
  /\ UNCHANGED <<given, at, workers, routing, inbox, result, timely>>

(***************************************************************************)
(* What the workers do: the workflows of the features.                     *)
(***************************************************************************)
Got(what) == \E i \in DOMAIN inbox : inbox[i] = what
Closed(w) == [wf EXCEPT !.state = "closed", !.by = w, !.task = FALSE]

\* The workflow when worker w has run its task.
Ran(w) ==
  LET began == IF wf.began = "none" THEN w ELSE wf.began
      rest  == [wf EXCEPT !.task = FALSE, !.began = began,
                          !.pin = IF PinsOnStart(feature) /\ w = "1.0" /\ ~ Attached
                                  THEN w ELSE @]
  IN  CASE feature = "worker_no_task" \/ Got("end") \/ Got("cancel") ->
             [Closed(w) EXCEPT !.began = began]
        [] feature = "activity_and_child" /\ Got("go") -> [rest EXCEPT !.part = 1]
        [] Got("go") /\ feature # "activity_and_child" ->
             [Closed(w) EXCEPT !.began = began]
        [] feature = "while_polling" /\ ~ Got("cancel") ->
             [rest EXCEPT !.count = @ + Len(inbox)]
        [] Got("same") -> [rest EXCEPT !.task = TRUE]
        [] Got("default") -> [rest EXCEPT !.task = TRUE, !.set = Len(sets)]
        [] OTHER -> rest

TakesTask(w) ==
  /\ result = "none" /\ wf.state = "open" /\ wf.task /\ w \in Takers
  /\ wf' = Ran(w) /\ inbox' = <<>>
  /\ UNCHANGED <<given, at, workers, routing, result, timely>>

\* An activity, a child; then both with the default version.
PartTarget(n) == IF n <= 2 THEN NewestOf(wf.set) ELSE NewestOf(Len(sets))
Wanted(n)     == IF n <= 2 THEN "1.0" ELSE "2.0"

TakesPart(w) ==
  /\ result = "none" /\ wf.state = "open" /\ wf.part > 0
  /\ w \in Served(PartTarget(wf.part))
  /\ wf' = IF w # Wanted(wf.part) THEN Closed("failed")
           ELSE IF wf.part = 4 THEN Closed(w) ELSE [wf EXCEPT !.part = @ + 1]
  /\ UNCHANGED <<given, at, workers, routing, inbox, result, timely>>

(***************************************************************************)
(* The feature.                                                            *)
(***************************************************************************)
Now    == Script(feature)[at + 1]
Doing(op) == result = "none" /\ at < Len(Script(feature)) /\ Now.op = op
Goes   == at' = at + 1 /\ UNCHANGED <<given, result>>
Steps  == Goes /\ UNCHANGED timely

\* Nothing is under way: changes have propagated, workers are known, and no
\* task waits that a worker is to get.  No action is guarded by it.
Quiet ==
  /\ active = rules /\ (feature \in Deployments => Polling \subseteq known)
  /\ wf.state # "started"
  /\ wf.state = "open" => (wf.task => Takers = {}) /\ wf.part = 0

\* A sleep or a time-out ends, whether or not what it was for has settled.
Expires(settled) == timely' = (timely /\ settled)

\* Execute returns an error: Run closes the runner, and only its worker.
Fails(why) ==
  /\ result' = why /\ first' = "none"
  /\ UNCHANGED <<given, at, second, routing, wf, inbox>>

ServerLacksIt ==
  result = "none" /\ at = 0 /\ Fails("skipped") /\ UNCHANGED timely

CallFails == result = "none" /\ Fails("error") /\ UNCHANGED timely

StartsWorker ==
  /\ Doing("worker") /\ first' = Now.arg /\ Steps
  /\ UNCHANGED <<second, routing, wf, inbox>>

StopsWorker ==
  /\ Doing("stop") /\ first' = "none" /\ Steps
  /\ UNCHANGED <<second, routing, wf, inbox>>

StartsSecond ==
  /\ Doing("second") /\ second' = Now.arg /\ Steps
  /\ UNCHANGED <<first, routing, wf, inbox>>

\* SetCurrent, SetRamp: wait for the version, then set it.  The step is done
\* when the server says the routing has propagated, or says nothing of it.
SetsRule ==
  /\ Doing("set") /\ Now.val \in known /\ rules[Now.arg] # Now.val
  /\ rules' = [rules EXCEPT ![Now.arg] = Now.val]
  /\ UNCHANGED <<given, at, workers, known, active, sets, wf, inbox, result,
                 timely>>

\* Mutant: SetCurrent and SetRamp do not wait for propagation.
PropagationAssumed == TRUE

Propagated == active = rules \/ ~ reports

RuleIsSet ==
  /\ Doing("set") /\ rules[Now.arg] = Now.val /\ Propagated /\ Steps
  /\ UNCHANGED <<workers, routing, wf, inbox>>

SetOf(v) == CHOOSE n \in DOMAIN sets : \E i \in DOMAIN sets[n] : sets[n][i] = v

AddsBuildID ==
  /\ Doing("add") /\ Steps
  /\ sets' = IF Now.val = "new" THEN Append(sets, <<Now.arg>>)
             ELSE [sets EXCEPT ![SetOf(Now.val)] = Append(@, Now.arg)]
  /\ UNCHANGED <<workers, known, rules, active, wf, inbox>>

\* The routing features all use the ID "workflow_1": one that is open is
\* returned as if it had been started.
Executes ==
  /\ Doing("exec") /\ Steps
  /\ wf' = IF leftover = "none"
           THEN [NoWorkflow EXCEPT !.state = "started", !.pin = Now.arg]
           ELSE [NoWorkflow EXCEPT !.state = "open"]
  /\ UNCHANGED <<workers, routing, inbox>>

\* WaitForWorkflowRunning: the status, not a first task.
SeesRunning ==
  /\ Doing("running") /\ wf.state \in {"started", "open"} /\ Steps
  /\ UNCHANGED <<workers, routing, wf, inbox>>

\* A second, whatever has become of the first task meanwhile.
Sleeps ==
  /\ Doing("sleep") /\ Goes /\ Expires(wf.state # "started")
  /\ UNCHANGED <<workers, routing, wf, inbox>>

Signals ==
  /\ Doing("signal") /\ wf.state # "closed" /\ Steps
  /\ inbox' = Append(inbox, Now.arg)
  /\ wf' = [wf EXCEPT !.task = @ \/ wf.state = "open"]
  /\ UNCHANGED <<workers, routing>>

\* A query is answered by a worker that gets the tasks, and after a task
\* that waits; one that no handler is registered for fails.
Answers(q) ==
  IF wf.state \notin {"open", "closed"} \/ wf.task \/ q \notin Handlers(feature)
  THEN {}
  ELSE CASE q = "runningOn" -> Takers
         [] q = "counter"   -> {wf.count : w \in Takers}
         [] OTHER           -> {"true" : w \in Takers}

\* Mutant: any answer will do.
SeesAnyAnswer ==
  /\ Doing("until") /\ Answers(Now.arg) # {} /\ Steps
  /\ UNCHANGED <<workers, routing, wf, inbox>>

SeesAnswer ==
  /\ Doing("until") /\ Now.val \in Answers(Now.arg) /\ Steps
  /\ UNCHANGED <<workers, routing, wf, inbox>>

\* Mutant: a silent query is not looked at.
NoAnswerTold ==
  \/ Doing("silent")
  \/ Doing("never") /\ Now.val \notin Answers(Now.arg)

\* MustTimeoutQuery, and QueryUntilEventually that is to fail: any error will do.
NoAnswer ==
  \/ Doing("silent") /\ Answers(Now.arg) = {}
  \/ Doing("never")  /\ Now.val \notin Answers(Now.arg)

SeesNoAnswer ==
  /\ NoAnswer /\ Goes /\ Expires(Quiet)
  /\ UNCHANGED <<workers, routing, wf, inbox>>

WrongAnswer ==
  \/ Doing("silent") /\ Answers(Now.arg) # {}
  \/ Doing("never") /\ Now.val \in Answers(Now.arg)

SeesWrongAnswer == WrongAnswer /\ Fails("fail") /\ UNCHANGED timely

\* Mutant: SetCurrent and SetRamp wait without a time-out.
UnmetQuery == Doing("until") /\ Now.val \notin Answers(Now.arg)

\* What DoUntilEventually or QueryUntilEventually is waiting for is not so:
\* the version is not there, its rule is not active, no such answer comes.
Unmet ==
  \/ /\ Doing("set")
     /\ IF rules[Now.arg] = Now.val THEN ~Propagated ELSE Now.val \notin known
  \/ Doing("until") /\ Now.val \notin Answers(Now.arg)

\* A workflow that is closed does not get to run, and takes no signal.
Hopeless == wf.state = "closed" /\ (Doing("running") \/ Doing("signal"))

\* Such a wait ends after 10 s, or after the time given to the query.
GivesUp ==
  /\ Fails("fail")
  /\ \/ Unmet /\ Expires(Quiet)
     \/ Hopeless /\ UNCHANGED timely

\* WorkflowExecutionTimeout: a timer of the server, since the workflow was
\* started.
TimesOut ==
  /\ result = "none" /\ wf.state \in {"started", "open"}
  /\ wf' = Closed("timeout")
  /\ Expires(Quiet /\ at = Len(Script(feature)))
  /\ UNCHANGED <<given, at, workers, routing, inbox, result>>

\* CheckResult: waits for the workflow to close.
ChecksResult ==
  /\ result = "none" /\ at = Len(Script(feature)) /\ wf.state = "closed"
  /\ IF wf.by \in Expected(feature)
     THEN result' = "right" /\ UNCHANGED <<given, at, workers, routing, wf, inbox>>
     ELSE Fails("fail") /\ UNCHANGED at
  /\ UNCHANGED timely

\* CheckHistory stops the second worker, and then fetches and replays; Run
\* stops the first when it returns.
ChecksHistory ==
  /\ result = "right" /\ result' \in {"pass", "error"}
  /\ first' = "none" /\ second' = "none"
  /\ UNCHANGED <<given, at, routing, wf, inbox, timely>>

ServerActs  == result = "none" /\ (Registers \/ Propagates \/ Enqueues)
WorkersAct  == \E w \in Workers : TakesTask(w) \/ TakesPart(w)
FeatureActs ==
  \/ StartsWorker \/ StopsWorker \/ StartsSecond \/ SetsRule \/ RuleIsSet
  \/ AddsBuildID \/ Executes \/ SeesRunning \/ Sleeps \/ Signals
  \/ SeesAnswer \/ SeesNoAnswer \/ SeesWrongAnswer \/ GivesUp
  \/ ChecksResult \/ ChecksHistory

Next ==
  \/ ServerActs \/ WorkersAct \/ TimesOut
  \/ FeatureActs \/ ServerLacksIt \/ CallFails

\* The feature's goroutine runs, and the server keeps the execution time-out,
\* the only bound there is on the wait for the result.  Nothing else is asked
\* of the server, nor anything of the workers.
Spec == Init /\ [][Next]_vars /\ WF_vars(FeatureActs) /\ WF_vars(TimesOut)

-------------------------------------------------------------------------------
(***************************************************************************)
(* Properties.                                                             *)
(***************************************************************************)

\* Types of the state.
TypeOK ==
  /\ feature \in Features /\ astray \in Faults /\ {faithful, reports} \subseteq BOOLEAN
  /\ at \in 0..Len(Script(feature)) /\ leftover \in {"none", "open", "served"}
  /\ {first, second} \subseteq Workers \cup {"none"}
  /\ known \subseteq Workers
  /\ {rules, active} \subseteq
       [{"current", "ramp"} -> Workers \cup {"none"}]
  /\ \A n \in DOMAIN sets : \A i \in DOMAIN sets[n] : sets[n][i] \in Workers
  /\ wf.state \in {"none", "started", "open", "closed"}
  /\ wf.by \in Workers \cup {"none", "failed", "timeout"}
  /\ wf.set \in 0..Len(sets) /\ wf.count \in 0..3 /\ wf.part \in 0..4
  /\ result \in {"none", "right", "pass", "fail", "error", "skipped"}
  /\ timely \in BOOLEAN

\* The features that do not wait for the first task to be taken before they
\* change where it would go.
Racy == {"pinned", "unversioned_task"}

\* When no time-out is too short, a server that routes rightly and tells when
\* routing has propagated fails none of the features but two: routing_pinned
\* and unversioned_worker_gets_unversioned_task, and these only if their
\* first task was not taken by the worker it was meant for before the
\* feature changed the routing.
NoFalseAlarm ==
  astray = {} /\ faithful /\ reports /\ leftover = "none" /\ timely
    => (result = "fail" => feature \in Racy /\ wf.began # FirstWorker(feature))

\* The workers a feature starts to see them get nothing.
Bystanders(f) ==
  CASE f = "appropriate_worker" -> {"1.0", "2.0"}
    [] f = "worker_no_task"     -> {"unversioned"}
    [] OTHER                    -> {}

\* A server that gives the workflow's tasks to a worker that must get none is
\* found out, unless a time-out was too short: only_appropriate_worker_gets_task
\* and unversioned_worker_no_task do not pass under it, though they look only
\* through a query that must time out (MustTimeoutQuery), maybe of a workflow
\* that is already closed.
MisroutingDetected ==
  result = "pass" /\ timely => astray \cap Bystanders(feature) = {}

\* The versions that a feature wants to see served, at one time or another.
Needed(f) ==
  CASE f \in {"pinned", "override"}   -> {"1.0"}
    [] f \in {"ramp", "auto_upgrade"} -> {"2.0"}
    [] f \in {"appropriate_worker", "worker_no_task"} -> {"2.1"}
    [] f = "while_polling"            -> {"1.0", "1.1", "1.2"}
    [] f = "unversioned_task"         -> {"unversioned"}
    [] OTHER                          -> {"1.0", "2.0"}

\* A server that withholds the tasks from the worker they are meant for is
\* found out: no feature passes under it, unless each version the feature
\* wants served gets its tasks by another fault.
WithholdingDetected ==
  result = "pass" /\ leftover = "none" /\ timely
    => faithful \/ Needed(feature) \subseteq astray

\* The routing features share the workflow ID "workflow_1".  One that expects
\* the answer of version 1.0 never passes on the workflow that an earlier
\* feature left open: of that feature only the second worker can be alive.
PassIsItsOwn ==
  result = "pass" /\ feature \in Deployments /\ Expected(feature) = {"1.0"}
    => leftover = "none"

\* Whatever the server routes wrongly or never does, no wait of a feature is
\* without end, if the server keeps the workflow's execution time-out: the
\* feature passes, fails or is skipped.
FeatureEnds == <>(result \notin {"none", "right"})
===============================================================================
