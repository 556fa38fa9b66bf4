---------------------- MODULE VersionedRouting_proofs ----------------------
(***************************************************************************)
(* Proofs about VersionedRouting, for any of the features and any faults   *)
(* of the server.  A feature is a script, so that how far it is tells what *)
(* it has done: which workers poll, which build IDs the server has been    *)
(* told of, and, when the server is right, what has become of the          *)
(* workflow.                                                               *)
(***************************************************************************)
EXTENDS VersionedRouting, FiniteSetTheorems, SequenceTheorems, TLAPS

-----------------------------------------------------------------------------
(***************************************************************************)
(* The scripts, step by step.                                              *)
(***************************************************************************)
LEMMA PinnedScript ==
  ASSUME feature = "pinned", at \in Nat
  PROVE  /\ Len(Script(feature)) = 6
         /\ \A op : Doing(op) =>
              \/ at = 0 /\ op = "second" /\ Now.arg = "2.0"
              \/ at = 1 /\ op = "set" /\ Now.arg = "current" /\ Now.val = "1.0"
              \/ at = 2 /\ op = "exec" /\ Now.arg = "none"
              \/ at = 3 /\ op = "running"
              \/ at = 4 /\ op = "set" /\ Now.arg = "current" /\ Now.val = "2.0"
              \/ at = 5 /\ op = "signal" /\ Now.arg = "go"
<1>1. ASSUME at < 6
      PROVE  at = 0 \/ at = 1 \/ at = 2 \/ at = 3 \/ at = 4 \/ at = 5
  BY <1>1
<1>2. /\ Len(Script(feature)) = 6
      /\ at = 0 => Now = Second("2.0")
      /\ at = 1 => Now = Set("current", "1.0")
      /\ at = 2 => Now = Exec("none")
      /\ at = 3 => Now = Running
      /\ at = 4 => Now = Set("current", "2.0")
      /\ at = 5 => Now = Signal("go")
  BY DEF Now, Script, RoutingPinned, StartOnOne
<1>3. ASSUME NEW op, Doing(op)
      PROVE  at < 6 /\ op = Now.op
  BY <1>2, <1>3 DEF Doing
<1>. QED
  BY <1>1, <1>2, <1>3 DEF Step, Exec, Running, Second, Set, Signal

LEMMA AutoUpgradeScript ==
  ASSUME feature = "auto_upgrade", at \in Nat
  PROVE  /\ Len(Script(feature)) = 6
         /\ \A op : Doing(op) =>
              \/ at = 0 /\ op = "second" /\ Now.arg = "2.0"
              \/ at = 1 /\ op = "set" /\ Now.arg = "current" /\ Now.val = "1.0"
              \/ at = 2 /\ op = "exec" /\ Now.arg = "none"
              \/ at = 3 /\ op = "running"
              \/ at = 4 /\ op = "set" /\ Now.arg = "current" /\ Now.val = "2.0"
              \/ at = 5 /\ op = "signal" /\ Now.arg = "go"
<1>1. ASSUME at < 6
      PROVE  at = 0 \/ at = 1 \/ at = 2 \/ at = 3 \/ at = 4 \/ at = 5
  BY <1>1
<1>2. /\ Len(Script(feature)) = 6
      /\ at = 0 => Now = Second("2.0")
      /\ at = 1 => Now = Set("current", "1.0")
      /\ at = 2 => Now = Exec("none")
      /\ at = 3 => Now = Running
      /\ at = 4 => Now = Set("current", "2.0")
      /\ at = 5 => Now = Signal("go")
  BY DEF Now, Script, RoutingAutoUpgrade, StartOnOne
<1>3. ASSUME NEW op, Doing(op)
      PROVE  at < 6 /\ op = Now.op
  BY <1>2, <1>3 DEF Doing
<1>. QED
  BY <1>1, <1>2, <1>3 DEF Step, Exec, Running, Second, Set, Signal

LEMMA RampScript ==
  ASSUME feature = "ramp", at \in Nat
  PROVE  /\ Len(Script(feature)) = 6
         /\ \A op : Doing(op) =>
              \/ at = 0 /\ op = "second" /\ Now.arg = "2.0"
              \/ at = 1 /\ op = "set" /\ Now.arg = "current" /\ Now.val = "1.0"
              \/ at = 2 /\ op = "exec" /\ Now.arg = "none"
              \/ at = 3 /\ op = "running"
              \/ at = 4 /\ op = "set" /\ Now.arg = "ramp" /\ Now.val = "2.0"
              \/ at = 5 /\ op = "signal" /\ Now.arg = "go"
<1>1. ASSUME at < 6
      PROVE  at = 0 \/ at = 1 \/ at = 2 \/ at = 3 \/ at = 4 \/ at = 5
  BY <1>1
<1>2. /\ Len(Script(feature)) = 6
      /\ at = 0 => Now = Second("2.0")
      /\ at = 1 => Now = Set("current", "1.0")
      /\ at = 2 => Now = Exec("none")
      /\ at = 3 => Now = Running
      /\ at = 4 => Now = Set("ramp", "2.0")
      /\ at = 5 => Now = Signal("go")
  BY DEF Now, Script, RoutingWithRamp, StartOnOne
<1>3. ASSUME NEW op, Doing(op)
      PROVE  at < 6 /\ op = Now.op
  BY <1>2, <1>3 DEF Doing
<1>. QED
  BY <1>1, <1>2, <1>3 DEF Step, Exec, Running, Second, Set, Signal

LEMMA OverrideScript ==
  ASSUME feature = "override", at \in Nat
  PROVE  /\ Len(Script(feature)) = 5
         /\ \A op : Doing(op) =>
              \/ at = 0 /\ op = "second" /\ Now.arg = "2.0"
              \/ at = 1 /\ op = "set" /\ Now.arg = "current" /\ Now.val = "2.0"
              \/ at = 2 /\ op = "exec" /\ Now.arg = "1.0"
              \/ at = 3 /\ op = "running"
              \/ at = 4 /\ op = "signal" /\ Now.arg = "go"
<1>1. ASSUME at < 5
      PROVE  at = 0 \/ at = 1 \/ at = 2 \/ at = 3 \/ at = 4
  BY <1>1
<1>2. /\ Len(Script(feature)) = 5
      /\ at = 0 => Now = Second("2.0")
      /\ at = 1 => Now = Set("current", "2.0")
      /\ at = 2 => Now = Exec("1.0")
      /\ at = 3 => Now = Running
      /\ at = 4 => Now = Signal("go")
  BY DEF Now, Script, RoutingWithOverride
<1>3. ASSUME NEW op, Doing(op)
      PROVE  at < 5 /\ op = Now.op
  BY <1>2, <1>3 DEF Doing
<1>. QED
  BY <1>1, <1>2, <1>3 DEF Step, Exec, Running, Second, Set, Signal

LEMMA AppropriateScript ==
  ASSUME feature = "appropriate_worker", at \in Nat
  PROVE  /\ Len(Script(feature)) = 15
         /\ \A op : Doing(op) =>
              \/ at = 0 /\ op = "add" /\ Now.arg = "1.0" /\ Now.val = "new"
              \/ at = 1 /\ op = "add" /\ Now.arg = "2.0" /\ Now.val = "new"
              \/ at = 2 /\ op = "add" /\ Now.arg = "2.1" /\ Now.val = "2.0"
              \/ at = 3 /\ op = "worker" /\ Now.arg = "2.1"
              \/ at = 4 /\ op = "exec" /\ Now.arg = "none"
              \/ at = 5 /\ op = "until" /\ Now.arg = "waiting" /\ Now.val = "true"
              \/ at = 6 /\ op = "stop"
              \/ at = 7 /\ op = "signal" /\ Now.arg = "go"
              \/ at = 8 /\ op = "worker" /\ Now.arg = "2.0"
              \/ at = 9 /\ op = "silent" /\ Now.arg = "waiting"
              \/ at = 10 /\ op = "stop"
              \/ at = 11 /\ op = "worker" /\ Now.arg = "1.0"
              \/ at = 12 /\ op = "silent" /\ Now.arg = "waiting"
              \/ at = 13 /\ op = "stop"
              \/ at = 14 /\ op = "worker" /\ Now.arg = "2.1"
<1>1. ASSUME at < 15
      PROVE  at = 0 \/ at = 1 \/ at = 2 \/ at = 3 \/ at = 4 \/ at = 5 \/ at = 6 \/ at = 7 \/
             at = 8 \/ at = 9 \/ at = 10 \/ at = 11 \/ at = 12 \/ at = 13 \/ at = 14
  BY <1>1
<1>2. /\ Len(Script(feature)) = 15
      /\ at = 0 => Now = Add("1.0", "new")
      /\ at = 1 => Now = Add("2.0", "new")
      /\ at = 2 => Now = Add("2.1", "2.0")
      /\ at = 3 => Now = Worker("2.1")
      /\ at = 4 => Now = Exec("none")
      /\ at = 5 => Now = Until("waiting", "true")
      /\ at = 6 => Now = Stop
      /\ at = 7 => Now = Signal("go")
      /\ at = 8 => Now = Worker("2.0")
      /\ at = 9 => Now = Silent("waiting")
      /\ at = 10 => Now = Stop
      /\ at = 11 => Now = Worker("1.0")
      /\ at = 12 => Now = Silent("waiting")
      /\ at = 13 => Now = Stop
      /\ at = 14 => Now = Worker("2.1")
  BY DEF Now, Script, OnlyAppropriateWorker
<1>3. ASSUME NEW op, Doing(op)
      PROVE  at < 15 /\ op = Now.op
  BY <1>2, <1>3 DEF Doing
<1>. QED
  BY <1>1, <1>2, <1>3 DEF Step, Add, Exec, Signal, Silent, Stop, Until, Worker

LEMMA PollingScript ==
  ASSUME feature = "while_polling", at \in Nat
  PROVE  /\ Len(Script(feature)) = 16
         /\ \A op : Doing(op) =>
              \/ at = 0 /\ op = "add" /\ Now.arg = "1.0" /\ Now.val = "new"
              \/ at = 1 /\ op = "worker" /\ Now.arg = "1.0"
              \/ at = 2 /\ op = "exec" /\ Now.arg = "none"
              \/ at = 3 /\ op = "signal" /\ Now.arg = "add1"
              \/ at = 4 /\ op = "until" /\ Now.arg = "counter" /\ Now.val = 1
              \/ at = 5 /\ op = "worker" /\ Now.arg = "1.1"
              \/ at = 6 /\ op = "signal" /\ Now.arg = "add1"
              \/ at = 7 /\ op = "silent" /\ Now.arg = "waiting"
              \/ at = 8 /\ op = "add" /\ Now.arg = "1.1" /\ Now.val = "1.0"
              \/ at = 9 /\ op = "worker" /\ Now.arg = "1.1"
              \/ at = 10 /\ op = "until" /\ Now.arg = "counter" /\ Now.val = 2
              \/ at = 11 /\ op = "add" /\ Now.arg = "1.2" /\ Now.val = "1.1"
              \/ at = 12 /\ op = "signal" /\ Now.arg = "add1"
              \/ at = 13 /\ op = "never" /\ Now.arg = "counter" /\ Now.val = 2
              \/ at = 14 /\ op = "worker" /\ Now.arg = "1.2"
              \/ at = 15 /\ op = "signal" /\ Now.arg = "cancel"
<1>1. ASSUME at < 16
      PROVE  at = 0 \/ at = 1 \/ at = 2 \/ at = 3 \/ at = 4 \/ at = 5 \/ at = 6 \/ at = 7 \/
             at = 8 \/ at = 9 \/ at = 10 \/ at = 11 \/ at = 12 \/ at = 13 \/ at = 14 \/ at = 15
  BY <1>1
<1>2. /\ Len(Script(feature)) = 16
      /\ at = 0 => Now = Add("1.0", "new")
      /\ at = 1 => Now = Worker("1.0")
      /\ at = 2 => Now = Exec("none")
      /\ at = 3 => Now = Signal("add1")
      /\ at = 4 => Now = Until("counter", 1)
      /\ at = 5 => Now = Worker("1.1")
      /\ at = 6 => Now = Signal("add1")
      /\ at = 7 => Now = Silent("waiting")
      /\ at = 8 => Now = Add("1.1", "1.0")
      /\ at = 9 => Now = Worker("1.1")
      /\ at = 10 => Now = Until("counter", 2)
      /\ at = 11 => Now = Add("1.2", "1.1")
      /\ at = 12 => Now = Signal("add1")
      /\ at = 13 => Now = Never("counter", 2)
      /\ at = 14 => Now = Worker("1.2")
      /\ at = 15 => Now = Signal("cancel")
  BY DEF Now, Script, AddedWhilePolling
<1>3. ASSUME NEW op, Doing(op)
      PROVE  at < 16 /\ op = Now.op
  BY <1>2, <1>3 DEF Doing
<1>. QED
  BY <1>1, <1>2, <1>3 DEF Step, Add, Exec, Never, Signal, Silent, Until, Worker

LEMMA NoTaskScript ==
  ASSUME feature = "worker_no_task", at \in Nat
  PROVE  /\ Len(Script(feature)) = 6
         /\ \A op : Doing(op) =>
              \/ at = 0 /\ op = "add" /\ Now.arg = "1.0" /\ Now.val = "new"
              \/ at = 1 /\ op = "add" /\ Now.arg = "2.0" /\ Now.val = "new"
              \/ at = 2 /\ op = "add" /\ Now.arg = "2.1" /\ Now.val = "2.0"
              \/ at = 3 /\ op = "exec" /\ Now.arg = "none"
              \/ at = 4 /\ op = "silent" /\ Now.arg = "__stack_trace"
              \/ at = 5 /\ op = "worker" /\ Now.arg = "2.1"
<1>1. ASSUME at < 6
      PROVE  at = 0 \/ at = 1 \/ at = 2 \/ at = 3 \/ at = 4 \/ at = 5
  BY <1>1
<1>2. /\ Len(Script(feature)) = 6
      /\ at = 0 => Now = Add("1.0", "new")
      /\ at = 1 => Now = Add("2.0", "new")
      /\ at = 2 => Now = Add("2.1", "2.0")
      /\ at = 3 => Now = Exec("none")
      /\ at = 4 => Now = Silent("__stack_trace")
      /\ at = 5 => Now = Worker("2.1")
  BY DEF Now, Script, UnversionedNoTask
<1>3. ASSUME NEW op, Doing(op)
      PROVE  at < 6 /\ op = Now.op
  BY <1>2, <1>3 DEF Doing
<1>. QED
  BY <1>1, <1>2, <1>3 DEF Step, Add, Exec, Silent, Worker

LEMMA UnversionedScript ==
  ASSUME feature = "unversioned_task", at \in Nat
  PROVE  /\ Len(Script(feature)) = 5
         /\ \A op : Doing(op) =>
              \/ at = 0 /\ op = "exec" /\ Now.arg = "none"
              \/ at = 1 /\ op = "add" /\ Now.arg = "1.0" /\ Now.val = "new"
              \/ at = 2 /\ op = "add" /\ Now.arg = "2.0" /\ Now.val = "new"
              \/ at = 3 /\ op = "add" /\ Now.arg = "2.1" /\ Now.val = "2.0"
              \/ at = 4 /\ op = "signal" /\ Now.arg = "go"
<1>1. ASSUME at < 5
      PROVE  at = 0 \/ at = 1 \/ at = 2 \/ at = 3 \/ at = 4
  BY <1>1
<1>2. /\ Len(Script(feature)) = 5
      /\ at = 0 => Now = Exec("none")
      /\ at = 1 => Now = Add("1.0", "new")
      /\ at = 2 => Now = Add("2.0", "new")
      /\ at = 3 => Now = Add("2.1", "2.0")
      /\ at = 4 => Now = Signal("go")
  BY DEF Now, Script, UnversionedTask
<1>3. ASSUME NEW op, Doing(op)
      PROVE  at < 5 /\ op = Now.op
  BY <1>2, <1>3 DEF Doing
<1>. QED
  BY <1>1, <1>2, <1>3 DEF Step, Add, Exec, Signal

LEMMA AsNewScript ==
  ASSUME feature = "continues_as_new", at \in Nat
  PROVE  /\ Len(Script(feature)) = 11
         /\ \A op : Doing(op) =>
              \/ at = 0 /\ op = "add" /\ Now.arg = "1.0" /\ Now.val = "new"
              \/ at = 1 /\ op = "second" /\ Now.arg = "2.0"
              \/ at = 2 /\ op = "exec" /\ Now.arg = "none"
              \/ at = 3 /\ op = "sleep"
              \/ at = 4 /\ op = "add" /\ Now.arg = "2.0" /\ Now.val = "new"
              \/ at = 5 /\ op = "until" /\ Now.arg = "runningOn" /\ Now.val = "1.0"
              \/ at = 6 /\ op = "signal" /\ Now.arg = "same"
              \/ at = 7 /\ op = "until" /\ Now.arg = "runningOn" /\ Now.val = "1.0"
              \/ at = 8 /\ op = "signal" /\ Now.arg = "default"
              \/ at = 9 /\ op = "until" /\ Now.arg = "runningOn" /\ Now.val = "2.0"
              \/ at = 10 /\ op = "signal" /\ Now.arg = "end"
<1>1. ASSUME at < 11
      PROVE  at = 0 \/ at = 1 \/ at = 2 \/ at = 3 \/ at = 4 \/ at = 5 \/ at = 6 \/ at = 7 \/
             at = 8 \/ at = 9 \/ at = 10
  BY <1>1
<1>2. /\ Len(Script(feature)) = 11
      /\ at = 0 => Now = Add("1.0", "new")
      /\ at = 1 => Now = Second("2.0")
      /\ at = 2 => Now = Exec("none")
      /\ at = 3 => Now = Sleep
      /\ at = 4 => Now = Add("2.0", "new")
      /\ at = 5 => Now = Until("runningOn", "1.0")
      /\ at = 6 => Now = Signal("same")
      /\ at = 7 => Now = Until("runningOn", "1.0")
      /\ at = 8 => Now = Signal("default")
      /\ at = 9 => Now = Until("runningOn", "2.0")
      /\ at = 10 => Now = Signal("end")
  BY DEF Now, Script, ContinuesAsNew
<1>3. ASSUME NEW op, Doing(op)
      PROVE  at < 11 /\ op = Now.op
  BY <1>2, <1>3 DEF Doing
<1>. QED
  BY <1>1, <1>2, <1>3 DEF Step, Add, Exec, Second, Signal, Sleep, Until

LEMMA PartsScript ==
  ASSUME feature = "activity_and_child", at \in Nat
  PROVE  /\ Len(Script(feature)) = 6
         /\ \A op : Doing(op) =>
              \/ at = 0 /\ op = "add" /\ Now.arg = "1.0" /\ Now.val = "new"
              \/ at = 1 /\ op = "second" /\ Now.arg = "2.0"
              \/ at = 2 /\ op = "exec" /\ Now.arg = "none"
              \/ at = 3 /\ op = "sleep"
              \/ at = 4 /\ op = "add" /\ Now.arg = "2.0" /\ Now.val = "new"
              \/ at = 5 /\ op = "signal" /\ Now.arg = "go"
<1>1. ASSUME at < 6
      PROVE  at = 0 \/ at = 1 \/ at = 2 \/ at = 3 \/ at = 4 \/ at = 5
  BY <1>1
<1>2. /\ Len(Script(feature)) = 6
      /\ at = 0 => Now = Add("1.0", "new")
      /\ at = 1 => Now = Second("2.0")
      /\ at = 2 => Now = Exec("none")
      /\ at = 3 => Now = Sleep
      /\ at = 4 => Now = Add("2.0", "new")
      /\ at = 5 => Now = Signal("go")
  BY DEF Now, Script, ActivityAndChild
<1>3. ASSUME NEW op, Doing(op)
      PROVE  at < 6 /\ op = Now.op
  BY <1>2, <1>3 DEF Doing
<1>. QED
  BY <1>1, <1>2, <1>3 DEF Step, Add, Exec, Second, Signal, Sleep

Sent == {"go", "add1", "cancel", "same", "default", "end"}

Known == Deployments \cup BuildIds

\* What the steps of any script are about.
LEMMA Arguments ==
  ASSUME feature \in Known, at \in Nat
  PROVE  /\ Len(Script(feature)) \in Nat
         /\ \A op : Doing(op) =>
              /\ op \in {"worker", "second", "add"} => Now.arg \in Workers
              /\ op = "exec" => Now.arg \in {"none", "1.0"}
              /\ op = "set" => Now.arg \in {"current", "ramp"} /\ Now.val \in Workers
              /\ op = "signal" => Now.arg \in Sent
<1>. USE DEF Workers, Sent
<1>1. CASE feature = "pinned"
  BY <1>1, PinnedScript
<1>2. CASE feature = "auto_upgrade"
  BY <1>2, AutoUpgradeScript
<1>3. CASE feature = "ramp"
  BY <1>3, RampScript
<1>4. CASE feature = "override"
  BY <1>4, OverrideScript
<1>5. CASE feature = "appropriate_worker"
  BY <1>5, AppropriateScript
<1>6. CASE feature = "while_polling"
  BY <1>6, PollingScript
<1>7. CASE feature = "worker_no_task"
  BY <1>7, NoTaskScript
<1>8. CASE feature = "unversioned_task"
  BY <1>8, UnversionedScript
<1>9. CASE feature = "continues_as_new"
  BY <1>9, AsNewScript
<1>10. CASE feature = "activity_and_child"
  BY <1>10, PartsScript
<1>. QED
  BY <1>1, <1>2, <1>3, <1>4, <1>5, <1>6, <1>7, <1>8, <1>9, <1>10
     DEF Known, Deployments, BuildIds

-----------------------------------------------------------------------------
(***************************************************************************)
(* Types.                                                                  *)
(***************************************************************************)
Workflow ==
  [state : {"none", "started", "open", "closed"},
   by : Workers \cup {"none", "failed", "timeout"},
   pin : Workers \cup {"none"}, set : Nat, task : BOOLEAN,
   began : Workers \cup {"none"}, count : Nat, part : 0..4]

Rules == [{"current", "ramp"} -> Workers \cup {"none"}]

\* TypeOK but for the bound of the count, and what the server and the workers
\* may find: the signals, the sets, and a workflow that is bound to one of them.
Typed ==
  /\ feature \in Features /\ astray \in Faults
  /\ faithful \in BOOLEAN /\ reports \in BOOLEAN
  /\ leftover \in {"none", "open", "served"}
  /\ leftover # "none" => feature \in Deployments
  /\ at \in Nat /\ at <= Len(Script(feature))
  /\ first \in Workers \cup {"none"} /\ second \in Workers \cup {"none"}
  /\ known \in SUBSET Workers /\ rules \in Rules /\ active \in Rules
  /\ sets \in Seq(Seq(Workers)) /\ inbox \in Seq(Sent)
  /\ wf \in Workflow /\ wf.set <= Len(sets)
  /\ wf.task => wf.state = "open"
  /\ wf.state \in {"none", "started"} => wf.part = 0
  /\ result \in {"none", "right", "pass", "fail", "error", "skipped"}
  /\ timely \in BOOLEAN

LEMMA FeatureKnown == Typed => feature \in Known
  BY RoutingAssumption DEF Typed, Known

LEMMA TypedInit == Init => Typed
<1>. SUFFICES ASSUME Init PROVE Typed
  OBVIOUS
<1>1. feature \in Known /\ at = 0
  BY RoutingAssumption DEF Init, Known
<1>2. at \in Nat /\ at <= Len(Script(feature))
  BY <1>1, Arguments
<1>3. NoWorkflow \in Workflow /\ NoRule \in Rules
  BY DEF NoWorkflow, Workflow, NoRule, Rules, Workers
<1>4. FirstWorker(feature) \in Workers
  BY DEF FirstWorker, Workers
<1>5. sets \in Seq(Seq(Workers)) /\ inbox \in Seq(Sent) /\ Len(sets) = 0
  BY DEF Init
<1>6. wf.set = 0 /\ ~ wf.task /\ wf.state = "none" /\ wf.part = 0
  BY DEF Init, NoWorkflow
<1>. QED
  BY <1>1, <1>2, <1>3, <1>4, <1>5, <1>6 DEF Init, Typed

\* The workflow when it is bound to another set and has a task.
LEMMA BoundTo ==
  ASSUME NEW x \in Workflow, NEW n \in Nat
  PROVE  LET y == [x EXCEPT !.task = TRUE, !.set = n]
         IN  /\ y \in Workflow /\ y.state = x.state /\ y.by = x.by /\ y.pin = x.pin
             /\ y.set = n /\ y.task /\ y.count = x.count /\ y.part = x.part
  BY DEF Workflow

\* What the actions make of the workflow.
LEMMA Opened ==
  ASSUME Typed, Enqueues
  PROVE  /\ wf' \in Workflow /\ wf'.state = "open" /\ wf'.by = wf.by /\ wf'.pin = wf.pin
         /\ wf'.set = Len(sets) /\ wf'.task
         /\ wf'.count = wf.count /\ wf'.part = wf.part
<1>. DEFINE open == [wf EXCEPT !.state = "open"]
<1>1. wf \in Workflow /\ Len(sets) \in Nat
  BY DEF Typed
<1>2. /\ open \in Workflow /\ open.state = "open" /\ open.by = wf.by
      /\ open.pin = wf.pin /\ open.count = wf.count /\ open.part = wf.part
  BY <1>1 DEF Workflow
<1>3. wf' = [open EXCEPT !.task = TRUE, !.set = Len(sets)]
  BY DEF Enqueues
<1>. HIDE DEF open
<1>. QED
  BY <1>1, <1>2, <1>3, BoundTo

LEMMA Started ==
  ASSUME Typed, Executes
  PROVE  /\ wf' \in Workflow /\ wf'.by = "none" /\ wf'.set = 0 /\ ~ wf'.task
         /\ wf'.count = 0 /\ wf'.part = 0
         /\ leftover = "none" => wf'.state = "started" /\ wf'.pin = Now.arg
         /\ leftover # "none" => wf'.state = "open"
<1>1. Now.arg \in {"none", "1.0"}
  BY FeatureKnown, Arguments DEF Typed, Executes
<1>2. NoWorkflow \in Workflow /\ Now.arg \in Workers \cup {"none"}
  BY <1>1 DEF NoWorkflow, Workflow, Workers
<1>3. CASE leftover = "none"
  <2>1. wf' = [NoWorkflow EXCEPT !.state = "started", !.pin = Now.arg]
    BY <1>3 DEF Executes
  <2>. QED
    BY <1>2, <1>3, <2>1 DEF NoWorkflow, Workflow
<1>4. CASE leftover # "none"
  <2>1. wf' = [NoWorkflow EXCEPT !.state = "open"]
    BY <1>4 DEF Executes
  <2>. QED
    BY <1>2, <1>4, <2>1 DEF NoWorkflow, Workflow
<1>. QED
  BY <1>3, <1>4

LEMMA Signaled ==
  ASSUME Typed, Signals
  PROVE  /\ wf' \in Workflow /\ wf'.state = wf.state /\ wf'.by = wf.by /\ wf'.pin = wf.pin
         /\ wf'.set = wf.set /\ wf'.count = wf.count /\ wf'.part = wf.part
         /\ wf'.task <=> wf.task \/ wf.state = "open"
  BY DEF Typed, Signals, Workflow

LEMMA ClosedBy ==
  ASSUME Typed, NEW w \in Workers \cup {"failed", "timeout"}
  PROVE  /\ Closed(w) \in Workflow /\ Closed(w).state = "closed" /\ Closed(w).by = w
         /\ Closed(w).pin = wf.pin /\ Closed(w).set = wf.set /\ ~ Closed(w).task
         /\ Closed(w).count = wf.count /\ Closed(w).part = wf.part
  BY DEF Typed, Closed, Workflow

\* A task makes a workflow of a workflow.
LEMMA RanTyped ==
  ASSUME Typed, NEW w \in Workers, wf.state = "open"
  PROVE  /\ Ran(w) \in Workflow /\ Ran(w).set <= Len(sets)
         /\ Ran(w).task => Ran(w).state = "open"
         /\ Ran(w).state \in {"open", "closed"}
<1>1. /\ wf \in Workflow /\ Len(sets) \in Nat /\ Len(inbox) \in Nat
      /\ wf.set \in Nat /\ wf.count \in Nat /\ wf.set <= Len(sets)
  BY DEF Typed, Workflow
<1>. DEFINE began == IF wf.began = "none" THEN w ELSE wf.began
            rest == [wf EXCEPT !.task = FALSE, !.began = began,
                       !.pin = IF PinsOnStart(feature) /\ w = "1.0" /\ ~ Attached
                               THEN w ELSE @]
<1>2. began \in Workers \cup {"none"} /\ rest \in Workflow
  BY <1>1 DEF Workflow
<1>3. rest.set = wf.set /\ ~ rest.task /\ rest.state = "open" /\ rest.count = wf.count
  BY <1>1 DEF Workflow
<1>4. /\ Closed(w) \in Workflow /\ Closed(w).set = wf.set
      /\ ~ Closed(w).task /\ Closed(w).state = "closed"
  BY <1>1 DEF Workflow, Closed
<1>. HIDE DEF began, rest
<1>. DEFINE Good(x) == /\ x \in Workflow /\ x.set <= Len(sets)
                       /\ x.task => x.state = "open"
                       /\ x.state \in {"open", "closed"}
<1>5. Good([Closed(w) EXCEPT !.began = began])
  BY <1>1, <1>2, <1>4 DEF Workflow
<1>6. Good([rest EXCEPT !.part = 1])
  BY <1>1, <1>2, <1>3 DEF Workflow
<1>7. Good([rest EXCEPT !.count = @ + Len(inbox)])
  BY <1>1, <1>2, <1>3 DEF Workflow
<1>8. Good([rest EXCEPT !.task = TRUE])
  BY <1>1, <1>2, <1>3 DEF Workflow
<1>9. Good([rest EXCEPT !.task = TRUE, !.set = Len(sets)])
  <2>1. LET y == [rest EXCEPT !.task = TRUE, !.set = Len(sets)]
        IN  y \in Workflow /\ y.state = rest.state /\ y.set = Len(sets)
    BY <1>1, <1>2, BoundTo
  <2>. QED
    BY <1>1, <1>3, <2>1
<1>10. \/ Ran(w) = [Closed(w) EXCEPT !.began = began]
       \/ Ran(w) = [rest EXCEPT !.part = 1]
       \/ Ran(w) = [rest EXCEPT !.count = @ + Len(inbox)]
       \/ Ran(w) = [rest EXCEPT !.task = TRUE]
       \/ Ran(w) = [rest EXCEPT !.task = TRUE, !.set = Len(sets)]
       \/ Ran(w) = rest
  BY DEF Ran, rest, began
<1>11. Good(rest)
  BY <1>1, <1>2, <1>3
<1>12. Good(Ran(w))
  <2>. HIDE DEF Good
  <2>. QED
    BY <1>5, <1>6, <1>7, <1>8, <1>9, <1>10, <1>11
<1>. QED
  BY <1>12

\* The server's actions, which leave the feature where it is.
LEMMA TypedServer ==
  ASSUME Typed, Registers \/ Propagates \/ Enqueues
  PROVE  Typed'
<1>. USE DEF Typed, given, workers, routing
<1>1. CASE Registers
  <2>1. Polling \subseteq Workers
    BY DEF Polling
  <2>. QED
    BY <1>1, <2>1 DEF Registers
<1>2. CASE Propagates
  BY <1>2 DEF Propagates
<1>3. CASE Enqueues
  <2>1. Len(sets) \in Nat /\ wf.part = 0
    BY <1>3 DEF Enqueues
  <2>. QED
    BY <1>3, <2>1, Opened DEF Enqueues
<1>. QED
  BY <1>1, <1>2, <1>3

LEMMA TypedWorkers ==
  ASSUME Typed, NEW w \in Workers, TakesTask(w) \/ TakesPart(w)
  PROVE  Typed'
<1>1. CASE TakesTask(w)
  <2>1. /\ wf' = Ran(w) /\ inbox' = <<>> /\ wf.state = "open"
        /\ UNCHANGED <<given, at, workers, routing, result, timely>>
    BY <1>1 DEF TakesTask
  <2>2. /\ wf' \in Workflow /\ wf'.set <= Len(sets)
        /\ wf'.task => wf'.state = "open"
        /\ wf'.state \in {"open", "closed"}
    BY <2>1, RanTyped
  <2>. QED
    BY <2>1, <2>2 DEF Typed, given, workers, routing
<1>2. CASE TakesPart(w)
  <2>1. /\ wf' = IF w # Wanted(wf.part) THEN Closed("failed")
                 ELSE IF wf.part = 4 THEN Closed(w) ELSE [wf EXCEPT !.part = @ + 1]
        /\ wf.state = "open" /\ wf.part > 0
        /\ UNCHANGED <<given, at, workers, routing, inbox, result, timely>>
    BY <1>2 DEF TakesPart
  <2>2. wf \in Workflow /\ wf.set <= Len(sets)
    BY DEF Typed
  <2>3. \A by \in Workers \cup {"failed"} :
          /\ Closed(by) \in Workflow /\ Closed(by).set = wf.set
          /\ ~ Closed(by).task /\ Closed(by).state = "closed"
    BY ClosedBy
  <2>4. wf.part # 4 =>
          /\ [wf EXCEPT !.part = @ + 1] \in Workflow
          /\ [wf EXCEPT !.part = @ + 1].set = wf.set
          /\ [wf EXCEPT !.part = @ + 1].state = "open"
          /\ [wf EXCEPT !.part = @ + 1].task = wf.task
    BY <2>1, <2>2 DEF Workflow
  <2>5. /\ wf' \in Workflow /\ wf'.set <= Len(sets)
        /\ wf'.task => wf'.state = "open"
        /\ wf'.state \in {"open", "closed"}
    BY <2>1, <2>2, <2>3, <2>4
  <2>. QED
    BY <2>1, <2>5 DEF Typed, given, workers, routing
<1>. QED
  BY <1>1, <1>2

\* A step of the script: at most one of the workers, the rules, the sets, the
\* workflow with its signals changes.
LEMMA TypedFeature ==
  ASSUME Typed, FeatureActs
  PROVE  Typed'
<1>1. feature \in Known /\ at \in Nat /\ Len(Script(feature)) \in Nat
  BY FeatureKnown, Arguments DEF Typed
<1>2. ASSUME NEW op, Doing(op)
      PROVE  at < Len(Script(feature)) /\ at + 1 <= Len(Script(feature))
  BY <1>1, <1>2 DEF Doing
<1>3. CASE StartsWorker
  <2>1. Doing("worker") /\ first' = Now.arg /\ Steps
        /\ UNCHANGED <<second, routing, wf, inbox>>
    BY <1>3 DEF StartsWorker
  <2>2. Now.arg \in Workers
    BY <1>1, <2>1, Arguments
  <2>. QED
    BY <1>1, <1>2, <2>1, <2>2 DEF Typed, Steps, Goes, given, routing
<1>4. CASE StopsWorker
  <2>1. Doing("stop")
    BY <1>4 DEF StopsWorker
  <2>. QED
    BY <1>1, <1>2, <1>4, <2>1 DEF StopsWorker, Typed, Steps, Goes, given, routing
<1>5. CASE StartsSecond
  <2>1. Doing("second") /\ second' = Now.arg /\ Steps
        /\ UNCHANGED <<first, routing, wf, inbox>>
    BY <1>5 DEF StartsSecond
  <2>2. Now.arg \in Workers
    BY <1>1, <2>1, Arguments
  <2>. QED
    BY <1>1, <1>2, <2>1, <2>2 DEF Typed, Steps, Goes, given, routing
<1>6. CASE SetsRule
  <2>1. Now.arg \in {"current", "ramp"} /\ Now.val \in Workers
    BY <1>1, <1>6, Arguments DEF SetsRule
  <2>2. rules' \in Rules
    BY <1>6, <2>1 DEF SetsRule, Typed, Rules
  <2>. QED
    BY <1>6, <2>2 DEF SetsRule, Typed, given, workers
<1>7. CASE RuleIsSet
  <2>1. Doing("set")
    BY <1>7 DEF RuleIsSet
  <2>. QED
    BY <1>1, <1>2, <1>7, <2>1 DEF RuleIsSet, Typed, Steps, Goes, given, workers, routing
<1>8. CASE AddsBuildID
  <2>1. Doing("add") /\ Steps /\ UNCHANGED <<workers, known, rules, active, wf, inbox>>
    BY <1>8 DEF AddsBuildID
  <2>2. Now.arg \in Workers /\ sets \in Seq(Seq(Workers)) /\ wf.set \in Nat
        /\ wf.set <= Len(sets)
    BY <1>1, <2>1, Arguments DEF Typed, Workflow
  <2>3. sets' \in Seq(Seq(Workers)) /\ Len(sets) <= Len(sets')
    <3>1. CASE Now.val = "new"
      <4>1. sets' = Append(sets, <<Now.arg>>) /\ <<Now.arg>> \in Seq(Workers)
        BY <1>8, <2>2, <3>1 DEF AddsBuildID
      <4>. QED
        BY <2>2, <4>1
    <3>2. CASE Now.val # "new"
      <4>1. sets' = [sets EXCEPT ![SetOf(Now.val)] = Append(@, Now.arg)]
        BY <1>8, <3>2 DEF AddsBuildID
      <4>2. CASE SetOf(Now.val) \in 1..Len(sets)
        <5>1. Append(sets[SetOf(Now.val)], Now.arg) \in Seq(Workers)
          BY <2>2, <4>2
        <5>. QED
          BY <2>2, <4>1, <4>2, <5>1, ExceptSeq
      <4>3. CASE SetOf(Now.val) \notin 1..Len(sets)
        <5>1. sets' = sets
          BY <2>2, <4>1, <4>3
        <5>. QED
          BY <2>2, <5>1
      <4>. QED
        BY <4>2, <4>3
    <3>. QED
      BY <3>1, <3>2
  <2>4. wf.set <= Len(sets')
    BY <2>2, <2>3
  <2>. QED
    BY <1>1, <1>2, <2>1, <2>3, <2>4 DEF Typed, Steps, Goes, given, workers
<1>9. CASE Executes
  <2>1. Doing("exec") /\ Steps /\ UNCHANGED <<workers, routing, inbox>>
    BY <1>9 DEF Executes
  <2>2. Len(sets) \in Nat
    BY DEF Typed
  <2>3. wf' \in Workflow /\ wf'.set <= Len(sets) /\ ~ wf'.task /\ wf'.part = 0
    BY <1>9, <2>2, Started
  <2>. QED
    BY <1>1, <1>2, <2>1, <2>3 DEF Typed, Steps, Goes, given, workers, routing
<1>10. CASE SeesRunning
  <2>1. Doing("running")
    BY <1>10 DEF SeesRunning
  <2>. QED
    BY <1>1, <1>2, <1>10, <2>1 DEF SeesRunning, Typed, Steps, Goes, given, workers, routing
<1>11. CASE Sleeps
  <2>1. Doing("sleep")
    BY <1>11 DEF Sleeps
  <2>. QED
    BY <1>1, <1>2, <1>11, <2>1 DEF Sleeps, Typed, Goes, Expires, given, workers, routing
<1>12. CASE Signals
  <2>1. Doing("signal") /\ Steps /\ UNCHANGED <<workers, routing>>
        /\ wf' = [wf EXCEPT !.task = @ \/ wf.state = "open"]
        /\ inbox' = Append(inbox, Now.arg)
    BY <1>12 DEF Signals
  <2>2. Now.arg \in Sent
    BY <1>1, <2>1, Arguments
  <2>3. inbox' \in Seq(Sent)
    BY <2>1, <2>2 DEF Typed
  <2>4. /\ wf' \in Workflow /\ wf'.set = wf.set /\ wf'.part = wf.part /\ wf'.state = wf.state
        /\ wf'.task => wf'.state = "open"
    BY <1>12, Signaled DEF Typed
  <2>. QED
    BY <1>1, <1>2, <2>1, <2>3, <2>4 DEF Typed, Steps, Goes, given, workers, routing
<1>13. CASE SeesAnswer
  <2>1. Doing("until")
    BY <1>13 DEF SeesAnswer
  <2>. QED
    BY <1>1, <1>2, <1>13, <2>1 DEF SeesAnswer, Typed, Steps, Goes, given, workers, routing
<1>14. CASE SeesNoAnswer
  <2>1. Doing("silent") \/ Doing("never")
    BY <1>14 DEF SeesNoAnswer, NoAnswer
  <2>. QED
    BY <1>1, <1>2, <1>14, <2>1 DEF SeesNoAnswer, Typed, Goes, Expires, given, workers, routing
<1>15. CASE SeesWrongAnswer \/ GivesUp
  BY <1>15 DEF SeesWrongAnswer, GivesUp, Fails, Expires, Typed, given, routing
<1>16. CASE ChecksResult \/ ChecksHistory
  BY <1>16 DEF ChecksResult, ChecksHistory, Fails, Typed, given, workers, routing
<1>. QED
  BY <1>3, <1>4, <1>5, <1>6, <1>7, <1>8, <1>9, <1>10, <1>11, <1>12, <1>13,
     <1>14, <1>15, <1>16 DEF FeatureActs

LEMMA TypedStep ==
  ASSUME Typed, [Next]_vars
  PROVE  Typed'
<1>1. CASE ServerActs
  BY <1>1, TypedServer DEF ServerActs
<1>2. CASE WorkersAct
  BY <1>2, TypedWorkers DEF WorkersAct
<1>3. CASE FeatureActs
  BY <1>3, TypedFeature
<1>4. CASE TimesOut
  <2>1. /\ wf' \in Workflow /\ wf'.set = wf.set /\ ~ wf'.task /\ wf'.state = "closed"
    BY <1>4, ClosedBy DEF TimesOut
  <2>. QED
    BY <1>4, <2>1 DEF TimesOut, Expires, Typed, given, workers, routing
<1>5. CASE ServerLacksIt \/ CallFails
  BY <1>5 DEF ServerLacksIt, CallFails, Fails, Typed, given, routing
<1>6. CASE UNCHANGED vars
  BY <1>6 DEF Typed, vars, given, workers, routing
<1>. QED
  BY <1>1, <1>2, <1>3, <1>4, <1>5, <1>6 DEF Next

-----------------------------------------------------------------------------
(***************************************************************************)
(* Steps that leave the feature undecided.                                 *)
(***************************************************************************)
\* What a step of the script does, whichever it is.
Taken(op) ==
  /\ Doing(op) /\ at' = at + 1 /\ UNCHANGED <<known, rules, active>>
  /\ first' = IF op = "worker" THEN Now.arg ELSE IF op = "stop" THEN "none" ELSE first
  /\ second' = IF op = "second" THEN Now.arg ELSE second
  /\ IF op = "add" THEN AddsBuildID ELSE UNCHANGED sets
  /\ CASE op = "exec"   -> Executes
       [] op = "signal" -> Signals
       [] OTHER         -> UNCHANGED <<wf, inbox>>
  /\ op = "set" => RuleIsSet
  /\ op = "sleep" => Sleeps
  /\ op = "until" => SeesAnswer
  /\ op \in {"silent", "never"} => SeesNoAnswer

\* What happens beside the script.
Beside ==
  \/ (Registers \/ Propagates \/ SetsRule) /\ UNCHANGED <<wf, inbox>>
  \/ Enqueues \/ TimesOut
  \/ \E w \in Workers : TakesTask(w) \/ TakesPart(w)

\* A feature that is decided does nothing more, but for the history to check.
LEMMA Decided ==
  ASSUME Next
  PROVE  result = "none" \/ ChecksHistory
<1>1. CASE ServerActs
  BY <1>1 DEF ServerActs
<1>2. CASE WorkersAct
  BY <1>2 DEF WorkersAct, TakesTask, TakesPart
<1>3. CASE TimesOut \/ ServerLacksIt \/ CallFails
  BY <1>3 DEF TimesOut, ServerLacksIt, CallFails
<1>4. CASE SeesWrongAnswer \/ GivesUp
  BY <1>4 DEF SeesWrongAnswer, GivesUp, WrongAnswer, Unmet, Hopeless, Doing
<1>5. CASE ChecksResult \/ ChecksHistory
  BY <1>5 DEF ChecksResult
<1>6. ASSUME NEW op, Doing(op)
      PROVE  result = "none"
  BY <1>6 DEF Doing
<1>7. CASE \/ StartsWorker \/ StopsWorker \/ StartsSecond \/ SetsRule \/ RuleIsSet
           \/ AddsBuildID \/ Executes \/ SeesRunning \/ Sleeps \/ Signals \/ SeesAnswer
  BY <1>6, <1>7 DEF StartsWorker, StopsWorker, StartsSecond, SetsRule, RuleIsSet,
     AddsBuildID, Executes, SeesRunning, Sleeps, Signals, SeesAnswer
<1>8. CASE SeesNoAnswer
  BY <1>6, <1>8 DEF SeesNoAnswer, NoAnswer
<1>. QED
  BY <1>1, <1>2, <1>3, <1>4, <1>5, <1>7, <1>8 DEF Next, FeatureActs

LEMMA Moves ==
  ASSUME Next, result' = "none"
  PROVE  /\ result = "none" /\ UNCHANGED given
         /\ \/ Beside /\ UNCHANGED <<at, workers, sets>>
            \/ \E op : Taken(op)
<1>1. result = "none"
  BY Decided DEF ChecksHistory
<1>. USE DEF given, workers, routing
<1>2. CASE ServerActs
  BY <1>1, <1>2 DEF ServerActs, Beside, Registers, Propagates, Enqueues
<1>3. CASE WorkersAct
  BY <1>1, <1>3 DEF WorkersAct, Beside, TakesTask, TakesPart
<1>4. CASE TimesOut
  BY <1>1, <1>4 DEF TimesOut, Beside
<1>5. CASE SetsRule
  BY <1>1, <1>5 DEF SetsRule, Beside
<1>6. CASE StartsWorker
  <2>1. Taken("worker") /\ UNCHANGED given
    BY <1>6 DEF StartsWorker, Steps, Goes, Taken
  <2>. QED
    BY <1>1, <2>1
<1>7. CASE StopsWorker
  <2>1. Taken("stop") /\ UNCHANGED given
    BY <1>7 DEF StopsWorker, Steps, Goes, Taken
  <2>. QED
    BY <1>1, <2>1
<1>8. CASE StartsSecond
  <2>1. Taken("second") /\ UNCHANGED given
    BY <1>8 DEF StartsSecond, Steps, Goes, Taken
  <2>. QED
    BY <1>1, <2>1
<1>9. CASE RuleIsSet
  <2>1. Taken("set") /\ UNCHANGED given
    BY <1>9 DEF RuleIsSet, Steps, Goes, Taken
  <2>. QED
    BY <1>1, <2>1
<1>10. CASE AddsBuildID
  <2>1. Taken("add") /\ UNCHANGED given
    BY <1>10 DEF AddsBuildID, Steps, Goes, Taken
  <2>. QED
    BY <1>1, <2>1
<1>11. CASE Executes
  <2>1. Taken("exec") /\ UNCHANGED given
    BY <1>11 DEF Executes, Steps, Goes, Taken
  <2>. QED
    BY <1>1, <2>1
<1>12. CASE SeesRunning
  <2>1. Taken("running") /\ UNCHANGED given
    BY <1>12 DEF SeesRunning, Steps, Goes, Taken
  <2>. QED
    BY <1>1, <2>1
<1>13. CASE Sleeps
  <2>1. Taken("sleep") /\ UNCHANGED given
    BY <1>13 DEF Sleeps, Goes, Taken
  <2>. QED
    BY <1>1, <2>1
<1>14. CASE Signals
  <2>1. Taken("signal") /\ UNCHANGED given
    BY <1>14 DEF Signals, Steps, Goes, Taken
  <2>. QED
    BY <1>1, <2>1
<1>15. CASE SeesAnswer
  <2>1. Taken("until") /\ UNCHANGED given
    BY <1>15 DEF SeesAnswer, Steps, Goes, Taken
  <2>. QED
    BY <1>1, <2>1
<1>16. CASE SeesNoAnswer
  <2>1. PICK op \in {"silent", "never"} : Doing(op)
    BY <1>16 DEF SeesNoAnswer, NoAnswer
  <2>2. Taken(op) /\ UNCHANGED given
    BY <1>16, <2>1 DEF SeesNoAnswer, Goes, Taken
  <2>. QED
    BY <1>1, <2>2
<1>17. CASE \/ ServerLacksIt \/ CallFails \/ SeesWrongAnswer \/ GivesUp
            \/ ChecksResult \/ ChecksHistory
  BY <1>17 DEF ServerLacksIt, CallFails, SeesWrongAnswer, GivesUp, Fails, ChecksResult,
     ChecksHistory
<1>. QED
  BY <1>2, <1>3, <1>4, <1>5, <1>6, <1>7, <1>8, <1>9, <1>10, <1>11, <1>12, <1>13,
     <1>14, <1>15, <1>16, <1>17 DEF Next, FeatureActs

-----------------------------------------------------------------------------
(***************************************************************************)
(* How far the script is tells which workers poll, which build IDs have    *)
(* been added, and whether there is a workflow, whatever the server does.  *)
(***************************************************************************)
\* Steps done before the one that starts the workflow.
StartedAfter(f) ==
  CASE f = "appropriate_worker" -> 4
    [] f = "worker_no_task"     -> 3
    [] f = "unversioned_task"   -> 0
    [] OTHER                    -> 2

Begun ==
  /\ wf.state = "none" <=> at <= StartedAfter(feature)
  /\ wf.state = "none" => inbox = <<>>

Pollers ==
  /\ feature \in Deployments =>
       first = "1.0" /\ second = IF at = 0 THEN "none" ELSE "2.0"
  /\ feature \in {"continues_as_new", "activity_and_child"} =>
       first = "1.0" /\ second = IF at <= 1 THEN "none" ELSE "2.0"
  /\ feature = "appropriate_worker" =>
       /\ second = "none"
       /\ first = IF at <= 6 \/ at = 15 THEN "2.1"
                  ELSE IF at = 9 \/ at = 10 THEN "2.0"
                  ELSE IF at = 12 \/ at = 13 THEN "1.0" ELSE "none"
  /\ feature = "while_polling" =>
       /\ second = "none"
       /\ first = IF at <= 5 THEN "1.0" ELSE IF at <= 14 THEN "1.1" ELSE "1.2"
  /\ feature = "worker_no_task" =>
       second = "none" /\ first = IF at <= 5 THEN "unversioned" ELSE "2.1"
  /\ feature = "unversioned_task" => second = "none" /\ first = "unversioned"

SetsAdded ==
  /\ feature \in {"appropriate_worker", "worker_no_task"} =>
       sets = IF at = 0 THEN <<>> ELSE IF at = 1 THEN <<<<"1.0">>>>
              ELSE IF at = 2 THEN <<<<"1.0">>, <<"2.0">>>>
              ELSE <<<<"1.0">>, <<"2.0", "2.1">>>>
  /\ feature = "while_polling" =>
       sets = IF at = 0 THEN <<>> ELSE IF at <= 8 THEN <<<<"1.0">>>>
              ELSE IF at <= 11 THEN <<<<"1.0", "1.1">>>>
              ELSE <<<<"1.0", "1.1", "1.2">>>>
  /\ feature \in {"continues_as_new", "activity_and_child"} =>
       sets = IF at = 0 THEN <<>> ELSE IF at <= 4 THEN <<<<"1.0">>>>
              ELSE <<<<"1.0">>, <<"2.0">>>>
  /\ feature = "unversioned_task" =>
       sets = IF at <= 1 THEN <<>> ELSE IF at = 2 THEN <<<<"1.0">>>>
              ELSE IF at = 3 THEN <<<<"1.0">>, <<"2.0">>>>
              ELSE <<<<"1.0">>, <<"2.0", "2.1">>>>

SoFar == Begun /\ Pollers /\ SetsAdded

\* The workflow is started once, and signalled only after that.
LEMMA StartedOnce ==
  ASSUME feature \in Known, at \in Nat, NEW op, Doing(op)
  PROVE  /\ op = "exec" <=> at = StartedAfter(feature)
         /\ op = "signal" => at > StartedAfter(feature)
<1>. USE DEF StartedAfter
<1>1. CASE feature = "pinned"
  BY <1>1, PinnedScript
<1>2. CASE feature = "auto_upgrade"
  BY <1>2, AutoUpgradeScript
<1>3. CASE feature = "ramp"
  BY <1>3, RampScript
<1>4. CASE feature = "override"
  BY <1>4, OverrideScript
<1>5. CASE feature = "appropriate_worker"
  BY <1>5, AppropriateScript
<1>6. CASE feature = "while_polling"
  BY <1>6, PollingScript
<1>7. CASE feature = "worker_no_task"
  BY <1>7, NoTaskScript
<1>8. CASE feature = "unversioned_task"
  BY <1>8, UnversionedScript
<1>9. CASE feature = "continues_as_new"
  BY <1>9, AsNewScript
<1>10. CASE feature = "activity_and_child"
  BY <1>10, PartsScript
<1>. QED
  BY <1>1, <1>2, <1>3, <1>4, <1>5, <1>6, <1>7, <1>8, <1>9, <1>10
     DEF Known, Deployments, BuildIds

LEMMA SoFarInit == Init => SoFar
<1>. SUFFICES ASSUME Init PROVE SoFar
  OBVIOUS
<1>1. Begun
  BY DEF Init, Begun, StartedAfter, NoWorkflow
<1>2. Pollers
  BY DEF Init, Pollers, FirstWorker, Deployments
<1>3. SetsAdded
  BY DEF Init, SetsAdded
<1>. QED
  BY <1>1, <1>2, <1>3 DEF SoFar

LEMMA BegunKept ==
  ASSUME Typed, Begun, Next, result' = "none"
  PROVE  Begun'
<1>1. feature \in Known /\ at \in Nat /\ feature' = feature /\ StartedAfter(feature) \in Nat
  BY FeatureKnown, Moves DEF Typed, given, StartedAfter
<1>2. CASE Beside /\ UNCHANGED <<at, workers, sets>>
  <2>1. CASE (Registers \/ Propagates \/ SetsRule) /\ UNCHANGED <<wf, inbox>>
    BY <1>1, <1>2, <2>1 DEF Begun
  <2>2. CASE Enqueues
    BY <1>1, <1>2, <2>2, Opened DEF Begun, Enqueues
  <2>3. CASE TimesOut
    BY <1>1, <1>2, <2>3, ClosedBy DEF Begun, TimesOut
  <2>4. ASSUME NEW w \in Workers, TakesTask(w)
        PROVE  Begun'
    BY <1>1, <1>2, <2>4, RanTyped DEF Begun, TakesTask
  <2>5. ASSUME NEW w \in Workers, TakesPart(w)
        PROVE  Begun'
    <3>1. wf'.state \in {"open", "closed"} /\ wf.state = "open"
      BY <2>5, ClosedBy DEF TakesPart, Typed, Workflow
    <3>. QED
      BY <1>1, <1>2, <3>1 DEF Begun
  <2>. QED
    BY <1>2, <2>1, <2>2, <2>3, <2>4, <2>5 DEF Beside
<1>3. ASSUME NEW op, Taken(op)
      PROVE  Begun'
  <2>1. /\ at' = at + 1
        /\ op = "exec" <=> at = StartedAfter(feature)
        /\ op = "signal" => at > StartedAfter(feature)
    BY <1>1, <1>3, StartedOnce DEF Taken
  <2>2. CASE op = "exec"
    <3>1. Executes
      BY <1>3, <2>2 DEF Taken
    <3>. QED
      BY <1>1, <2>1, <2>2, <3>1, Started DEF Begun
  <2>3. CASE op = "signal"
    <3>1. Signals
      BY <1>3, <2>3 DEF Taken
    <3>. QED
      BY <1>1, <2>1, <2>3, <3>1, Signaled DEF Begun
  <2>4. CASE op \notin {"exec", "signal"}
    BY <1>1, <1>3, <2>1, <2>4 DEF Taken, Begun
  <2>. QED
    BY <2>2, <2>3, <2>4
<1>. QED
  BY <1>2, <1>3, Moves

LEMMA PollersKept ==
  ASSUME Typed, Pollers, Next, result' = "none"
  PROVE  Pollers'
<1>1. feature \in Known /\ at \in Nat /\ feature' = feature
  BY FeatureKnown, Moves DEF Typed, given
<1>2. CASE Beside /\ UNCHANGED <<at, workers, sets>>
  BY <1>1, <1>2 DEF Pollers, workers
<1>3. ASSUME NEW op, Taken(op)
      PROVE  Pollers'
  <2>1. /\ Doing(op) /\ at' = at + 1
        /\ first' = IF op = "worker" THEN Now.arg ELSE IF op = "stop" THEN "none" ELSE first
        /\ second' = IF op = "second" THEN Now.arg ELSE second
    BY <1>3 DEF Taken
  <2>. USE <1>1, <2>1 DEF Pollers, Deployments
  <2>2. CASE feature = "pinned"
    BY <2>2, PinnedScript
  <2>3. CASE feature = "auto_upgrade"
    BY <2>3, AutoUpgradeScript
  <2>4. CASE feature = "ramp"
    BY <2>4, RampScript
  <2>5. CASE feature = "override"
    BY <2>5, OverrideScript
  <2>6. CASE feature = "appropriate_worker"
    BY <2>6, AppropriateScript
  <2>7. CASE feature = "while_polling"
    BY <2>7, PollingScript
  <2>8. CASE feature = "worker_no_task"
    BY <2>8, NoTaskScript
  <2>9. CASE feature = "unversioned_task"
    BY <2>9, UnversionedScript
  <2>10. CASE feature = "continues_as_new"
    BY <2>10, AsNewScript
  <2>11. CASE feature = "activity_and_child"
    BY <2>11, PartsScript
  <2>. QED
    BY <2>2, <2>3, <2>4, <2>5, <2>6, <2>7, <2>8, <2>9, <2>10, <2>11 DEF Known, BuildIds
<1>. QED
  BY <1>2, <1>3, Moves

\* Appending to one.
LEMMA AppendSecond ==
  ASSUME NEW a, NEW b
  PROVE  Append(<<a>>, b) = <<a, b>>
<1>1. /\ <<a>> \in Seq({a, b}) /\ Len(<<a>>) = 1 /\ <<a>>[1] = a
      /\ <<a, b>> \in Seq({a, b}) /\ Len(<<a, b>>) = 2
      /\ <<a, b>>[1] = a /\ <<a, b>>[2] = b
  OBVIOUS
<1>2. /\ Append(<<a>>, b) \in Seq({a, b}) /\ Len(Append(<<a>>, b)) = 2
      /\ Append(<<a>>, b)[1] = a /\ Append(<<a>>, b)[2] = b
  BY <1>1, AppendProperties
<1>3. \A i \in 1..2 : Append(<<a>>, b)[i] = <<a, b>>[i]
  BY <1>1, <1>2
<1>. QED
  BY <1>1, <1>2, <1>3, SeqEqual

\* A build ID that is added in a set of its own, to the only set, or to the
\* last of two.
LEMMA AddedTo ==
  ASSUME AddsBuildID, NEW u, NEW v, NEW w, Now.arg = w, Now.val = v
  PROVE  /\ v = "new" /\ sets = <<>> => sets' = <<<<w>>>>
         /\ v = "new" /\ sets = <<<<u>>>> => sets' = <<<<u>>, <<w>>>>
         /\ v # "new" /\ sets = <<<<v>>>> => sets' = <<<<v, w>>>>
         /\ v # "new" /\ sets = <<<<u, v>>>> => sets' = <<<<u, v, w>>>>
         /\ v # "new" /\ u # v /\ sets = <<<<u>>, <<v>>>> => sets' = <<<<u>>, <<v, w>>>>
<1>1. sets' = IF v = "new" THEN Append(sets, <<w>>)
              ELSE [sets EXCEPT ![SetOf(v)] = Append(@, w)]
  BY DEF AddsBuildID
<1>2. ASSUME v # "new", sets = <<<<v>>>>
      PROVE  sets' = <<<<v, w>>>>
  <2>1. SetOf(v) = 1
    BY <1>2 DEF SetOf
  <2>. QED
    BY <1>1, <1>2, <2>1
<1>3. ASSUME v # "new", sets = <<<<u, v>>>>
      PROVE  sets' = <<<<u, v, w>>>>
  <2>1. SetOf(v) = 1
    BY <1>3 DEF SetOf
  <2>. QED
    BY <1>1, <1>3, <2>1
<1>4. ASSUME v # "new", u # v, sets = <<<<u>>, <<v>>>>
      PROVE  sets' = <<<<u>>, <<v, w>>>>
  <2>1. SetOf(v) = 2
    BY <1>4 DEF SetOf
  <2>. QED
    BY <1>1, <1>4, <2>1
<1>5. ASSUME v = "new", sets = <<>>
      PROVE  sets' = <<<<w>>>>
  BY <1>1, <1>5
<1>6. ASSUME v = "new", sets = <<<<u>>>>
      PROVE  sets' = <<<<u>>, <<w>>>>
  <2>1. sets' = Append(<<<<u>>>>, <<w>>)
    BY <1>1, <1>6
  <2>. QED
    BY Zenon, <2>1, AppendSecond
<1>. QED
  BY <1>2, <1>3, <1>4, <1>5, <1>6

LEMMA SetsAddedKept ==
  ASSUME Typed, SetsAdded, Next, result' = "none"
  PROVE  SetsAdded'
<1>1. feature \in Known /\ at \in Nat /\ feature' = feature
  BY FeatureKnown, Moves DEF Typed, given
<1>2. CASE Beside /\ UNCHANGED <<at, workers, sets>>
  BY <1>1, <1>2 DEF SetsAdded
<1>3. ASSUME NEW op, Taken(op)
      PROVE  SetsAdded'
  <2>1. /\ Doing(op) /\ at' = at + 1
        /\ op = "add" => AddsBuildID
        /\ op # "add" => sets' = sets
    BY <1>3 DEF Taken
  <2>2. CASE feature = "appropriate_worker"
    <3>1. CASE op = "add"
      <4>1. \/ at = 0 /\ Now.arg = "1.0" /\ Now.val = "new" /\ sets = <<>>
            \/ at = 1 /\ Now.arg = "2.0" /\ Now.val = "new" /\ sets = <<<<"1.0">>>>
            \/ at = 2 /\ Now.arg = "2.1" /\ Now.val = "2.0"
               /\ sets = <<<<"1.0">>, <<"2.0">>>>
        BY <1>1, <2>1, <2>2, <3>1, AppropriateScript DEF SetsAdded
      <4>2. \/ at' = 1 /\ sets' = <<<<"1.0">>>>
            \/ at' = 2 /\ sets' = <<<<"1.0">>, <<"2.0">>>>
            \/ at' = 3 /\ sets' = <<<<"1.0">>, <<"2.0", "2.1">>>>
        BY <2>1, <3>1, <4>1, AddedTo
      <4>. QED
        BY <1>1, <2>2, <4>2 DEF SetsAdded
    <3>2. CASE op # "add"
      <4>1. at > 2
        BY <1>1, <2>1, <2>2, <3>2, AppropriateScript
      <4>. QED
        BY <1>1, <2>1, <2>2, <3>2, <4>1 DEF SetsAdded
    <3>. QED
      BY <3>1, <3>2
  <2>3. CASE feature = "worker_no_task"
    <3>1. CASE op = "add"
      <4>1. \/ at = 0 /\ Now.arg = "1.0" /\ Now.val = "new" /\ sets = <<>>
            \/ at = 1 /\ Now.arg = "2.0" /\ Now.val = "new" /\ sets = <<<<"1.0">>>>
            \/ at = 2 /\ Now.arg = "2.1" /\ Now.val = "2.0"
               /\ sets = <<<<"1.0">>, <<"2.0">>>>
        BY <1>1, <2>1, <2>3, <3>1, NoTaskScript DEF SetsAdded
      <4>2. \/ at' = 1 /\ sets' = <<<<"1.0">>>>
            \/ at' = 2 /\ sets' = <<<<"1.0">>, <<"2.0">>>>
            \/ at' = 3 /\ sets' = <<<<"1.0">>, <<"2.0", "2.1">>>>
        BY <2>1, <3>1, <4>1, AddedTo
      <4>. QED
        BY <1>1, <2>3, <4>2 DEF SetsAdded
    <3>2. CASE op # "add"
      <4>1. at > 2
        BY <1>1, <2>1, <2>3, <3>2, NoTaskScript
      <4>. QED
        BY <1>1, <2>1, <2>3, <3>2, <4>1 DEF SetsAdded
    <3>. QED
      BY <3>1, <3>2
  <2>4. CASE feature = "while_polling"
    <3>1. CASE op = "add"
      <4>1. \/ at = 0 /\ Now.arg = "1.0" /\ Now.val = "new" /\ sets = <<>>
            \/ at = 8 /\ Now.arg = "1.1" /\ Now.val = "1.0" /\ sets = <<<<"1.0">>>>
            \/ at = 11 /\ Now.arg = "1.2" /\ Now.val = "1.1" /\ sets = <<<<"1.0", "1.1">>>>
        BY <1>1, <2>1, <2>4, <3>1, PollingScript DEF SetsAdded
      <4>2. \/ at' = 1 /\ sets' = <<<<"1.0">>>>
            \/ at' = 9 /\ sets' = <<<<"1.0", "1.1">>>>
            \/ at' = 12 /\ sets' = <<<<"1.0", "1.1", "1.2">>>>
        BY <2>1, <3>1, <4>1, AddedTo
      <4>. QED
        BY <1>1, <2>4, <4>2 DEF SetsAdded
    <3>2. CASE op # "add"
      <4>1. at # 0 /\ at # 8 /\ at # 11
        BY <1>1, <2>1, <2>4, <3>2, PollingScript
      <4>. QED
        BY <1>1, <2>1, <2>4, <3>2, <4>1 DEF SetsAdded
    <3>. QED
      BY <3>1, <3>2
  <2>5. CASE feature \in {"continues_as_new", "activity_and_child"}
    <3>1. CASE op = "add"
      <4>1. \/ at = 0 /\ Now.arg = "1.0" /\ Now.val = "new" /\ sets = <<>>
            \/ at = 4 /\ Now.arg = "2.0" /\ Now.val = "new" /\ sets = <<<<"1.0">>>>
        BY <1>1, <2>1, <2>5, <3>1, AsNewScript, PartsScript DEF SetsAdded
      <4>2. CASE at = 0
        <5>1. at' = 1 /\ sets' = <<<<"1.0">>>>
          BY <2>1, <3>1, <4>1, <4>2, AddedTo
        <5>. QED
          BY <1>1, <2>5, <5>1 DEF SetsAdded
      <4>3. CASE at = 4
        <5>1. at' = 5 /\ sets' = <<<<"1.0">>, <<"2.0">>>>
          BY <2>1, <3>1, <4>1, <4>3, AddedTo
        <5>. QED
          BY <1>1, <2>5, <5>1 DEF SetsAdded
      <4>. QED
        BY <4>1, <4>2, <4>3
    <3>2. CASE op # "add"
      <4>1. at # 0 /\ at # 4
        BY <1>1, <2>1, <2>5, <3>2, AsNewScript, PartsScript
      <4>. QED
        BY <1>1, <2>1, <2>5, <3>2, <4>1 DEF SetsAdded
    <3>. QED
      BY <3>1, <3>2
  <2>6. CASE feature = "unversioned_task"
    <3>1. CASE op = "add"
      <4>1. \/ at = 1 /\ Now.arg = "1.0" /\ Now.val = "new" /\ sets = <<>>
            \/ at = 2 /\ Now.arg = "2.0" /\ Now.val = "new" /\ sets = <<<<"1.0">>>>
            \/ at = 3 /\ Now.arg = "2.1" /\ Now.val = "2.0"
               /\ sets = <<<<"1.0">>, <<"2.0">>>>
        BY <1>1, <2>1, <2>6, <3>1, UnversionedScript DEF SetsAdded
      <4>2. \/ at' = 2 /\ sets' = <<<<"1.0">>>>
            \/ at' = 3 /\ sets' = <<<<"1.0">>, <<"2.0">>>>
            \/ at' = 4 /\ sets' = <<<<"1.0">>, <<"2.0", "2.1">>>>
        BY <2>1, <3>1, <4>1, AddedTo
      <4>. QED
        BY <1>1, <2>6, <4>2 DEF SetsAdded
    <3>2. CASE op # "add"
      <4>1. at = 0 \/ at > 3
        BY <1>1, <2>1, <2>6, <3>2, UnversionedScript
      <4>. QED
        BY <1>1, <2>1, <2>6, <3>2, <4>1 DEF SetsAdded
    <3>. QED
      BY <3>1, <3>2
  <2>. QED
    BY <1>1, <2>2, <2>3, <2>4, <2>5, <2>6 DEF SetsAdded
<1>. QED
  BY <1>2, <1>3, Moves

LEMMA SoFarKept ==
  ASSUME Typed, SoFar, Next, result' = "none"
  PROVE  SoFar'
  BY BegunKept, PollersKept, SetsAddedKept DEF SoFar

\* The signals that were sent to the workflow of AddedWhilePolling are counted
\* or wait: none before its fourth step, then one, two, three.
Counted ==
  /\ feature # "while_polling" => wf.count = 0
  /\ feature = "while_polling" =>
       /\ wf.count <= 3
       /\ \A i \in 1..Len(inbox) : inbox[i] = "add1" \/ (at = 16 /\ inbox[i] = "cancel")
       /\ at < 16 /\ wf.state # "closed" =>
            wf.count + Len(inbox) = IF at <= 3 THEN 0 ELSE IF at <= 6 THEN 1
                                    ELSE IF at <= 12 THEN 2 ELSE 3
       /\ at = 16 => wf.state = "closed" \/ Got("cancel")

\* What a task of a workflow makes of its count.
LEMMA RanCounts ==
  ASSUME Typed, NEW w \in Workers, wf.state = "open"
  PROVE  /\ feature # "while_polling" => Ran(w).count = wf.count
         /\ feature = "while_polling" /\ (\A i \in 1..Len(inbox) : inbox[i] \in {"add1", "cancel"}) =>
              /\ Got("cancel") => Ran(w).state = "closed" /\ Ran(w).count = wf.count
              /\ ~ Got("cancel") => Ran(w).count = wf.count + Len(inbox)
<1>1. wf \in Workflow /\ Len(inbox) \in Nat /\ Len(sets) \in Nat /\ DOMAIN inbox = 1..Len(inbox)
  BY DEF Typed
<1>. DEFINE began == IF wf.began = "none" THEN w ELSE wf.began
            rest == [wf EXCEPT !.task = FALSE, !.began = began,
                       !.pin = IF PinsOnStart(feature) /\ w = "1.0" /\ ~ Attached
                               THEN w ELSE @]
<1>2. rest \in Workflow /\ rest.count = wf.count
  BY <1>1 DEF Workflow
<1>3. /\ Closed(w) \in Workflow /\ Closed(w).count = wf.count
      /\ Closed(w).state = "closed"
  BY ClosedBy
<1>. HIDE DEF began, rest
<1>4. /\ [Closed(w) EXCEPT !.began = began].count = wf.count
      /\ [Closed(w) EXCEPT !.began = began].state = "closed"
  BY <1>3 DEF Workflow
<1>5. [rest EXCEPT !.part = 1].count = wf.count
  BY <1>2 DEF Workflow
<1>6. [rest EXCEPT !.count = @ + Len(inbox)].count = wf.count + Len(inbox)
  BY <1>2 DEF Workflow
<1>7. [rest EXCEPT !.task = TRUE].count = wf.count
  BY <1>2 DEF Workflow
<1>8. [rest EXCEPT !.task = TRUE, !.set = Len(sets)].count = wf.count
  BY <1>1, <1>2, BoundTo
<1>9. CASE feature # "while_polling"
  <2>1. \/ Ran(w) = [Closed(w) EXCEPT !.began = began]
        \/ Ran(w) = [rest EXCEPT !.part = 1]
        \/ Ran(w) = [rest EXCEPT !.task = TRUE]
        \/ Ran(w) = [rest EXCEPT !.task = TRUE, !.set = Len(sets)]
        \/ Ran(w) = rest
    BY <1>9 DEF Ran, rest, began
  <2>. QED
    BY <1>2, <1>4, <1>5, <1>7, <1>8, <1>9, <2>1
<1>10. CASE /\ feature = "while_polling"
            /\ \A i \in 1..Len(inbox) : inbox[i] \in {"add1", "cancel"}
  <2>1. ~ Got("end") /\ ~ Got("go") /\ ~ Got("same") /\ ~ Got("default")
    BY <1>1, <1>10 DEF Got
  <2>2. Got("cancel") => Ran(w) = [Closed(w) EXCEPT !.began = began]
    BY <1>10, <2>1 DEF Ran, began
  <2>3. ~ Got("cancel") => Ran(w) = [rest EXCEPT !.count = @ + Len(inbox)]
    BY <1>10, <2>1 DEF Ran, began, rest
  <2>. QED
    BY <1>4, <1>6, <1>10, <2>2, <2>3
<1>. QED
  BY <1>9, <1>10

LEMMA CountedKept ==
  ASSUME Typed, SoFar, Counted, Next, result' = "none"
  PROVE  Counted'
<1>1. feature \in Known /\ at \in Nat /\ feature' = feature /\ wf \in Workflow /\ inbox \in Seq(Sent)
  BY FeatureKnown, Moves DEF Typed, given
<1>2. CASE Beside /\ UNCHANGED <<at, workers, sets>>
  <2>1. CASE (Registers \/ Propagates \/ SetsRule) /\ UNCHANGED <<wf, inbox>>
    BY <1>1, <1>2, <2>1 DEF Counted, Got
  <2>2. CASE Enqueues
    <3>1. wf'.count = wf.count /\ wf'.state = "open" /\ inbox' = inbox /\ wf.state # "closed"
      BY <2>2, Opened DEF Enqueues
    <3>. QED
      BY <1>1, <1>2, <3>1 DEF Counted, Got
  <2>3. CASE TimesOut
    <3>1. wf'.count = wf.count /\ wf'.state = "closed" /\ inbox' = inbox
      BY <2>3, ClosedBy DEF TimesOut
    <3>. QED
      BY <1>1, <1>2, <3>1 DEF Counted, Got
  <2>4. ASSUME NEW w \in Workers, TakesTask(w)
        PROVE  Counted'
    <3>1. wf' = Ran(w) /\ inbox' = <<>> /\ wf.state = "open"
      BY <2>4 DEF TakesTask
    <3>2. CASE feature # "while_polling"
      BY <1>1, <1>2, <3>1, <3>2, RanCounts DEF Counted
    <3>3. CASE feature = "while_polling"
      <4>1. \A i \in 1..Len(inbox) : inbox[i] \in {"add1", "cancel"}
        BY <3>3 DEF Counted
      <4>2. CASE Got("cancel")
        <5>1. wf'.state = "closed" /\ wf'.count = wf.count
          BY <3>1, <3>3, <4>1, <4>2, RanCounts
        <5>. QED
          BY <1>1, <1>2, <3>1, <3>3, <5>1 DEF Counted
      <4>3. CASE ~ Got("cancel")
        <5>1. wf'.count = wf.count + Len(inbox) /\ Len(inbox') = 0
          BY <3>1, <3>3, <4>1, <4>3, RanCounts
        <5>2. at < 16
          <6>1. at <= 16
            BY <1>1, <3>3, PollingScript DEF Typed
          <6>2. at # 16
            BY <3>1, <3>3, <4>3 DEF Counted
          <6>. QED
            BY <1>1, <6>1, <6>2
        <5>3. wf.count \in Nat /\ Len(inbox) \in Nat
          BY <1>1 DEF Workflow
        <5>4. wf'.count = IF at <= 3 THEN 0 ELSE IF at <= 6 THEN 1
                          ELSE IF at <= 12 THEN 2 ELSE 3
          BY <3>1, <3>3, <5>1, <5>2, <5>3 DEF Counted
        <5>. QED
          BY <1>1, <1>2, <3>3, <5>1, <5>2, <5>4 DEF Counted
      <4>. QED
        BY <4>2, <4>3
    <3>. QED
      BY <3>2, <3>3
  <2>5. ASSUME NEW w \in Workers, TakesPart(w)
        PROVE  Counted'
    <3>1. wf'.count = wf.count /\ inbox' = inbox /\ wf.state = "open"
          /\ wf'.state \in {"open", "closed"}
      BY <1>1, <2>5, ClosedBy DEF TakesPart, Workflow
    <3>. QED
      BY <1>1, <1>2, <3>1 DEF Counted, Got
  <2>. QED
    BY <1>2, <2>1, <2>2, <2>3, <2>4, <2>5 DEF Beside
<1>3. ASSUME NEW op, Taken(op)
      PROVE  Counted'
  <2>1. Doing(op) /\ at' = at + 1
    BY <1>3 DEF Taken
  <2>2. CASE feature # "while_polling"
    <3>1. CASE op = "exec"
      <4>1. Executes
        BY <1>3, <3>1 DEF Taken
      <4>. QED
        BY <1>1, <2>2, <4>1, Started DEF Counted
    <3>2. CASE op = "signal"
      <4>1. Signals
        BY <1>3, <3>2 DEF Taken
      <4>. QED
        BY <1>1, <2>2, <4>1, Signaled DEF Counted
    <3>3. CASE op \notin {"exec", "signal"}
      BY <1>1, <1>3, <2>2, <3>3 DEF Taken, Counted
    <3>. QED
      BY <3>1, <3>2, <3>3
  <2>3. CASE feature = "while_polling"
    <3>1. CASE op = "exec"
      <4>1. Executes /\ inbox' = inbox
        BY <1>3, <3>1 DEF Taken, Executes
      <4>2. at = 2 /\ inbox = <<>>
        BY <1>1, <2>1, <2>3, <3>1, PollingScript DEF SoFar, Begun, StartedAfter
      <4>. QED
        BY <1>1, <2>1, <2>3, <4>1, <4>2, Started DEF Counted
    <3>2. CASE op = "signal"
      <4>1. Signals /\ inbox' = Append(inbox, Now.arg) /\ wf.state # "closed"
        BY <1>3, <3>2 DEF Taken, Signals
      <4>2. wf'.count = wf.count /\ wf'.state = wf.state
        BY <4>1, Signaled
      <4>3. \/ at \in {3, 6, 12} /\ Now.arg = "add1"
            \/ at = 15 /\ Now.arg = "cancel"
        BY <1>1, <2>1, <2>3, <3>2, PollingScript
      <4>4. Len(inbox') = Len(inbox) + 1 /\ inbox'[Len(inbox) + 1] = Now.arg
            /\ \A i \in 1..Len(inbox) : inbox'[i] = inbox[i]
        BY <1>1, <4>1
      <4>5. Len(inbox) \in Nat /\ wf.count \in Nat /\ DOMAIN inbox' = 1..Len(inbox')
        BY <1>1, <4>1 DEF Workflow
      <4>6. Now.arg = "cancel" => Got("cancel")'
        BY <4>4, <4>5 DEF Got
      <4>. QED
        BY <1>1, <2>1, <2>3, <4>1, <4>2, <4>3, <4>4, <4>5, <4>6 DEF Counted
    <3>3. CASE op \notin {"exec", "signal"}
      <4>1. UNCHANGED <<wf, inbox>>
        BY <1>3, <3>3 DEF Taken
      <4>2. at \notin {3, 6, 12, 15} /\ at < 16
        BY <1>1, <2>1, <2>3, <3>3, PollingScript
      <4>. QED
        BY <1>1, <2>1, <2>3, <4>1, <4>2 DEF Counted
    <3>. QED
      BY <3>1, <3>2, <3>3
  <2>. QED
    BY <2>2, <2>3
<1>. QED
  BY <1>2, <1>3, Moves

LEMMA CountBounded == Typed /\ Counted => wf.count \in 0..3
<1>. SUFFICES ASSUME Typed, Counted PROVE wf.count \in 0..3
  OBVIOUS
<1>1. wf.count \in Nat
  BY DEF Typed, Workflow
<1>. QED
  BY <1>1 DEF Counted

\* The steps that decide the feature, which leave the workflow as it is.
LEMMA Decides ==
  ASSUME Next, result' # "none"
  PROVE  \/ ServerLacksIt \/ CallFails \/ SeesWrongAnswer \/ GivesUp
         \/ ChecksResult \/ ChecksHistory
<1>. SUFFICES ASSUME result = "none" PROVE ServerLacksIt \/ CallFails \/ SeesWrongAnswer
                                           \/ GivesUp \/ ChecksResult
  BY Decided
<1>2. CASE ServerActs
  BY <1>2 DEF ServerActs, Registers, Propagates, Enqueues
<1>3. CASE WorkersAct
  BY <1>3 DEF WorkersAct, TakesTask, TakesPart
<1>4. CASE TimesOut \/ SetsRule
  BY <1>4 DEF TimesOut, SetsRule
<1>5. CASE \/ StartsWorker \/ StopsWorker \/ StartsSecond \/ RuleIsSet
           \/ AddsBuildID \/ Executes \/ SeesRunning \/ Sleeps \/ Signals \/ SeesAnswer
           \/ SeesNoAnswer
  BY <1>5 DEF StartsWorker, StopsWorker, StartsSecond, RuleIsSet, AddsBuildID,
     Executes, SeesRunning, Sleeps, Signals, SeesAnswer, SeesNoAnswer, Steps, Goes
<1>6. CASE ChecksHistory
  BY <1>6 DEF ChecksHistory
<1>. QED
  BY <1>2, <1>3, <1>4, <1>5, <1>6 DEF Next, FeatureActs

LEMMA LastStep ==
  ASSUME Next, result' # "none"
  PROVE  UNCHANGED <<given, at, routing, wf, inbox>>
  BY Decides DEF ServerLacksIt, CallFails, SeesWrongAnswer, GivesUp, Fails, ChecksResult,
     ChecksHistory

\* A time-out that was too short is not forgotten.
LEMMA TimelyBefore ==
  ASSUME [Next]_vars, timely'
  PROVE  timely
<1>1. CASE ServerActs
  BY <1>1 DEF ServerActs, Registers, Propagates, Enqueues
<1>2. CASE WorkersAct
  BY <1>2 DEF WorkersAct, TakesTask, TakesPart
<1>3. CASE Sleeps \/ SeesNoAnswer \/ GivesUp \/ TimesOut
  BY <1>3 DEF Sleeps, SeesNoAnswer, GivesUp, TimesOut, Expires
<1>4. CASE \/ StartsWorker \/ StopsWorker \/ StartsSecond \/ SetsRule \/ RuleIsSet
           \/ AddsBuildID \/ Executes \/ SeesRunning \/ Signals \/ SeesAnswer
  BY <1>4 DEF StartsWorker, StopsWorker, StartsSecond, SetsRule, RuleIsSet,
     AddsBuildID, Executes, SeesRunning, Signals, SeesAnswer, Steps
<1>5. CASE \/ SeesWrongAnswer \/ ChecksResult \/ ChecksHistory \/ ServerLacksIt
           \/ CallFails \/ UNCHANGED vars
  BY <1>5 DEF SeesWrongAnswer, ChecksResult, ChecksHistory, ServerLacksIt, CallFails, vars
<1>. QED
  BY <1>1, <1>2, <1>3, <1>4, <1>5 DEF Next, FeatureActs

\* A feature passes, or is about to, only with the result it expects.
Judged ==
  result \in {"right", "pass"} =>
    /\ at = Len(Script(feature)) /\ wf.state = "closed"
    /\ wf.by \in Expected(feature)

LEMMA JudgedKept ==
  ASSUME Judged, Next
  PROVE  Judged'
<1>. SUFFICES ASSUME result' \in {"right", "pass"} PROVE Judged'
  BY DEF Judged
<1>1. ChecksResult \/ ChecksHistory
  BY Decides DEF ServerLacksIt, CallFails, SeesWrongAnswer, GivesUp, Fails
<1>2. /\ at = Len(Script(feature)) /\ wf.state = "closed"
      /\ wf.by \in Expected(feature)
  BY <1>1 DEF ChecksResult, ChecksHistory, Fails, Judged
<1>3. UNCHANGED <<feature, at, wf>>
  BY LastStep DEF given
<1>. QED
  BY <1>2, <1>3 DEF Judged

\* The invariant behind the properties of every server.
Inv ==
  /\ Typed /\ Counted /\ Judged
  /\ result = "none" => SoFar

LEMMA InvInit == Init => Inv
<1>. SUFFICES ASSUME Init PROVE Inv
  OBVIOUS
<1>1. Counted /\ Judged
  BY DEF Init, Counted, NoWorkflow, Judged
<1>. QED
  BY <1>1, TypedInit, SoFarInit DEF Inv

LEMMA InvStep ==
  ASSUME Inv, [Next]_vars
  PROVE  Inv'
<1>1. Typed'
  BY TypedStep DEF Inv
<1>2. CASE UNCHANGED vars
  BY <1>1, <1>2 DEF vars, given, workers, routing, Inv, Counted, Got, SoFar,
     Begun, Pollers, SetsAdded, Judged
<1>3. CASE Next /\ result' = "none"
  <2>1. result = "none"
    BY <1>3, Moves
  <2>. QED
    BY <1>1, <1>3, <2>1, SoFarKept, CountedKept, JudgedKept DEF Inv
<1>4. CASE Next /\ result' # "none"
  <2>1. Judged'
    BY <1>4, JudgedKept DEF Inv
  <2>. QED
    BY <1>1, <1>4, <2>1, LastStep DEF Inv, Counted, Got, given
<1>. QED
  BY <1>2, <1>3, <1>4

\* Types of the state, the count of the workflow of AddedWhilePolling included:
\* the three signals are counted once each.
THEOREM TypesHold == Spec => []TypeOK
<1>1. Inv => TypeOK
  <2>. SUFFICES ASSUME Inv PROVE TypeOK
    OBVIOUS
  <2>1. wf.count \in 0..3
    BY CountBounded DEF Inv
  <2>2. at \in 0..Len(Script(feature))
    BY FeatureKnown, Arguments DEF Inv, Typed
  <2>3. \A n \in DOMAIN sets : \A i \in DOMAIN sets[n] : sets[n][i] \in Workers
    BY DEF Inv, Typed
  <2>4. /\ wf.state \in {"none", "started", "open", "closed"}
        /\ wf.by \in Workers \cup {"none", "failed", "timeout"}
        /\ wf.set \in 0..Len(sets) /\ wf.part \in 0..4
    BY DEF Inv, Typed, Workflow
  <2>. QED
    BY <2>1, <2>2, <2>3, <2>4 DEF Inv, Typed, TypeOK, Rules
<1>. QED
  BY <1>1, InvInit, InvStep, PTL DEF Spec

-----------------------------------------------------------------------------
(***************************************************************************)
(* What a task makes of the workflow, by what it was sent.                 *)
(***************************************************************************)
\* The workflow is closed by worker w, or is open with only its task gone.
Shut(x, w) ==
  /\ x.state = "closed" /\ x.by = w /\ x.pin = wf.pin /\ x.set = wf.set
  /\ x.part = wf.part /\ ~ x.task

Stays(x) ==
  /\ x.state = "open" /\ x.by = wf.by /\ x.set = wf.set
  /\ x.part = wf.part /\ ~ x.task
  /\ feature # "pinned" => x.pin = wf.pin

LEMMA GotAny ==
  /\ inbox = <<>> => \A what : ~ Got(what)
  /\ \A s : inbox = <<s>> => \A what : Got(what) <=> what = s
<1>1. ASSUME inbox = <<>>
      PROVE  \A what : ~ Got(what)
  BY <1>1 DEF Got
<1>2. ASSUME NEW s, inbox = <<s>>
      PROVE  \A what : Got(what) <=> what = s
  <2>1. DOMAIN inbox = {1} /\ inbox[1] = s
    BY <1>2
  <2>. QED
    BY <2>1 DEF Got
<1>. QED
  BY <1>1, <1>2

LEMMA RanBy ==
  ASSUME Typed, NEW w \in Workers, wf.state = "open"
  PROVE  /\ Ran(w).by \in {wf.by, w}
         /\ feature # "activity_and_child" => Ran(w).part = wf.part
         /\ inbox = <<>> /\ feature = "worker_no_task" => Shut(Ran(w), w)
         /\ inbox = <<>> /\ feature # "worker_no_task" => Stays(Ran(w))
         /\ \A s : inbox = <<s>> /\ feature \notin {"worker_no_task", "while_polling"} =>
              /\ s \in {"end", "cancel"} => Shut(Ran(w), w)
              /\ s = "go" /\ feature # "activity_and_child" => Shut(Ran(w), w)
              /\ s = "go" /\ feature = "activity_and_child" =>
                   /\ Ran(w).state = "open" /\ Ran(w).part = 1 /\ ~ Ran(w).task
                   /\ Ran(w).set = wf.set /\ Ran(w).by = wf.by
              /\ s = "same" /\ feature = "continues_as_new" =>
                   /\ Ran(w).state = "open" /\ Ran(w).part = wf.part /\ Ran(w).task
                   /\ Ran(w).set = wf.set /\ Ran(w).by = wf.by
              /\ s = "default" /\ feature = "continues_as_new" =>
                   /\ Ran(w).state = "open" /\ Ran(w).part = wf.part /\ Ran(w).task
                   /\ Ran(w).set = Len(sets) /\ Ran(w).by = wf.by
         /\ feature = "while_polling"
              /\ (\A i \in 1..Len(inbox) : inbox[i] \in {"add1", "cancel"}) =>
              IF Got("cancel") THEN Shut(Ran(w), w) ELSE Stays(Ran(w))
<1>1. /\ wf \in Workflow /\ Len(inbox) \in Nat /\ Len(sets) \in Nat
      /\ DOMAIN inbox = 1..Len(inbox)
  BY DEF Typed
<1>. DEFINE began == IF wf.began = "none" THEN w ELSE wf.began
            rest == [wf EXCEPT !.task = FALSE, !.began = began,
                       !.pin = IF PinsOnStart(feature) /\ w = "1.0" /\ ~ Attached
                               THEN w ELSE @]
            shut == [Closed(w) EXCEPT !.began = began]
<1>2. rest \in Workflow /\ Stays(rest)
  BY <1>1 DEF Workflow, Stays, PinsOnStart
<1>3. shut \in Workflow /\ Shut(shut, w)
  BY <1>1 DEF Closed, Workflow, Shut
<1>. HIDE DEF began, rest, shut
<1>4. LET x == [rest EXCEPT !.part = 1]
      IN  /\ x.state = "open" /\ x.part = 1 /\ ~ x.task /\ x.set = wf.set /\ x.by = wf.by
  BY <1>2 DEF Workflow, Stays
<1>5. LET x == [rest EXCEPT !.count = @ + Len(inbox)]
      IN  Stays(x) /\ x.part = wf.part /\ x.by = wf.by
  BY <1>2 DEF Workflow, Stays
<1>6. LET x == [rest EXCEPT !.task = TRUE]
      IN  /\ x.state = "open" /\ x.part = wf.part /\ x.task /\ x.set = wf.set /\ x.by = wf.by
  BY <1>2 DEF Workflow, Stays
<1>7. LET x == [rest EXCEPT !.task = TRUE, !.set = Len(sets)]
      IN  /\ x.state = "open" /\ x.part = wf.part /\ x.task /\ x.set = Len(sets)
          /\ x.by = wf.by
  <2>1. rest.state = "open" /\ rest.by = wf.by /\ rest.part = wf.part
    BY <1>2 DEF Stays
  <2>. QED
    BY <1>1, <1>2, <2>1, BoundTo
<1>8. /\ Ran(w).by \in {wf.by, w}
      /\ feature # "activity_and_child" => Ran(w).part = wf.part
  <2>1. \/ Ran(w) = shut
        \/ Ran(w) = [rest EXCEPT !.part = 1] /\ feature = "activity_and_child"
        \/ Ran(w) = [rest EXCEPT !.count = @ + Len(inbox)]
        \/ Ran(w) = [rest EXCEPT !.task = TRUE]
        \/ Ran(w) = [rest EXCEPT !.task = TRUE, !.set = Len(sets)]
        \/ Ran(w) = rest
    BY DEF Ran, rest, began, shut
  <2>. DEFINE Good(x) == /\ x.by \in {wf.by, w}
                         /\ feature # "activity_and_child" => x.part = wf.part
  <2>2. Good(shut) /\ Good(rest)
    BY <1>2, <1>3 DEF Shut, Stays
  <2>3. feature = "activity_and_child" => Good([rest EXCEPT !.part = 1])
    BY <1>4
  <2>4. Good([rest EXCEPT !.count = @ + Len(inbox)])
    BY <1>5
  <2>5. Good([rest EXCEPT !.task = TRUE])
    BY <1>6
  <2>6. Good([rest EXCEPT !.task = TRUE, !.set = Len(sets)])
    BY <1>7
  <2>7. Good(Ran(w))
    <3>. HIDE DEF Good
    <3>. QED
      BY <2>1, <2>2, <2>3, <2>4, <2>5, <2>6
  <2>. QED
    BY <2>7
<1>9. ASSUME inbox = <<>>
      PROVE  IF feature = "worker_no_task" THEN Shut(Ran(w), w) ELSE Stays(Ran(w))
  <2>1. ~ Got("end") /\ ~ Got("cancel") /\ ~ Got("go") /\ ~ Got("same") /\ ~ Got("default")
    BY <1>9, GotAny
  <2>2. CASE feature = "worker_no_task"
    <3>1. Ran(w) = shut
      BY <2>1, <2>2 DEF Ran, shut, began
    <3>. QED
      BY <1>3, <2>2, <3>1
  <2>3. CASE feature = "while_polling"
    <3>1. Ran(w) = [rest EXCEPT !.count = @ + Len(inbox)]
      BY <2>1, <2>3 DEF Ran, rest, began
    <3>. QED
      BY <1>5, <2>3, <3>1
  <2>4. CASE feature \notin {"worker_no_task", "while_polling"}
    <3>1. Ran(w) = rest
      BY <2>1, <2>4 DEF Ran, rest, began
    <3>. QED
      BY <1>2, <2>4, <3>1
  <2>. QED
    BY <2>2, <2>3, <2>4
<1>10. ASSUME NEW s, inbox = <<s>>, feature \notin {"worker_no_task", "while_polling"}
       PROVE  /\ s \in {"end", "cancel"} => Ran(w) = shut
              /\ s = "go" /\ feature # "activity_and_child" => Ran(w) = shut
              /\ s = "go" /\ feature = "activity_and_child" => Ran(w) = [rest EXCEPT !.part = 1]
              /\ s = "same" /\ feature = "continues_as_new" =>
                   Ran(w) = [rest EXCEPT !.task = TRUE]
              /\ s = "default" /\ feature = "continues_as_new" =>
                   Ran(w) = [rest EXCEPT !.task = TRUE, !.set = Len(sets)]
  <2>1. \A what : Got(what) <=> what = s
    BY <1>10, GotAny
  <2>2. CASE s \in {"end", "cancel"}
    BY <1>10, <2>1, <2>2 DEF Ran, shut, began
  <2>3. CASE s = "go"
    BY <1>10, <2>1, <2>3 DEF Ran, shut, began, rest
  <2>4. CASE s = "same"
    BY <1>10, <2>1, <2>4 DEF Ran, began, rest
  <2>5. CASE s = "default"
    BY <1>10, <2>1, <2>5 DEF Ran, began, rest
  <2>. QED
    BY <2>2, <2>3, <2>4, <2>5
<1>11. ASSUME feature = "while_polling",
              \A i \in 1..Len(inbox) : inbox[i] \in {"add1", "cancel"}
       PROVE  IF Got("cancel") THEN Shut(Ran(w), w) ELSE Stays(Ran(w))
  <2>1. ~ Got("end") /\ ~ Got("go") /\ ~ Got("same") /\ ~ Got("default")
    BY <1>1, <1>11 DEF Got
  <2>2. CASE Got("cancel")
    <3>1. Ran(w) = shut
      BY <1>11, <2>1, <2>2 DEF Ran, began, shut
    <3>. QED
      BY <1>3, <2>2, <3>1
  <2>3. CASE ~ Got("cancel")
    <3>1. Ran(w) = [rest EXCEPT !.count = @ + Len(inbox)]
      BY <1>11, <2>1, <2>3 DEF Ran, began, rest
    <3>. QED
      BY <1>5, <2>3, <3>1
  <2>. QED
    BY <2>2, <2>3
<1>. QED
  BY <1>3, <1>4, <1>6, <1>7, <1>8, <1>9, <1>10, <1>11

-----------------------------------------------------------------------------
(***************************************************************************)
(* What a server at fault cannot hide.                                     *)
(***************************************************************************)
\* A workflow that an earlier feature left open is closed by the second worker
\* of that feature, or by its time-out: no other worker is alive that knows it.
Foreign ==
  /\ feature # "activity_and_child" => wf.part = 0
  /\ leftover # "none" => wf.by \in {"none", "2.0", "timeout"}

LEMMA ForeignKept ==
  ASSUME Typed, Foreign, [Next]_vars
  PROVE  Foreign'
<1>1. CASE UNCHANGED vars
  BY <1>1 DEF vars, given, Foreign
<1>2. CASE Next /\ result' # "none"
  BY <1>2, LastStep DEF given, Foreign
<1>3. CASE Next /\ result' = "none"
  <2>1. UNCHANGED given
    BY <1>3, Moves
  <2>2. CASE Beside /\ UNCHANGED <<at, workers, sets>>
    <3>1. CASE (Registers \/ Propagates \/ SetsRule) /\ UNCHANGED <<wf, inbox>>
      BY <2>1, <3>1 DEF Foreign, given
    <3>2. CASE Enqueues
      BY <2>1, <3>2, Opened DEF Foreign, given
    <3>3. CASE TimesOut
      BY <2>1, <3>3, ClosedBy DEF Foreign, given, TimesOut
    <3>4. ASSUME NEW w \in Workers, TakesTask(w)
          PROVE  Foreign'
      <4>1. wf' = Ran(w) /\ wf.state = "open" /\ w \in Takers
        BY <3>4 DEF TakesTask
      <4>2. leftover # "none" => w = "2.0"
        BY <4>1 DEF Takers, Attached, OrphanVersions
      <4>3. /\ Ran(w).by \in {wf.by, w}
            /\ feature # "activity_and_child" => Ran(w).part = wf.part
        BY <4>1, RanBy
      <4>4. leftover # "none" => wf'.by \in {"none", "2.0", "timeout"}
        BY <4>1, <4>2, <4>3 DEF Foreign
      <4>. QED
        BY <2>1, <4>1, <4>3, <4>4 DEF Foreign, given
    <3>5. ASSUME NEW w \in Workers, TakesPart(w)
          PROVE  Foreign'
      <4>1. wf.part > 0
        BY <3>5 DEF TakesPart
      <4>2. feature = "activity_and_child"
        BY <4>1 DEF Foreign
      <4>3. leftover = "none"
        BY <4>2 DEF Typed, Deployments
      <4>. QED
        BY <2>1, <4>2, <4>3 DEF Foreign, given
    <3>. QED
      BY <2>2, <3>1, <3>2, <3>3, <3>4, <3>5 DEF Beside
  <2>3. ASSUME NEW op, Taken(op)
        PROVE  Foreign'
    <3>1. \/ Executes \/ Signals \/ UNCHANGED wf
      BY <2>3 DEF Taken
    <3>2. CASE Executes
      BY <2>1, <3>2, Started DEF Foreign, given
    <3>3. CASE Signals
      BY <2>1, <3>3, Signaled DEF Foreign, given
    <3>4. CASE UNCHANGED wf
      BY <2>1, <3>4 DEF Foreign, given
    <3>. QED
      BY <3>1, <3>2, <3>3, <3>4
  <2>. QED
    BY <1>3, <2>2, <2>3, Moves
<1>. QED
  BY <1>1, <1>2, <1>3

\* A feature that expects the answer of version 1.0 does not pass on the
\* workflow of another: such a workflow is never closed by version 1.0.
THEOREM PassesOnItsOwn == Spec => []PassIsItsOwn
<1>1. Init => Foreign
  BY DEF Init, Foreign, NoWorkflow
<1>2. Inv /\ Foreign /\ [Next]_vars => Foreign'
  BY ForeignKept DEF Inv
<1>3. Inv /\ Foreign => PassIsItsOwn
  BY DEF Inv, Judged, Foreign, PassIsItsOwn
<1>. QED
  BY <1>1, <1>2, <1>3, InvInit, InvStep, PTL DEF Spec

\* When the time-out is long enough, a step that must not be answered is only
\* done when no worker that polls is served: then a version that polls and is
\* served astray is not there.
LEMMA SilenceTells ==
  ASSUME Typed, SoFar, SeesNoAnswer, timely', Doing("silent"), feature \in BuildIds,
         Now.arg \in Handlers(feature), at > StartedAfter(feature)
  PROVE  Polling \cap astray = {}
<1>1. Answers(Now.arg) = {} /\ Quiet
  <2>1. NoAnswer /\ Quiet
    BY DEF SeesNoAnswer, Expires
  <2>2. Doing("never") => FALSE
    BY DEF Doing
  <2>. QED
    BY <2>1, <2>2 DEF NoAnswer
<1>2. leftover = "none"
  BY DEF Typed, Deployments, BuildIds
<1>3. Polling \cap astray \subseteq Takers
  BY <1>2 DEF Takers, Attached, Served
<1>4. wf.state \in {"open", "closed"}
  <2>1. wf.state # "started" /\ wf.state # "none"
    BY <1>1 DEF Quiet, SoFar, Begun, Typed, StartedAfter
  <2>. QED
    BY <2>1 DEF Typed, Workflow
<1>5. CASE wf.task
  BY <1>1, <1>3, <1>5 DEF Quiet, Typed
<1>6. CASE ~ wf.task
  <2>1. Answers(Now.arg) = Takers \/ Answers(Now.arg) = {wf.count : w \in Takers}
          \/ Answers(Now.arg) = {"true" : w \in Takers}
    BY <1>4, <1>6 DEF Answers
  <2>. QED
    BY <1>1, <1>3, <2>1
<1>. QED
  BY <1>5, <1>6

\* The versions that must get nothing have been seen to get nothing.
Cleared ==
  timely =>
    /\ feature = "appropriate_worker" /\ at >= 10 => "2.0" \notin astray
    /\ feature = "appropriate_worker" /\ at >= 13 => "1.0" \notin astray
    /\ feature = "worker_no_task" /\ at >= 5 => "unversioned" \notin astray

LEMMA ClearedWithin ==
  ASSUME Typed, SoFar, Cleared, Next, result' = "none", timely, timely'
  PROVE  Cleared'
<1>1. feature \in Known /\ at \in Nat /\ UNCHANGED given
  BY FeatureKnown, Moves DEF Typed
<1>2. CASE at' = at
  BY <1>1, <1>2 DEF Cleared, given
<1>3. ASSUME NEW op, Taken(op)
      PROVE  Cleared'
  <2>1. Doing(op) /\ at' = at + 1 /\ (op \in {"silent", "never"} => SeesNoAnswer)
    BY <1>3 DEF Taken
  <2>2. CASE feature = "appropriate_worker"
    <3>1. at = 9 => "2.0" \notin astray
      <4>. SUFFICES ASSUME at = 9 PROVE "2.0" \notin astray
        OBVIOUS
      <4>1. op = "silent" /\ Now.arg = "waiting"
        BY <1>1, <2>1, <2>2, AppropriateScript
      <4>2. Polling \cap astray = {}
        BY <2>1, <2>2, <4>1, SilenceTells DEF BuildIds, Handlers, StartedAfter
      <4>3. "2.0" \in Polling
        BY <2>2 DEF SoFar, Pollers, Polling
      <4>. QED
        BY <4>2, <4>3
    <3>2. at = 12 => "1.0" \notin astray
      <4>. SUFFICES ASSUME at = 12 PROVE "1.0" \notin astray
        OBVIOUS
      <4>1. op = "silent" /\ Now.arg = "waiting"
        BY <1>1, <2>1, <2>2, AppropriateScript
      <4>2. Polling \cap astray = {}
        BY <2>1, <2>2, <4>1, SilenceTells DEF BuildIds, Handlers, StartedAfter
      <4>3. "1.0" \in Polling
        BY <2>2 DEF SoFar, Pollers, Polling
      <4>. QED
        BY <4>2, <4>3
    <3>. QED
      BY <1>1, <2>1, <2>2, <3>1, <3>2 DEF Cleared, given
  <2>3. CASE feature = "worker_no_task"
    <3>1. at = 4 => "unversioned" \notin astray
      <4>. SUFFICES ASSUME at = 4 PROVE "unversioned" \notin astray
        OBVIOUS
      <4>1. op = "silent" /\ Now.arg = "__stack_trace"
        BY <1>1, <2>1, <2>3, NoTaskScript
      <4>2. Polling \cap astray = {}
        BY <2>1, <2>3, <4>1, SilenceTells DEF BuildIds, Handlers, StartedAfter
      <4>3. "unversioned" \in Polling
        BY <2>3 DEF SoFar, Pollers, Polling
      <4>. QED
        BY <4>2, <4>3
    <3>. QED
      BY <1>1, <2>1, <2>3, <3>1 DEF Cleared, given
  <2>. QED
    BY <1>1, <2>2, <2>3 DEF Cleared, given
<1>. QED
  BY <1>2, <1>3, Moves

LEMMA ClearedKept ==
  ASSUME Inv, Cleared, [Next]_vars
  PROVE  Cleared'
<1>. SUFFICES ASSUME timely' PROVE Cleared'
  BY DEF Cleared
<1>1. timely
  BY TimelyBefore
<1>2. CASE UNCHANGED vars
  BY <1>2 DEF vars, given, Cleared
<1>3. CASE Next /\ result' = "none"
  <2>1. Typed /\ SoFar
    BY <1>3, Moves DEF Inv
  <2>. QED
    BY <1>1, <1>3, <2>1, ClearedWithin
<1>4. CASE Next /\ result' # "none"
  BY <1>1, <1>4, LastStep DEF given, Cleared
<1>. QED
  BY <1>2, <1>3, <1>4

\* only_appropriate_worker_gets_task and unversioned_worker_no_task do not pass
\* under a server that gives tasks to the versions they start as bystanders,
\* unless a time-out was too short.
THEOREM MisroutingIsSeen == Spec => []MisroutingDetected
<1>1. Init => Cleared
  BY DEF Init, Cleared
<1>2. Inv /\ Cleared /\ [Next]_vars => Cleared'
  BY ClearedKept
<1>3. Inv /\ Cleared => MisroutingDetected
  <2>. SUFFICES ASSUME Inv, Cleared, result = "pass", timely
                PROVE  astray \cap Bystanders(feature) = {}
    BY DEF MisroutingDetected
  <2>1. at = Len(Script(feature)) /\ at \in Nat
    BY DEF Inv, Judged, Typed
  <2>2. feature = "appropriate_worker" => at = 15
    BY <2>1, AppropriateScript
  <2>3. feature = "worker_no_task" => at = 6
    BY <2>1, NoTaskScript
  <2>. QED
    BY <2>1, <2>2, <2>3 DEF Cleared, Bystanders
<1>. QED
  BY <1>1, <1>2, <1>3, InvInit, InvStep, PTL DEF Spec

-----------------------------------------------------------------------------
(***************************************************************************)
(* A server that withholds the tasks from the worker they are meant for    *)
(* gives them to nobody but the versions it serves astray, and a feature   *)
(* gets on only by those.                                                  *)
(***************************************************************************)
Withholding == ~ faithful /\ leftover = "none"

OnlyAstray ==
  Withholding =>
    /\ wf.by \in Workers => wf.by \in astray
    /\ feature = "appropriate_worker" /\ at > 5 => "2.1" \in astray
    /\ feature = "while_polling" =>
         /\ at > 4 => "1.0" \in astray
         /\ at > 10 => "1.1" \in astray
         /\ wf.by \in Workers => wf.by = "1.2"
    /\ feature = "continues_as_new" =>
         /\ at > 5 => "1.0" \in astray
         /\ at > 9 => "2.0" \in astray
    /\ feature = "activity_and_child" =>
         /\ at <= 5 => inbox = <<>>
         /\ inbox \in {<<>>, <<"go">>}
         /\ wf.part > 1 => "1.0" \in astray
         /\ wf.by \in Workers => wf.by = "2.0" /\ "1.0" \in astray
    /\ feature = "worker_no_task" /\ wf.by \in Workers => wf.by \in {"unversioned", "2.1"}
    /\ feature = "unversioned_task" /\ wf.by \in Workers => wf.by = "unversioned"

LEMMA ServedAstray ==
  ASSUME Withholding
  PROVE  /\ \A v : Served(v) \subseteq Polling \cap astray
         /\ Takers \subseteq Polling \cap astray
  BY DEF Withholding, Served, Takers, Attached

\* An answer that a feature waits for is given by a worker served astray, and
\* a workflow that tells its worker names that one.
LEMMA AnswerTells ==
  ASSUME Withholding, SeesAnswer
  PROVE  /\ Polling \cap astray # {}
         /\ Now.arg = "runningOn" => Now.val \in astray
<1>1. Now.val \in Answers(Now.arg)
  BY DEF SeesAnswer
<1>2. IF Now.arg = "runningOn" THEN Answers(Now.arg) \subseteq Takers
      ELSE Answers(Now.arg) = {} \/ Answers(Now.arg) = {wf.count : w \in Takers}
             \/ Answers(Now.arg) = {"true" : w \in Takers}
  BY DEF Answers
<1>3. Takers # {} /\ (Now.arg = "runningOn" => Now.val \in Takers)
  BY <1>1, <1>2
<1>. QED
  BY <1>3, ServedAstray

\* A step of the script.
LEMMA AstrayStep ==
  ASSUME Inv, SoFar, OnlyAstray, Withholding, UNCHANGED given, NEW op, Taken(op)
  PROVE  OnlyAstray'
<1>1. /\ Typed /\ feature \in Known /\ at \in Nat /\ wf \in Workflow
      /\ feature' = feature /\ astray' = astray
  BY FeatureKnown DEF Inv, Typed, given
<1>2. /\ Doing(op) /\ at' = at + 1
      /\ op = "until" => SeesAnswer
      /\ op = "exec" => Executes
      /\ op = "signal" => Signals
      /\ op \notin {"exec", "signal"} => UNCHANGED <<wf, inbox>>
  BY DEF Taken
<1>3. (wf'.by = wf.by \/ wf'.by = "none") /\ (wf'.part = wf.part \/ wf'.part = 0)
  BY <1>1, <1>2, Started, Signaled
<1>4. wf'.by \in Workers => wf.by \in Workers /\ wf'.by = wf.by
  BY <1>3 DEF Workers
<1>5. feature = "appropriate_worker" /\ at' > 5 => "2.1" \in astray
  <2>. SUFFICES ASSUME feature = "appropriate_worker", at = 5 PROVE "2.1" \in astray
    BY <1>1, <1>2 DEF OnlyAstray
  <2>1. SeesAnswer /\ Polling = {"2.1"}
    BY <1>1, <1>2, AppropriateScript DEF SoFar, Pollers, Polling
  <2>. QED
    BY <2>1, AnswerTells
<1>6. feature = "while_polling" =>
        (at' > 4 => "1.0" \in astray) /\ (at' > 10 => "1.1" \in astray)
  <2>1. ASSUME feature = "while_polling", at = 4 PROVE "1.0" \in astray
    <3>1. SeesAnswer /\ Polling = {"1.0"}
      BY <1>1, <1>2, <2>1, PollingScript DEF SoFar, Pollers, Polling
    <3>. QED
      BY <3>1, AnswerTells
  <2>2. ASSUME feature = "while_polling", at = 10 PROVE "1.1" \in astray
    <3>1. SeesAnswer /\ Polling = {"1.1"}
      BY <1>1, <1>2, <2>2, PollingScript DEF SoFar, Pollers, Polling
    <3>. QED
      BY <3>1, AnswerTells
  <2>. QED
    BY <1>1, <1>2, <2>1, <2>2 DEF OnlyAstray
<1>7. feature = "continues_as_new" =>
        (at' > 5 => "1.0" \in astray) /\ (at' > 9 => "2.0" \in astray)
  <2>1. ASSUME feature = "continues_as_new", at = 5 PROVE "1.0" \in astray
    <3>1. SeesAnswer /\ Now.arg = "runningOn" /\ Now.val = "1.0"
      BY <1>1, <1>2, <2>1, AsNewScript
    <3>. QED
      BY <3>1, AnswerTells
  <2>2. ASSUME feature = "continues_as_new", at = 9 PROVE "2.0" \in astray
    <3>1. SeesAnswer /\ Now.arg = "runningOn" /\ Now.val = "2.0"
      BY <1>1, <1>2, <2>2, AsNewScript
    <3>. QED
      BY <3>1, AnswerTells
  <2>. QED
    BY <1>1, <1>2, <2>1, <2>2 DEF OnlyAstray
<1>8. feature = "activity_and_child" =>
        (at' <= 5 => inbox' = <<>>) /\ inbox' \in {<<>>, <<"go">>}
  <2>. SUFFICES ASSUME feature = "activity_and_child"
                PROVE  (at' <= 5 => inbox' = <<>>) /\ inbox' \in {<<>>, <<"go">>}
    OBVIOUS
  <2>1. op = "signal" => at = 5 /\ Now.arg = "go"
    BY <1>1, <1>2, PartsScript
  <2>2. at <= 5 /\ inbox = <<>>
    BY <1>1, <1>2, PartsScript DEF OnlyAstray
  <2>3. CASE op = "signal"
    <3>1. inbox' = <<"go">>
      BY <1>2, <2>1, <2>2, <2>3 DEF Signals
    <3>. QED
      BY <1>2, <2>1, <2>3, <3>1
  <2>4. CASE op # "signal"
    BY <1>2, <2>2, <2>4 DEF Executes
  <2>. QED
    BY <2>3, <2>4
<1>9. feature = "activity_and_child" =>
        /\ wf'.part > 1 => "1.0" \in astray
        /\ wf'.by \in Workers => wf'.by = "2.0" /\ "1.0" \in astray
  BY <1>3, <1>4 DEF OnlyAstray
<1>10. wf'.by \in Workers =>
         /\ wf'.by \in astray
         /\ feature = "while_polling" => wf'.by = "1.2"
         /\ feature = "worker_no_task" => wf'.by \in {"unversioned", "2.1"}
         /\ feature = "unversioned_task" => wf'.by = "unversioned"
  BY <1>4 DEF OnlyAstray
<1>. QED
  BY <1>1, <1>5, <1>6, <1>7, <1>8, <1>9, <1>10 DEF OnlyAstray

\* A task of the workflow.
LEMMA AstrayTask ==
  ASSUME Inv, SoFar, OnlyAstray, Withholding, UNCHANGED given,
         NEW w \in Workers, TakesTask(w)
  PROVE  OnlyAstray'
<1>1. /\ Typed /\ feature \in Known /\ at \in Nat /\ at' = at /\ wf \in Workflow
      /\ feature' = feature /\ astray' = astray
  BY FeatureKnown DEF Inv, Typed, given, TakesTask
<1>2. /\ wf' = Ran(w) /\ inbox' = <<>> /\ wf.state = "open"
      /\ w \in Polling /\ w \in astray
  BY ServedAstray DEF TakesTask
<1>3. wf'.by \in {wf.by, w}
  BY <1>1, <1>2, RanBy
<1>4. feature = "while_polling" /\ wf'.by \in Workers => wf'.by = "1.2"
  <2>. SUFFICES ASSUME feature = "while_polling", wf'.by \in Workers
                PROVE  wf'.by = "1.2"
    OBVIOUS
  <2>1. \A i \in 1..Len(inbox) : inbox[i] \in {"add1", "cancel"}
    BY DEF Inv, Counted
  <2>2. CASE Got("cancel")
    <3>1. DOMAIN inbox = 1..Len(inbox)
      BY <1>1 DEF Typed
    <3>2. PICK i \in 1..Len(inbox) : inbox[i] = "cancel"
      BY <2>2, <3>1 DEF Got
    <3>3. at = 16
      BY <3>2 DEF Inv, Counted
    <3>4. Polling = {"1.2"}
      BY <3>3 DEF SoFar, Pollers, Polling
    <3>5. Shut(Ran(w), w)
      BY <1>1, <1>2, <2>1, <2>2, RanBy
    <3>. QED
      BY <1>2, <3>4, <3>5 DEF Shut
  <2>3. CASE ~ Got("cancel")
    <3>1. Stays(Ran(w))
      BY <1>1, <1>2, <2>1, <2>3, RanBy
    <3>. QED
      BY <1>2, <3>1 DEF Stays, OnlyAstray
  <2>. QED
    BY <2>2, <2>3
<1>5. feature = "activity_and_child" =>
        /\ wf'.part > 1 => wf.part > 1
        /\ wf'.by = wf.by
  <2>. SUFFICES ASSUME feature = "activity_and_child"
                PROVE  (wf'.part > 1 => wf.part > 1) /\ wf'.by = wf.by
    OBVIOUS
  <2>1. inbox = <<>> \/ inbox = <<"go">>
    BY DEF OnlyAstray
  <2>2. CASE inbox = <<>>
    <3>1. Stays(Ran(w))
      BY <1>1, <1>2, <2>2, RanBy
    <3>. QED
      BY <1>2, <3>1 DEF Stays
  <2>3. CASE inbox = <<"go">>
    <3>1. Ran(w).part = 1 /\ Ran(w).by = wf.by
      BY <1>1, <1>2, <2>3, RanBy
    <3>. QED
      BY <1>2, <3>1
  <2>. QED
    BY <2>1, <2>2, <2>3
<1>6. /\ feature = "worker_no_task" => w \in {"unversioned", "2.1"}
      /\ feature = "unversioned_task" => w = "unversioned"
  BY <1>2 DEF SoFar, Pollers, Polling
<1>. QED
  BY <1>1, <1>2, <1>3, <1>4, <1>5, <1>6 DEF OnlyAstray

\* An activity or a child.
LEMMA AstrayPart ==
  ASSUME Inv, OnlyAstray, Foreign, Withholding, UNCHANGED given,
         NEW w \in Workers, TakesPart(w)
  PROVE  OnlyAstray'
<1>1. /\ Typed /\ UNCHANGED <<at, inbox>> /\ feature' = feature /\ astray' = astray
      /\ wf \in Workflow /\ wf.part \in 1..4
  BY DEF Inv, Typed, Workflow, given, TakesPart
<1>2. feature = "activity_and_child"
  BY <1>1 DEF Foreign
<1>3. w \in astray
  BY ServedAstray DEF TakesPart
<1>4. wf' = IF w # Wanted(wf.part) THEN Closed("failed")
            ELSE IF wf.part = 4 THEN Closed(w) ELSE [wf EXCEPT !.part = @ + 1]
  BY DEF TakesPart
<1>5. CASE w # Wanted(wf.part)
  <2>1. wf'.by = "failed" /\ wf'.part = wf.part
    BY <1>1, <1>4, <1>5, ClosedBy
  <2>. QED
    BY <1>1, <1>2, <2>1 DEF OnlyAstray, Workers
<1>6. CASE w = Wanted(wf.part) /\ wf.part = 4
  <2>1. wf'.by = w /\ wf'.part = 4 /\ w = "2.0"
    BY <1>1, <1>4, <1>6, ClosedBy DEF Wanted
  <2>. QED
    BY <1>1, <1>2, <1>3, <1>6, <2>1 DEF OnlyAstray
<1>7. CASE w = Wanted(wf.part) /\ wf.part # 4
  <2>1. wf'.by = wf.by
    BY <1>1, <1>4, <1>7 DEF Workflow
  <2>2. wf.part > 1 \/ w = "1.0"
    BY <1>1, <1>7 DEF Wanted
  <2>. QED
    BY <1>1, <1>2, <1>3, <2>1, <2>2 DEF OnlyAstray
<1>. QED
  BY <1>5, <1>6, <1>7

LEMMA AstrayKept ==
  ASSUME Inv, Foreign, OnlyAstray, [Next]_vars
  PROVE  OnlyAstray'
<1>1. CASE UNCHANGED vars
  BY <1>1 DEF vars, given, OnlyAstray, Withholding
<1>2. CASE Next /\ result' # "none"
  BY <1>2, LastStep DEF given, OnlyAstray, Withholding
<1>3. CASE Next /\ result' = "none"
  <2>1. result = "none" /\ UNCHANGED given /\ Typed /\ SoFar
    BY <1>3, Moves DEF Inv
  <2>. SUFFICES ASSUME Withholding PROVE OnlyAstray'
    BY <2>1 DEF OnlyAstray, Withholding, given
  <2>2. CASE Beside /\ UNCHANGED <<at, workers, sets>>
    <3>1. CASE UNCHANGED <<wf, inbox>>
      BY <2>1, <2>2, <3>1 DEF OnlyAstray, Withholding, given
    <3>2. CASE Enqueues
      <4>1. wf'.by = wf.by /\ wf'.part = wf.part /\ inbox' = inbox
        BY <2>1, <3>2, Opened DEF Enqueues
      <4>. QED
        BY <2>1, <2>2, <4>1 DEF OnlyAstray, Withholding, given
    <3>3. CASE TimesOut
      <4>1. wf'.by = "timeout" /\ wf'.part = wf.part /\ inbox' = inbox
        BY <2>1, <3>3, ClosedBy DEF TimesOut
      <4>2. wf'.by \notin Workers
        BY <4>1 DEF Workers
      <4>. QED
        BY <2>1, <2>2, <4>1, <4>2 DEF OnlyAstray, Withholding, given
    <3>4. ASSUME NEW w \in Workers, TakesTask(w) \/ TakesPart(w)
          PROVE  OnlyAstray'
      BY <2>1, <3>4, AstrayTask, AstrayPart
    <3>. QED
      BY <2>2, <3>1, <3>2, <3>3, <3>4 DEF Beside
  <2>3. ASSUME NEW op, Taken(op)
        PROVE  OnlyAstray'
    BY <2>1, <2>3, AstrayStep
  <2>. QED
    BY <1>3, <2>2, <2>3, Moves
<1>. QED
  BY <1>1, <1>2, <1>3

\* No feature passes under a server that withholds the tasks from the worker
\* they are meant for, unless it gives them to each version that the feature
\* wants served by another fault, or a time-out was too short.
THEOREM WithholdingIsSeen == Spec => []WithholdingDetected
<1>. DEFINE Seen == Foreign /\ Cleared /\ OnlyAstray
<1>1. Init => Seen
  <2>. SUFFICES ASSUME Init PROVE Seen
    OBVIOUS
  <2>1. /\ at = 0 /\ inbox = <<>> /\ wf.part = 0 /\ wf.by = "none"
    BY DEF Init, NoWorkflow
  <2>2. wf.by \notin Workers
    BY <2>1 DEF Workers
  <2>. QED
    BY <2>1, <2>2 DEF Foreign, Cleared, OnlyAstray
<1>2. Inv /\ Seen /\ [Next]_vars => Seen'
  BY ForeignKept, ClearedKept, AstrayKept DEF Inv
<1>3. Inv /\ Seen => WithholdingDetected
  <2>. SUFFICES ASSUME Inv, Seen, result = "pass", timely, Withholding
                PROVE  Needed(feature) \subseteq astray
    BY DEF WithholdingDetected, Withholding
  <2>1. /\ feature \in Known /\ at = Len(Script(feature)) /\ at \in Nat
        /\ wf.by \in Expected(feature)
    BY FeatureKnown DEF Inv, Judged, Typed
  <2>2. wf.by \in Workers /\ wf.by \in astray
    BY <2>1 DEF Expected, Workers, OnlyAstray
  <2>3. /\ feature = "appropriate_worker" => at > 5
        /\ feature = "while_polling" => at > 4 /\ at > 10
        /\ feature = "worker_no_task" => at >= 5
        /\ feature = "continues_as_new" => at > 5 /\ at > 9
    <3>1. feature = "appropriate_worker" => at = 15
      BY <2>1, AppropriateScript
    <3>2. feature = "while_polling" => at = 16
      BY <2>1, PollingScript
    <3>3. feature = "worker_no_task" => at = 6
      BY <2>1, NoTaskScript
    <3>4. feature = "continues_as_new" => at = 11
      BY <2>1, AsNewScript
    <3>. QED
      BY <3>1, <3>2, <3>3, <3>4
  <2>4. CASE feature \in Deployments
    BY <2>1, <2>2, <2>4 DEF Deployments, Expected, Needed
  <2>5. CASE feature = "appropriate_worker"
    BY <2>3, <2>5 DEF OnlyAstray, Needed
  <2>6. CASE feature = "while_polling"
    BY <2>2, <2>3, <2>6 DEF OnlyAstray, Needed
  <2>7. CASE feature = "worker_no_task"
    BY <2>2, <2>3, <2>7 DEF OnlyAstray, Cleared, Needed
  <2>8. CASE feature = "unversioned_task"
    BY <2>2, <2>8 DEF OnlyAstray, Needed
  <2>9. CASE feature = "continues_as_new"
    BY <2>3, <2>9 DEF OnlyAstray, Needed
  <2>10. CASE feature = "activity_and_child"
    BY <2>2, <2>10 DEF OnlyAstray, Needed
  <2>. QED
    BY <2>1, <2>4, <2>5, <2>6, <2>7, <2>8, <2>9, <2>10 DEF Known, BuildIds
<1>. QED
  BY <1>1, <1>2, <1>3, InvInit, InvStep, PTL DEF Spec

-----------------------------------------------------------------------------
(***************************************************************************)
(* Under a server that is right, and when no time-out is too short, how    *)
(* far the script is tells what has become of the workflow: one invariant  *)
(* for each of the features.                                               *)
(***************************************************************************)
RightServer == astray = {} /\ faithful /\ reports /\ leftover = "none"

Undisturbed == Typed /\ SoFar /\ Counted /\ Foreign /\ RightServer

\* The workflow waits to be given sig, or has been closed by one of vs.
Awaits(sig) ==
  /\ wf.state \in {"started", "open"} /\ inbox = <<sig>>
  /\ wf.state = "open" => wf.task

Ended(vs) == wf.state = "closed" /\ wf.by \in vs

\* The version that newly started tasks of a set go to.
LEMMA Newest ==
  ASSUME SoFar, at \in Nat
  PROVE  /\ feature \in {"appropriate_worker", "worker_no_task"} /\ at >= 3 =>
              Len(sets) = 2 /\ NewestOf(2) = "2.1"
         /\ feature = "while_polling" /\ at >= 1 =>
              /\ Len(sets) = 1
              /\ NewestOf(1) = IF at <= 8 THEN "1.0" ELSE IF at <= 11 THEN "1.1" ELSE "1.2"
         /\ feature \in {"continues_as_new", "activity_and_child"} /\ at >= 1 =>
              /\ NewestOf(1) = "1.0"
              /\ at <= 4 => Len(sets) = 1
              /\ at >= 5 => Len(sets) = 2 /\ NewestOf(2) = "2.0"
<1>. USE DEF SoFar, SetsAdded, NewestOf
<1>1. CASE feature \in {"appropriate_worker", "worker_no_task"}
  BY <1>1
<1>2. CASE feature = "while_polling"
  BY <1>2
<1>3. CASE feature \in {"continues_as_new", "activity_and_child"}
  BY <1>3
<1>. QED
  BY <1>1, <1>2, <1>3

LEMMA RightlyServed ==
  ASSUME RightServer
  PROVE  /\ \A v : Served(v) = Polling \cap {v}
         /\ Takers = Polling \cap {Target}
         /\ Propagated => active = rules
         /\ TimesOut /\ timely' => wf.state = "open" /\ at = Len(Script(feature)) /\ Quiet
<1>1. ASSUME TimesOut, timely'
      PROVE  wf.state = "open" /\ at = Len(Script(feature)) /\ Quiet
  <2>1. Quiet /\ at = Len(Script(feature)) /\ wf.state \in {"started", "open"}
    BY <1>1 DEF TimesOut, Expires
  <2>. QED
    BY <2>1 DEF Quiet
<1>. QED
  BY <1>1 DEF RightServer, Served, Takers, Attached, Propagated

\* A workflow that is signalled when it has no signal, and its first task.
LEMMA SignalAwaits ==
  ASSUME Typed, Signals, inbox = <<>>, wf.state # "none", NEW CONSTANT s, Now.arg = s
  PROVE  Awaits(s)'
<1>1. wf.state \in {"started", "open"}
  BY DEF Signals, Typed, Workflow
<1>2. inbox' = <<s>>
  BY DEF Signals
<1>3. wf'.state = wf.state /\ (wf'.task <=> wf.task \/ wf.state = "open")
  BY Signaled
<1>. QED
  BY <1>1, <1>2, <1>3 DEF Awaits

\* A wait that nothing will end.
NoHope ==
  \/ Hopeless
  \/ Doing("until") /\ Quiet /\ Now.val \notin Answers(Now.arg)

\* The wait of SetCurrent or SetRamp ends when the server has done what it is
\* to do: the versions that are set are of workers that poll by then.
LEMMA SetMet ==
  ASSUME Typed, SoFar, Doing("set"), Quiet
  PROVE  IF rules[Now.arg] = Now.val THEN Propagated ELSE Now.val \in known
<1>1. feature \in Known /\ at \in Nat
  BY FeatureKnown DEF Typed
<1>2. feature \in Deployments /\ at # 0 /\ Now.val \in {"1.0", "2.0"}
  <2>1. CASE feature = "pinned"
    BY <1>1, <2>1, PinnedScript DEF Deployments
  <2>2. CASE feature = "auto_upgrade"
    BY <1>1, <2>2, AutoUpgradeScript DEF Deployments
  <2>3. CASE feature = "ramp"
    BY <1>1, <2>3, RampScript DEF Deployments
  <2>4. CASE feature = "override"
    BY <1>1, <2>4, OverrideScript DEF Deployments
  <2>5. CASE feature \in BuildIds
    BY <1>1, <2>5, AppropriateScript, PollingScript, NoTaskScript, UnversionedScript,
       AsNewScript, PartsScript DEF BuildIds
  <2>. QED
    BY <1>1, <2>1, <2>2, <2>3, <2>4, <2>5 DEF Known, Deployments
<1>3. first = "1.0" /\ second = "2.0"
  BY <1>2 DEF SoFar, Pollers
<1>4. Now.val \in known
  BY <1>2, <1>3 DEF Quiet, Polling
<1>5. Propagated
  BY DEF Quiet, Propagated
<1>. QED
  BY <1>4, <1>5

LEMMA FailsOnly ==
  ASSUME Typed, SoFar, Next, result' = "fail", timely'
  PROVE  \/ WrongAnswer \/ NoHope
         \/ /\ at = Len(Script(feature)) /\ wf.state = "closed"
            /\ wf.by \notin Expected(feature)
<1>1. \/ SeesWrongAnswer \/ GivesUp
      \/ ChecksResult /\ result' = "fail"
  BY Decides DEF ServerLacksIt, CallFails, Fails, ChecksHistory
<1>2. CASE GivesUp
  <2>1. Hopeless \/ (Unmet /\ Quiet)
    BY <1>2 DEF GivesUp, Expires
  <2>2. CASE Unmet /\ Quiet
    BY <2>2, SetMet DEF Unmet, NoHope
  <2>. QED
    BY <2>1, <2>2 DEF NoHope
<1>. QED
  BY <1>1, <1>2 DEF SeesWrongAnswer, ChecksResult

LEMMA Progress ==
  ASSUME Undisturbed
  PROVE  /\ Typed /\ SoFar /\ leftover = "none"
         /\ at \in Nat /\ at <= Len(Script(feature))
         /\ wf.state # "none" <=> at > StartedAfter(feature)
         /\ feature # "activity_and_child" => wf.part = 0
<1>1. Typed /\ SoFar /\ leftover = "none" /\ at \in Nat /\ at <= Len(Script(feature))
  BY DEF Undisturbed, Typed, RightServer
<1>2. StartedAfter(feature) \in Nat
  BY DEF StartedAfter
<1>. QED
  BY <1>1, <1>2 DEF Undisturbed, Foreign, SoFar, Begun

-----------------------------------------------------------------------------
(***************************************************************************)
(* routing_with_override: the workflow is pinned to the first worker.      *)
(***************************************************************************)
RoutedByOverride ==
  /\ wf.state # "none" => wf.pin = "1.0"
  /\ at <= 4 => wf.state # "closed" /\ inbox = <<>>
  /\ at = 5 => Ended({"1.0"}) \/ Awaits("go")

\* The task of a workflow that has been started goes to the first worker.
LEMMA OverrideServed ==
  ASSUME Undisturbed, feature = "override", RoutedByOverride, wf.state # "none"
  PROVE  Takers = {"1.0"}
<1>1. Target = "1.0"
  BY DEF Target, BuildIds, RoutedByOverride
<1>2. "1.0" \in Polling
  BY DEF Undisturbed, SoFar, Pollers, Deployments, Polling
<1>. QED
  BY <1>1, <1>2, RightlyServed DEF Undisturbed

LEMMA OverrideKept ==
  ASSUME Undisturbed, feature = "override", RoutedByOverride, Next, result' = "none",
         timely'
  PROVE  RoutedByOverride'
<1>1. /\ Typed /\ at \in Nat /\ at <= 5 /\ Len(Script(feature)) = 5 /\ wf.part = 0
  BY OverrideScript DEF Undisturbed, Typed, Foreign
<1>2. CASE Beside /\ UNCHANGED <<at, workers, sets>>
  <2>. USE DEF RoutedByOverride, Awaits, Ended
  <2>1. CASE UNCHANGED <<wf, inbox>>
    BY <1>2, <2>1
  <2>2. CASE Enqueues
    BY <1>1, <1>2, <2>2, Opened DEF Enqueues
  <2>3. ~ TimesOut
    <3>. SUFFICES ASSUME TimesOut PROVE FALSE
      OBVIOUS
    <3>1. wf.state = "open" /\ at = 5 /\ Quiet
      BY <1>1, RightlyServed DEF Undisturbed
    <3>2. wf.task
      BY <3>1
    <3>3. Takers # {}
      BY <3>1, OverrideServed
    <3>. QED
      BY <3>1, <3>2, <3>3 DEF Quiet
  <2>4. ASSUME NEW w \in Workers, TakesTask(w)
        PROVE  RoutedByOverride'
    <3>1. wf' = Ran(w) /\ inbox' = <<>> /\ wf.state = "open" /\ w = "1.0"
      BY <2>4, OverrideServed DEF TakesTask
    <3>2. CASE inbox = <<>>
      <4>1. Stays(Ran(w)) /\ at # 5
        BY <1>1, <3>1, <3>2, RanBy
      <4>. QED
        BY <1>1, <1>2, <3>1, <3>2, <4>1 DEF Stays
    <3>3. CASE inbox = <<"go">>
      <4>1. Shut(Ran(w), w)
        BY <1>1, <3>1, <3>3, RanBy
      <4>2. ~ (at <= 4)
        BY <3>3
      <4>. QED
        BY <1>2, <3>1, <4>1, <4>2 DEF Shut
    <3>4. inbox = <<>> \/ inbox = <<"go">>
      <4>1. at <= 4 \/ at = 5
        BY <1>1
      <4>. QED
        BY <3>1, <4>1
    <3>. QED
      BY <3>1, <3>2, <3>3, <3>4
  <2>5. ASSUME NEW w \in Workers
        PROVE  ~ TakesPart(w)
    BY <1>1 DEF TakesPart
  <2>. QED
    BY <1>2, <2>1, <2>2, <2>3, <2>4, <2>5 DEF Beside
<1>3. ASSUME NEW op, Taken(op)
      PROVE  RoutedByOverride'
  <2>1. /\ Doing(op) /\ at' = at + 1
        /\ op = "exec" => Executes
        /\ op = "signal" => Signals
        /\ op \notin {"exec", "signal"} => UNCHANGED <<wf, inbox>>
    BY <1>3 DEF Taken
  <2>2. CASE op = "exec"
    <3>1. at = 2 /\ Now.arg = "1.0" /\ leftover = "none"
      BY <1>1, <2>1, <2>2, OverrideScript DEF Undisturbed, RightServer
    <3>. QED
      BY <1>1, <2>1, <2>2, <3>1, Started DEF RoutedByOverride, Executes
  <2>3. CASE op = "signal"
    <3>1. at = 4 /\ Now.arg = "go" /\ wf.state # "none"
      BY <1>1, <2>1, <2>3, OverrideScript DEF Undisturbed, SoFar, Begun, StartedAfter
    <3>2. Awaits("go")'
      BY <1>1, <2>1, <2>3, <3>1, SignalAwaits DEF RoutedByOverride
    <3>. QED
      BY <1>1, <2>1, <2>3, <3>1, <3>2, Signaled DEF RoutedByOverride
  <2>4. CASE op \notin {"exec", "signal"}
    <3>1. at < 4
      BY <1>1, <2>1, <2>4, OverrideScript
    <3>. QED
      BY <1>1, <2>1, <2>4, <3>1 DEF RoutedByOverride
  <2>. QED
    BY <2>2, <2>3, <2>4
<1>. QED
  BY <1>2, <1>3, Moves

LEMMA OverridePasses ==
  ASSUME Undisturbed, feature = "override", RoutedByOverride, Next, timely'
  PROVE  result' # "fail"
<1>. SUFFICES ASSUME result' = "fail" PROVE FALSE
  OBVIOUS
<1>1. at \in Nat /\ Len(Script(feature)) = 5
  BY OverrideScript DEF Undisturbed, Typed
<1>2. ~ Doing("until") /\ ~ Doing("silent") /\ ~ Doing("never")
  BY <1>1, OverrideScript
<1>3. Doing("running") \/ Doing("signal") => at <= 4
  BY <1>1, OverrideScript
<1>4. at = 5 /\ wf.state = "closed" => wf.by \in Expected(feature)
  BY DEF RoutedByOverride, Awaits, Ended, Expected
<1>. QED
  BY <1>1, <1>2, <1>3, <1>4, FailsOnly DEF Undisturbed, WrongAnswer, NoHope, Hopeless, RoutedByOverride

-----------------------------------------------------------------------------
(***************************************************************************)
(* routing_auto_upgrade, routing_with_ramp: the second worker is to finish *)
(* the workflow, since the routing had propagated before it was told to.   *)
(***************************************************************************)
RoutedToSecond ==
  /\ wf.pin = "none"
  /\ feature = "auto_upgrade" => rules.ramp = "none" /\ active.ramp = "none"
  /\ at <= 5 => wf.state # "closed" /\ inbox = <<>>
  /\ at >= 5 =>
       active = rules /\ "2.0" = IF feature = "ramp" THEN rules.ramp ELSE rules.current
  /\ at = 6 => Ended({"2.0"}) \/ Awaits("go")

\* The steps of the two scripts, which differ in the rule they set.
LEMMA StartOnOneScript ==
  ASSUME feature \in {"ramp", "auto_upgrade"}, at \in Nat
  PROVE  /\ Len(Script(feature)) = 6
         /\ \A op : Doing(op) =>
              \/ at = 0 /\ op = "second"
              \/ at = 1 /\ op = "set" /\ Now.arg = "current" /\ Now.val = "1.0"
              \/ at = 2 /\ op = "exec" /\ Now.arg = "none"
              \/ at = 3 /\ op = "running"
              \/ /\ at = 4 /\ op = "set" /\ Now.val = "2.0"
                 /\ Now.arg = IF feature = "ramp" THEN "ramp" ELSE "current"
              \/ at = 5 /\ op = "signal" /\ Now.arg = "go"
  BY AutoUpgradeScript, RampScript

LEMMA SecondServed ==
  ASSUME Undisturbed, feature \in {"ramp", "auto_upgrade"}, RoutedToSecond, at >= 5
  PROVE  Takers = {"2.0"}
<1>1. Target = "2.0"
  BY DEF Target, BuildIds, RoutedToSecond
<1>2. "2.0" \in Polling
  BY DEF Undisturbed, SoFar, Typed, Pollers, Deployments, Polling
<1>. QED
  BY <1>1, <1>2, RightlyServed DEF Undisturbed

LEMMA SecondKept ==
  ASSUME Undisturbed, feature \in {"ramp", "auto_upgrade"}, RoutedToSecond, Next,
         result' = "none", timely'
  PROVE  RoutedToSecond'
<1>1. /\ Typed /\ at \in Nat /\ at <= 6 /\ Len(Script(feature)) = 6 /\ wf.part = 0
      /\ feature' = feature /\ rules \in Rules
  BY StartOnOneScript, Moves DEF Undisturbed, Typed, Foreign, given
<1>2. CASE Beside /\ UNCHANGED <<at, workers, sets>>
  <2>. USE DEF RoutedToSecond, Awaits, Ended
  <2>1. CASE (Registers \/ Propagates \/ SetsRule) /\ UNCHANGED <<wf, inbox>>
    <3>1. CASE Registers
      BY <1>1, <1>2, <2>1, <3>1 DEF Registers
    <3>2. CASE Propagates
      BY <1>1, <1>2, <2>1, <3>2 DEF Propagates
    <3>3. CASE SetsRule
      <4>1. Doing("set") /\ rules' = [rules EXCEPT ![Now.arg] = Now.val] /\ active' = active
        BY <3>3 DEF SetsRule
      <4>2. at < 5 /\ (Now.arg = "current" \/ feature = "ramp")
        BY <1>1, <4>1, StartOnOneScript
      <4>3. feature = "auto_upgrade" => rules'.ramp = rules.ramp
        BY <1>1, <4>1, <4>2 DEF Rules
      <4>. QED
        BY <1>1, <1>2, <2>1, <4>1, <4>2, <4>3
    <3>. QED
      BY <2>1, <3>1, <3>2, <3>3
  <2>2. CASE Enqueues
    <3>1. /\ wf.state = "started" /\ wf'.state = "open" /\ wf'.pin = wf.pin /\ wf'.task
          /\ UNCHANGED <<rules, active, inbox>>
      BY <1>1, <2>2, Opened DEF Enqueues, routing
    <3>. QED
      BY <1>1, <1>2, <3>1
  <2>3. ~ TimesOut
    <3>. SUFFICES ASSUME TimesOut PROVE FALSE
      OBVIOUS
    <3>1. wf.state = "open" /\ at = 6 /\ Quiet
      BY <1>1, RightlyServed DEF Undisturbed
    <3>2. wf.task
      BY <3>1
    <3>3. Takers # {}
      BY <3>1, SecondServed
    <3>. QED
      BY <3>1, <3>2, <3>3 DEF Quiet
  <2>4. ASSUME NEW w \in Workers, TakesTask(w)
        PROVE  RoutedToSecond'
    <3>1. /\ wf' = Ran(w) /\ inbox' = <<>> /\ wf.state = "open" /\ w \in Takers
          /\ UNCHANGED <<rules, active>>
      BY <2>4 DEF TakesTask, routing
    <3>2. CASE inbox = <<>>
      <4>1. Stays(Ran(w)) /\ at # 6
        BY <1>1, <3>1, <3>2, RanBy
      <4>. QED
        BY <1>1, <1>2, <3>1, <3>2, <4>1 DEF Stays
    <3>3. CASE inbox = <<"go">>
      <4>1. Shut(Ran(w), w)
        BY <1>1, <3>1, <3>3, RanBy
      <4>2. ~ (at <= 5)
        BY <3>3
      <4>3. w = "2.0"
        BY <1>1, <3>1, <4>2, SecondServed
      <4>. QED
        BY <1>1, <1>2, <3>1, <4>1, <4>2, <4>3 DEF Shut
    <3>4. inbox = <<>> \/ inbox = <<"go">>
      <4>1. at <= 5 \/ at = 6
        BY <1>1
      <4>. QED
        BY <3>1, <4>1
    <3>. QED
      BY <3>1, <3>2, <3>3, <3>4
  <2>5. ASSUME NEW w \in Workers
        PROVE  ~ TakesPart(w)
    BY <1>1 DEF TakesPart
  <2>. QED
    BY <1>2, <2>1, <2>2, <2>3, <2>4, <2>5 DEF Beside
<1>3. ASSUME NEW op, Taken(op)
      PROVE  RoutedToSecond'
  <2>1. /\ Doing(op) /\ at' = at + 1 /\ UNCHANGED <<rules, active>>
        /\ op = "exec" => Executes
        /\ op = "signal" => Signals
        /\ op = "set" => RuleIsSet
        /\ op \notin {"exec", "signal"} => UNCHANGED <<wf, inbox>>
    BY <1>3 DEF Taken
  <2>2. CASE op = "exec"
    <3>1. at = 2 /\ Now.arg = "none" /\ leftover = "none"
      BY <1>1, <2>1, <2>2, StartOnOneScript DEF Undisturbed, RightServer
    <3>. QED
      BY <1>1, <2>1, <2>2, <3>1, Started DEF RoutedToSecond, Executes
  <2>3. CASE op = "signal"
    <3>1. at = 5 /\ Now.arg = "go" /\ wf.state # "none"
      BY <1>1, <2>1, <2>3, StartOnOneScript DEF Undisturbed, SoFar, Begun, StartedAfter
    <3>2. Awaits("go")'
      BY <1>1, <2>1, <2>3, <3>1, SignalAwaits DEF RoutedToSecond
    <3>. QED
      BY <1>1, <2>1, <2>3, <3>1, <3>2, Signaled DEF RoutedToSecond
  <2>4. CASE op = "set"
    <3>1. rules[Now.arg] = Now.val /\ active = rules
      BY <2>1, <2>4, RightlyServed DEF RuleIsSet, Undisturbed
    <3>. QED
      BY <1>1, <2>1, <2>4, <3>1, StartOnOneScript DEF RoutedToSecond
  <2>5. CASE op \notin {"exec", "signal", "set"}
    <3>1. at < 4
      BY <1>1, <2>1, <2>5, StartOnOneScript
    <3>. QED
      BY <1>1, <2>1, <2>5, <3>1 DEF RoutedToSecond
  <2>. QED
    BY <2>2, <2>3, <2>4, <2>5
<1>. QED
  BY <1>2, <1>3, Moves

LEMMA SecondPasses ==
  ASSUME Undisturbed, feature \in {"ramp", "auto_upgrade"}, RoutedToSecond, Next, timely'
  PROVE  result' # "fail"
<1>. SUFFICES ASSUME result' = "fail" PROVE FALSE
  OBVIOUS
<1>1. at \in Nat /\ Len(Script(feature)) = 6
  BY StartOnOneScript DEF Undisturbed, Typed
<1>2. ~ Doing("until") /\ ~ Doing("silent") /\ ~ Doing("never")
  BY <1>1, StartOnOneScript
<1>3. Doing("running") \/ Doing("signal") => at <= 5
  BY <1>1, StartOnOneScript
<1>4. at = 6 /\ wf.state = "closed" => wf.by \in Expected(feature)
  BY DEF RoutedToSecond, Awaits, Ended, Expected
<1>. QED
  BY <1>1, <1>2, <1>3, <1>4, FailsOnly DEF Undisturbed, WrongAnswer, NoHope, Hopeless, RoutedToSecond

-----------------------------------------------------------------------------
(***************************************************************************)
(* only_appropriate_worker_gets_task: the workflow is of the default set,  *)
(* whose newest version is 2.1.                                            *)
(***************************************************************************)
RoutedToDefault ==
  /\ wf.state \in {"open", "closed"} => wf.set = 2
  /\ at >= 6 => wf.state # "started"
  /\ at <= 7 => wf.state # "closed" /\ inbox = <<>>
  /\ at >= 8 => Ended(Workers) \/ Awaits("go")

LEMMA DefaultServed ==
  ASSUME Undisturbed, feature = "appropriate_worker", RoutedToDefault,
         wf.state \in {"open", "closed"}
  PROVE  Takers = Polling \cap {"2.1"}
<1>1. at >= 5 /\ at \in Nat
  BY Progress DEF StartedAfter
<1>2. Target = "2.1"
  BY <1>1, Newest DEF Target, BuildIds, RoutedToDefault, Undisturbed
<1>. QED
  BY <1>2, RightlyServed DEF Undisturbed

LEMMA DefaultKept ==
  ASSUME Undisturbed, feature = "appropriate_worker", RoutedToDefault, Next,
         result' = "none", timely'
  PROVE  RoutedToDefault'
<1>1. /\ Typed /\ at \in Nat /\ at <= 15 /\ Len(Script(feature)) = 15 /\ wf.part = 0
      /\ wf.state # "none" <=> at >= 5
  <2>1. StartedAfter(feature) = 4 /\ Len(Script(feature)) = 15
    BY Progress, AppropriateScript DEF StartedAfter
  <2>2. /\ Typed /\ at \in Nat /\ at <= 15 /\ wf.part = 0
        /\ wf.state # "none" <=> at > 4
    BY <2>1, Progress
  <2>. QED
    BY <2>1, <2>2
<1>2. CASE Beside /\ UNCHANGED <<at, workers, sets>>
  <2>. USE DEF RoutedToDefault, Awaits, Ended
  <2>1. CASE UNCHANGED <<wf, inbox>>
    BY <1>2, <2>1
  <2>2. CASE Enqueues
    <3>1. /\ wf.state = "started" /\ wf'.state = "open" /\ wf'.task /\ wf'.set = Len(sets)
          /\ inbox' = inbox
      BY <1>1, <2>2, Opened DEF Enqueues
    <3>2. Len(sets) = 2
      BY <1>1, <3>1, Newest DEF Undisturbed
    <3>. QED
      BY <1>1, <1>2, <3>1, <3>2
  <2>3. ~ TimesOut
    <3>. SUFFICES ASSUME TimesOut PROVE FALSE
      OBVIOUS
    <3>1. wf.state = "open" /\ at = 15 /\ Quiet
      BY <1>1, RightlyServed DEF Undisturbed
    <3>2. wf.task
      BY <3>1
    <3>3. "2.1" \in Takers
      BY <3>1, DefaultServed DEF Undisturbed, SoFar, Pollers, Polling
    <3>. QED
      BY <3>1, <3>2, <3>3 DEF Quiet
  <2>4. ASSUME NEW w \in Workers, TakesTask(w)
        PROVE  RoutedToDefault'
    <3>1. wf' = Ran(w) /\ inbox' = <<>> /\ wf.state = "open"
      BY <2>4 DEF TakesTask
    <3>2. CASE at <= 7
      <4>1. Stays(Ran(w))
        BY <1>1, <3>1, <3>2, RanBy
      <4>. QED
        BY <1>1, <1>2, <3>1, <3>2, <4>1 DEF Stays
    <3>3. CASE at >= 8
      <4>1. Shut(Ran(w), w)
        BY <1>1, <3>1, <3>3, RanBy
      <4>. QED
        BY <1>1, <1>2, <3>1, <3>3, <4>1 DEF Shut
    <3>. QED
      BY <1>1, <3>2, <3>3
  <2>5. ASSUME NEW w \in Workers
        PROVE  ~ TakesPart(w)
    BY <1>1 DEF TakesPart
  <2>. QED
    BY <1>2, <2>1, <2>2, <2>3, <2>4, <2>5 DEF Beside
<1>3. ASSUME NEW op, Taken(op)
      PROVE  RoutedToDefault'
  <2>1. /\ Doing(op) /\ at' = at + 1
        /\ op = "exec" => Executes
        /\ op = "signal" => Signals
        /\ op = "until" => SeesAnswer
        /\ op \notin {"exec", "signal"} => UNCHANGED <<wf, inbox>>
    BY <1>3 DEF Taken
  <2>2. CASE op = "exec"
    <3>1. at = 4 /\ leftover = "none"
      BY <1>1, <2>1, <2>2, AppropriateScript DEF Undisturbed, RightServer
    <3>2. wf'.state = "started" /\ inbox' = inbox
      BY <1>1, <2>1, <2>2, <3>1, Started DEF Executes
    <3>. QED
      BY <1>1, <2>1, <3>1, <3>2 DEF RoutedToDefault
  <2>3. CASE op = "signal"
    <3>1. at = 7 /\ Now.arg = "go" /\ wf.state # "none"
      BY <1>1, <2>1, <2>3, AppropriateScript
    <3>2. Awaits("go")'
      BY <1>1, <2>1, <2>3, <3>1, SignalAwaits DEF RoutedToDefault
    <3>3. wf'.state = wf.state /\ wf'.set = wf.set
      BY <1>1, <2>1, <2>3, Signaled
    <3>. QED
      BY <1>1, <2>1, <3>1, <3>2, <3>3 DEF RoutedToDefault
  <2>4. CASE op = "until"
    <3>1. at = 5
      BY <1>1, <2>1, <2>4, AppropriateScript
    <3>2. wf.state \in {"open", "closed"} /\ UNCHANGED <<wf, inbox>>
      BY <2>1, <2>4 DEF SeesAnswer, Answers
    <3>. QED
      BY <1>1, <2>1, <3>1, <3>2 DEF RoutedToDefault
  <2>5. CASE op \notin {"exec", "signal", "until"}
    <3>1. at \notin {4, 5, 7}
      BY <1>1, <2>1, <2>5, AppropriateScript
    <3>2. UNCHANGED <<wf, inbox>>
      BY <2>1, <2>5
    <3>. QED
      BY <1>1, <2>1, <3>1, <3>2 DEF RoutedToDefault, Awaits, Ended
  <2>. QED
    BY <2>2, <2>3, <2>4, <2>5
<1>. QED
  BY <1>2, <1>3, Moves

LEMMA DefaultPasses ==
  ASSUME Undisturbed, feature = "appropriate_worker", RoutedToDefault, Next, timely'
  PROVE  result' # "fail"
<1>. SUFFICES ASSUME result' = "fail" PROVE FALSE
  OBVIOUS
<1>1. /\ Typed /\ at \in Nat /\ Len(Script(feature)) = 15
      /\ wf.state # "none" <=> at >= 5
  BY Progress, AppropriateScript DEF StartedAfter
<1>2. ASSUME Doing("until"), Quiet
      PROVE  Now.val \in Answers(Now.arg)
  <2>1. at = 5 /\ Now.arg = "waiting" /\ Now.val = "true"
    BY <1>1, <1>2, AppropriateScript
  <2>2. wf.state = "open"
    BY <1>1, <1>2, <2>1 DEF Quiet, RoutedToDefault, Typed, Workflow
  <2>3. "2.1" \in Takers
    BY <2>1, <2>2, DefaultServed DEF Undisturbed, SoFar, Pollers, Polling
  <2>4. ~ wf.task
    BY <1>2, <2>2, <2>3 DEF Quiet
  <2>5. Answers("waiting") = {"true" : w \in Takers}
    BY <2>2, <2>4 DEF Answers, Handlers
  <2>. QED
    BY <2>1, <2>3, <2>5
<1>3. ASSUME Doing("silent")
      PROVE  Answers(Now.arg) = {}
  <2>1. at \in {9, 12} /\ Now.arg = "waiting"
    BY <1>1, <1>3, AppropriateScript
  <2>2. wf.state \in {"open", "closed"} => Takers = {}
    BY <2>1, DefaultServed DEF Undisturbed, SoFar, Pollers, Polling
  <2>. QED
    BY <2>1, <2>2 DEF Answers
<1>4. ~ Doing("never") /\ ~ Doing("running")
  BY <1>1, AppropriateScript
<1>5. Doing("signal") => at = 7
  BY <1>1, AppropriateScript
<1>6. at = 15 /\ wf.state = "closed" => wf.by \in Expected(feature)
  BY DEF RoutedToDefault, Awaits, Ended, Expected
<1>7. ~ WrongAnswer
  BY <1>3, <1>4 DEF WrongAnswer
<1>8. ~ NoHope
  BY <1>1, <1>2, <1>4, <1>5 DEF NoHope, Hopeless, RoutedToDefault
<1>. QED
  BY <1>1, <1>6, <1>7, <1>8, FailsOnly DEF Undisturbed

-----------------------------------------------------------------------------
(***************************************************************************)
(* unversioned_worker_no_task: the workflow is of the default set, and its *)
(* task waits until the worker of that set has been started.               *)
(***************************************************************************)
RoutedToVersioned ==
  /\ inbox = <<>>
  /\ wf.state \in {"open", "closed"} => wf.set = 2
  /\ wf.state = "open" => wf.task
  /\ wf.state = "closed" => at = 6 /\ wf.by \in Workers

LEMMA VersionedServed ==
  ASSUME Undisturbed, feature = "worker_no_task", RoutedToVersioned, wf.state = "open"
  PROVE  Takers = Polling \cap {"2.1"}
<1>1. at >= 4 /\ at \in Nat
  BY Progress DEF StartedAfter
<1>2. Target = "2.1"
  BY <1>1, Newest DEF Target, BuildIds, RoutedToVersioned, Undisturbed
<1>. QED
  BY <1>2, RightlyServed DEF Undisturbed

LEMMA VersionedKept ==
  ASSUME Undisturbed, feature = "worker_no_task", RoutedToVersioned, Next,
         result' = "none", timely'
  PROVE  RoutedToVersioned'
<1>1. /\ Typed /\ at \in Nat /\ at <= 6 /\ Len(Script(feature)) = 6 /\ wf.part = 0
      /\ wf.state # "none" <=> at >= 4
      /\ second = "none" /\ first = IF at <= 5 THEN "unversioned" ELSE "2.1"
  <2>1. StartedAfter(feature) = 3 /\ Len(Script(feature)) = 6
    BY Progress, NoTaskScript DEF StartedAfter
  <2>2. second = "none" /\ first = IF at <= 5 THEN "unversioned" ELSE "2.1"
    BY Progress DEF SoFar, Pollers
  <2>3. /\ Typed /\ at \in Nat /\ at <= 6 /\ wf.part = 0
        /\ wf.state # "none" <=> at > 3
    BY <2>1, Progress
  <2>. QED
    BY <2>1, <2>2, <2>3
<1>2. CASE Beside /\ UNCHANGED <<at, workers, sets>>
  <2>. USE DEF RoutedToVersioned
  <2>1. CASE UNCHANGED <<wf, inbox>>
    BY <1>2, <2>1
  <2>2. CASE Enqueues
    <3>1. /\ wf.state = "started" /\ wf'.state = "open" /\ wf'.task /\ wf'.set = Len(sets)
          /\ inbox' = inbox
      BY <1>1, <2>2, Opened DEF Enqueues
    <3>2. Len(sets) = 2
      BY <1>1, <3>1, Newest DEF Undisturbed
    <3>. QED
      BY <1>1, <1>2, <3>1, <3>2
  <2>3. ~ TimesOut
    <3>. SUFFICES ASSUME TimesOut PROVE FALSE
      OBVIOUS
    <3>1. wf.state = "open" /\ at = 6 /\ Quiet
      BY <1>1, RightlyServed DEF Undisturbed
    <3>2. "2.1" \in Takers
      BY <1>1, <3>1, VersionedServed DEF Polling
    <3>. QED
      BY <3>1, <3>2 DEF Quiet
  <2>4. ASSUME NEW w \in Workers, TakesTask(w)
        PROVE  RoutedToVersioned'
    <3>1. wf' = Ran(w) /\ inbox' = <<>> /\ wf.state = "open" /\ w \in Takers
      BY <2>4 DEF TakesTask
    <3>2. at = 6
      BY <1>1, <3>1, VersionedServed DEF Polling
    <3>3. Shut(Ran(w), w)
      BY <1>1, <3>1, RanBy
    <3>. QED
      BY <1>2, <3>1, <3>2, <3>3 DEF Shut
  <2>5. ASSUME NEW w \in Workers
        PROVE  ~ TakesPart(w)
    BY <1>1 DEF TakesPart
  <2>. QED
    BY <1>2, <2>1, <2>2, <2>3, <2>4, <2>5 DEF Beside
<1>3. ASSUME NEW op, Taken(op)
      PROVE  RoutedToVersioned'
  <2>1. /\ Doing(op) /\ at' = at + 1 /\ op # "signal"
        /\ op = "exec" => Executes
        /\ op # "exec" => UNCHANGED <<wf, inbox>>
    BY <1>1, <1>3, NoTaskScript DEF Taken
  <2>2. CASE op = "exec"
    <3>1. leftover = "none"
      BY DEF Undisturbed, RightServer
    <3>. QED
      BY <1>1, <2>1, <2>2, <3>1, Started DEF RoutedToVersioned, Executes
  <2>3. CASE op # "exec"
    <3>1. at < 6
      BY <1>1, <2>1, NoTaskScript
    <3>. QED
      BY <1>1, <2>1, <2>3, <3>1 DEF RoutedToVersioned
  <2>. QED
    BY <2>2, <2>3
<1>. QED
  BY <1>2, <1>3, Moves

LEMMA VersionedPasses ==
  ASSUME Undisturbed, feature = "worker_no_task", RoutedToVersioned, Next, timely'
  PROVE  result' # "fail"
<1>. SUFFICES ASSUME result' = "fail" PROVE FALSE
  OBVIOUS
<1>1. at \in Nat /\ Len(Script(feature)) = 6
  BY NoTaskScript DEF Undisturbed, Typed
<1>2. Doing("silent") => Answers(Now.arg) = {}
  <2>1. Doing("silent") => at = 4
    BY <1>1, NoTaskScript
  <2>. QED
    BY <2>1 DEF Answers, RoutedToVersioned
<1>3. ~ Doing("never") /\ ~ Doing("running") /\ ~ Doing("signal") /\ ~ Doing("until")
  BY <1>1, NoTaskScript
<1>4. wf.state = "closed" => wf.by \in Expected(feature)
  BY DEF RoutedToVersioned, Expected
<1>. QED
  BY <1>1, <1>2, <1>3, <1>4, FailsOnly DEF Undisturbed, WrongAnswer, NoHope, Hopeless

-----------------------------------------------------------------------------
(***************************************************************************)
(* continues_as_new_on_correct_worker: the workflow stays on the set it    *)
(* was started in until it is told to go on with the default one.          *)
(***************************************************************************)
\* The workflow has the one signal, and a task to see it.
Pending(sig) == inbox = <<sig>> /\ wf.task

RoutedAsNew ==
  /\ at >= 4 => wf.state # "started"
  /\ wf.state = "open" /\ at <= 8 => wf.set = 1
  /\ at <= 6 \/ at = 8 \/ at = 10 => inbox = <<>>
  /\ at = 7 => inbox = <<>> \/ Pending("same")
  /\ at = 9 => \/ wf.set = 1 /\ Pending("default")
               \/ wf.set = 2 /\ inbox = <<>>
  /\ wf.state = "open" /\ at >= 10 => wf.set = 2
  /\ wf.state = "closed" => at = 11 /\ wf.by \in Workers
  /\ at = 11 => wf.state = "closed" \/ Pending("end")

LEMMA AsNewProgress ==
  ASSUME Undisturbed, feature = "continues_as_new"
  PROVE  /\ Typed /\ at \in Nat /\ at <= 11 /\ Len(Script(feature)) = 11 /\ wf.part = 0
         /\ wf.state # "none" <=> at > 2
         /\ at > 1 => Polling = {"1.0", "2.0"}
         /\ leftover = "none"
<1>1. StartedAfter(feature) = 2 /\ Len(Script(feature)) = 11
  BY Progress, AsNewScript DEF StartedAfter
<1>2. /\ Typed /\ at \in Nat /\ at <= 11 /\ wf.part = 0 /\ leftover = "none"
      /\ wf.state # "none" <=> at > 2
  BY <1>1, Progress
<1>3. first = "1.0" /\ second = IF at <= 1 THEN "none" ELSE "2.0"
  BY Progress DEF SoFar, Pollers
<1>4. at > 1 => Polling = {"1.0", "2.0"}
  BY <1>2, <1>3 DEF Polling
<1>. QED
  BY <1>1, <1>2, <1>4

LEMMA AsNewServed ==
  ASSUME Undisturbed, feature = "continues_as_new", wf.state = "open"
  PROVE  /\ wf.set = 1 => Takers = {"1.0"}
         /\ wf.set = 2 /\ at >= 5 => Takers = {"2.0"}
<1>1. at \in Nat /\ at > 2 /\ Polling = {"1.0", "2.0"}
  BY AsNewProgress
<1>2. Takers = Polling \cap {NewestOf(wf.set)}
  BY RightlyServed DEF Target, BuildIds, Undisturbed
<1>3. NewestOf(1) = "1.0" /\ (at >= 5 => NewestOf(2) = "2.0")
  BY <1>1, Newest DEF Undisturbed
<1>4. wf.set = 1 => Takers = {"1.0"}
  BY <1>1, <1>2, <1>3
<1>5. wf.set = 2 /\ at >= 5 => Takers = {"2.0"}
  BY <1>1, <1>2, <1>3
<1>. QED
  BY <1>4, <1>5

LEMMA AsNewTask ==
  ASSUME Undisturbed, feature = "continues_as_new", RoutedAsNew,
         NEW w \in Workers, TakesTask(w), at' = at
  PROVE  RoutedAsNew'
<1>1. /\ Typed /\ at \in Nat /\ at <= 11
      /\ wf' = Ran(w) /\ inbox' = <<>> /\ wf.state = "open"
  BY AsNewProgress DEF TakesTask
<1>2. CASE inbox = <<>>
  <2>1. Stays(Ran(w)) /\ at # 11
    BY <1>1, <1>2, RanBy DEF RoutedAsNew, Pending
  <2>. QED
    BY <1>1, <1>2, <2>1 DEF Stays, RoutedAsNew, Pending
<1>3. CASE at = 7 /\ inbox = <<"same">>
  <2>1. Ran(w).state = "open" /\ Ran(w).set = wf.set
    BY <1>1, <1>3, RanBy
  <2>. QED
    BY <1>1, <1>3, <2>1 DEF RoutedAsNew, Pending
<1>4. CASE at = 9 /\ inbox = <<"default">>
  <2>1. Ran(w).state = "open" /\ Ran(w).set = Len(sets)
    BY <1>1, <1>4, RanBy
  <2>2. Len(sets) = 2
    BY <1>1, <1>4, Newest DEF Undisturbed
  <2>. QED
    BY <1>1, <1>4, <2>1, <2>2 DEF RoutedAsNew, Pending
<1>5. CASE at = 11 /\ inbox = <<"end">>
  <2>1. Shut(Ran(w), w)
    BY <1>1, <1>5, RanBy
  <2>. QED
    BY <1>1, <1>5, <2>1 DEF Shut, RoutedAsNew, Pending
<1>6. \/ inbox = <<>>
      \/ at = 7 /\ inbox = <<"same">>
      \/ at = 9 /\ inbox = <<"default">>
      \/ at = 11 /\ inbox = <<"end">>
  <2>1. at <= 6 \/ at = 7 \/ at = 8 \/ at = 9 \/ at = 10 \/ at = 11
    BY <1>1
  <2>. QED
    BY <1>1, <2>1 DEF RoutedAsNew, Pending
<1>. QED
  BY <1>2, <1>3, <1>4, <1>5, <1>6

LEMMA AsNewKept ==
  ASSUME Undisturbed, feature = "continues_as_new", RoutedAsNew, Next, result' = "none",
         timely'
  PROVE  RoutedAsNew'
<1>1. /\ Typed /\ at \in Nat /\ at <= 11 /\ Len(Script(feature)) = 11 /\ wf.part = 0
      /\ wf.state # "none" <=> at > 2
      /\ leftover = "none"
  BY AsNewProgress
<1>2. CASE Beside /\ UNCHANGED <<at, workers, sets>>
  <2>1. CASE UNCHANGED <<wf, inbox>>
    BY <1>2, <2>1 DEF RoutedAsNew, Pending
  <2>2. CASE Enqueues
    <3>1. /\ wf.state = "started" /\ wf'.state = "open" /\ wf'.set = Len(sets)
          /\ inbox' = inbox
      BY <1>1, <2>2, Opened DEF Enqueues
    <3>2. at = 3
      BY <1>1, <3>1 DEF RoutedAsNew
    <3>3. Len(sets) = 1
      BY <1>1, <3>2, Newest DEF Undisturbed
    <3>. QED
      BY <1>1, <1>2, <3>1, <3>2, <3>3 DEF RoutedAsNew
  <2>3. ~ TimesOut
    <3>. SUFFICES ASSUME TimesOut PROVE FALSE
      OBVIOUS
    <3>1. wf.state = "open" /\ at = 11 /\ Quiet
      BY <1>1, RightlyServed DEF Undisturbed
    <3>2. wf.task /\ wf.set = 2
      BY <3>1 DEF RoutedAsNew, Pending
    <3>3. Takers # {}
      BY <3>1, <3>2, AsNewServed
    <3>. QED
      BY <3>1, <3>2, <3>3 DEF Quiet
  <2>4. ASSUME NEW w \in Workers, TakesTask(w)
        PROVE  RoutedAsNew'
    BY <1>2, <2>4, AsNewTask
  <2>5. ASSUME NEW w \in Workers
        PROVE  ~ TakesPart(w)
    BY <1>1 DEF TakesPart
  <2>. QED
    BY <1>2, <2>1, <2>2, <2>3, <2>4, <2>5 DEF Beside
<1>3. ASSUME NEW op, Taken(op)
      PROVE  RoutedAsNew'
  <2>1. /\ Doing(op) /\ at' = at + 1
        /\ op = "exec" => Executes
        /\ op = "signal" => Signals
        /\ op = "until" => SeesAnswer
        /\ op = "sleep" => Sleeps
        /\ op \notin {"exec", "signal"} => UNCHANGED <<wf, inbox>>
    BY <1>3 DEF Taken
  <2>2. CASE op = "exec"
    <3>1. at = 2
      BY <1>1, <2>1, <2>2, AsNewScript
    <3>2. wf'.state = "started" /\ inbox' = inbox
      BY <1>1, <2>1, <2>2, Started DEF Executes
    <3>. QED
      BY <1>1, <2>1, <3>1, <3>2 DEF RoutedAsNew
  <2>3. CASE op = "signal"
    <3>1. \/ at = 6 /\ Now.arg = "same"
          \/ at = 8 /\ Now.arg = "default"
          \/ at = 10 /\ Now.arg = "end"
      BY <1>1, <2>1, <2>3, AsNewScript
    <3>2. wf.state = "open" /\ inbox = <<>>
      BY <1>1, <3>1 DEF RoutedAsNew, Typed, Workflow
    <3>3. /\ wf'.state = "open" /\ wf'.set = wf.set /\ wf'.task
          /\ inbox' = <<Now.arg>>
      BY <1>1, <2>1, <2>3, <3>2, Signaled DEF Signals
    <3>. QED
      BY <1>1, <2>1, <3>1, <3>2, <3>3 DEF RoutedAsNew, Pending
  <2>4. CASE op = "until"
    <3>1. \/ at = 5
          \/ at = 7 /\ Now.val = "1.0"
          \/ at = 9 /\ Now.val = "2.0"
      BY <1>1, <2>1, <2>4, AsNewScript
    <3>2. /\ wf.state = "open" /\ ~ wf.task
          /\ UNCHANGED <<wf, inbox>>
      BY <2>1, <2>4, <3>1 DEF SeesAnswer, Answers, RoutedAsNew
    <3>. QED
      BY <1>1, <2>1, <3>1, <3>2 DEF RoutedAsNew, Pending
  <2>5. CASE op \notin {"exec", "signal", "until"}
    <3>1. at <= 4 /\ at # 2 /\ (at = 3 => op = "sleep")
      BY <1>1, <2>1, <2>5, AsNewScript
    <3>2. UNCHANGED <<wf, inbox>> /\ (at = 3 => wf.state # "started")
      BY <2>1, <2>5, <3>1 DEF Sleeps, Expires
    <3>. QED
      BY <1>1, <2>1, <3>1, <3>2 DEF RoutedAsNew
  <2>. QED
    BY <2>2, <2>3, <2>4, <2>5
<1>. QED
  BY <1>2, <1>3, Moves

LEMMA AsNewPasses ==
  ASSUME Undisturbed, feature = "continues_as_new", RoutedAsNew, Next, timely'
  PROVE  result' # "fail"
<1>. SUFFICES ASSUME result' = "fail" PROVE FALSE
  OBVIOUS
<1>1. /\ Typed /\ at \in Nat /\ at <= 11 /\ Len(Script(feature)) = 11
      /\ wf.state # "none" <=> at > 2
  BY AsNewProgress
<1>2. ASSUME Doing("until"), Quiet
      PROVE  Now.val \in Answers(Now.arg)
  <2>1. /\ Now.arg = "runningOn"
        /\ \/ at \in {5, 7} /\ Now.val = "1.0"
           \/ at = 9 /\ Now.val = "2.0"
    BY <1>1, <1>2, AsNewScript
  <2>2. wf.state = "open"
    BY <1>1, <2>1 DEF RoutedAsNew, Typed, Workflow
  <2>3. Takers = IF at = 9 /\ wf.set = 2 THEN {"2.0"} ELSE {"1.0"}
    BY <2>1, <2>2, AsNewServed DEF RoutedAsNew
  <2>4. ~ wf.task
    BY <1>2, <2>2, <2>3 DEF Quiet
  <2>5. at = 9 => wf.set = 2
    BY <2>4 DEF RoutedAsNew, Pending
  <2>6. Answers("runningOn") = Takers
    BY <2>2, <2>4 DEF Answers, Handlers
  <2>. QED
    BY <2>1, <2>3, <2>5, <2>6
<1>3. ~ Doing("never") /\ ~ Doing("running") /\ ~ Doing("silent")
  BY <1>1, AsNewScript
<1>4. Doing("signal") => at <= 10
  BY <1>1, AsNewScript
<1>5. wf.state = "closed" => at = 11 /\ wf.by \in Expected(feature)
  BY DEF RoutedAsNew, Expected
<1>6. ~ WrongAnswer
  BY <1>3 DEF WrongAnswer
<1>7. ~ NoHope
  BY <1>1, <1>2, <1>3, <1>4, <1>5 DEF NoHope, Hopeless
<1>. QED
  BY <1>5, <1>6, <1>7, FailsOnly DEF Undisturbed

-----------------------------------------------------------------------------
(***************************************************************************)
(* activity_and_child_on_correct_version: the first two parts stay on the  *)
(* set of the workflow, the others go to the default one.                  *)
(***************************************************************************)
RoutedToParts ==
  /\ at >= 4 => wf.state # "started"
  /\ wf.state = "open" => wf.set = 1
  /\ at <= 5 => wf.state # "closed" /\ inbox = <<>> /\ wf.part = 0
  /\ at = 6 => \/ Ended(Workers)
               \/ wf.state = "open" /\ wf.part \in 1..4 /\ ~ wf.task /\ inbox = <<>>
               \/ wf.state = "open" /\ wf.part = 0 /\ Pending("go")

LEMMA PartsProgress ==
  ASSUME Undisturbed, feature = "activity_and_child"
  PROVE  /\ Typed /\ at \in Nat /\ at <= 6 /\ Len(Script(feature)) = 6
         /\ wf.state # "none" <=> at > 2
         /\ at > 1 => Polling = {"1.0", "2.0"}
         /\ leftover = "none"
<1>1. StartedAfter(feature) = 2 /\ Len(Script(feature)) = 6
  BY Progress, PartsScript DEF StartedAfter
<1>2. /\ Typed /\ at \in Nat /\ at <= 6 /\ leftover = "none"
      /\ wf.state # "none" <=> at > 2
  BY <1>1, Progress
<1>3. first = "1.0" /\ second = IF at <= 1 THEN "none" ELSE "2.0"
  BY Progress DEF SoFar, Pollers
<1>4. at > 1 => Polling = {"1.0", "2.0"}
  BY <1>2, <1>3 DEF Polling
<1>. QED
  BY <1>1, <1>2, <1>4

\* A task goes to the version the workflow was started on, and each part to
\* the version that it is to run on.
LEMMA PartsServed ==
  ASSUME Undisturbed, feature = "activity_and_child", wf.state = "open", wf.set = 1
  PROVE  /\ Takers = {"1.0"}
         /\ at >= 5 => \A n \in 1..4 : Served(PartTarget(n)) = {Wanted(n)}
<1>1. at \in Nat /\ at > 2 /\ Polling = {"1.0", "2.0"}
  BY PartsProgress
<1>2. NewestOf(1) = "1.0" /\ (at >= 5 => Len(sets) = 2 /\ NewestOf(2) = "2.0")
  BY <1>1, Newest DEF Undisturbed
<1>3. Takers = Polling \cap {NewestOf(wf.set)}
  BY RightlyServed DEF Target, BuildIds, Undisturbed
<1>4. Takers = {"1.0"}
  BY <1>1, <1>2, <1>3
<1>5. ASSUME at >= 5, NEW n \in 1..4
      PROVE  Served(PartTarget(n)) = {Wanted(n)}
  <2>1. PartTarget(n) = Wanted(n)
    BY <1>2, <1>5 DEF PartTarget, Wanted
  <2>2. Wanted(n) \in Polling
    BY <1>1 DEF Wanted
  <2>. QED
    BY <2>1, <2>2, RightlyServed DEF Undisturbed
<1>. QED
  BY <1>4, <1>5

LEMMA PartTaken ==
  ASSUME Undisturbed, feature = "activity_and_child", RoutedToParts,
         NEW w \in Workers, TakesPart(w), at' = at
  PROVE  RoutedToParts'
<1>1. Typed /\ at \in Nat /\ at <= 6
  BY PartsProgress
<1>2. /\ wf.state = "open" /\ wf.part > 0 /\ w \in Served(PartTarget(wf.part))
      /\ inbox' = inbox
  BY DEF TakesPart
<1>3. at = 6 /\ wf.part \in 1..4 /\ ~ wf.task /\ wf.set = 1 /\ inbox = <<>>
  BY <1>1, <1>2 DEF RoutedToParts, Ended
<1>4. w = Wanted(wf.part)
  BY <1>2, <1>3, PartsServed
<1>5. CASE wf.part = 4
  <2>1. wf' = Closed(w)
    BY <1>4, <1>5 DEF TakesPart
  <2>2. wf'.state = "closed" /\ wf'.by = w
    BY <1>1, <2>1, ClosedBy
  <2>. QED
    BY <1>3, <2>2 DEF RoutedToParts, Ended
<1>6. CASE wf.part # 4
  <2>1. wf' = [wf EXCEPT !.part = @ + 1]
    BY <1>4, <1>6 DEF TakesPart
  <2>2. /\ wf'.part = wf.part + 1 /\ wf'.state = "open" /\ wf'.set = wf.set
        /\ wf'.task = wf.task
    BY <1>1, <1>2, <2>1 DEF Typed, Workflow
  <2>3. wf.part + 1 \in 1..4
    BY <1>3, <1>6
  <2>. QED
    BY <1>2, <1>3, <2>2, <2>3 DEF RoutedToParts
<1>. QED
  BY <1>5, <1>6

LEMMA PartsKept ==
  ASSUME Undisturbed, feature = "activity_and_child", RoutedToParts, Next,
         result' = "none", timely'
  PROVE  RoutedToParts'
<1>1. /\ Typed /\ at \in Nat /\ at <= 6 /\ Len(Script(feature)) = 6
      /\ wf.state # "none" <=> at > 2
      /\ leftover = "none"
  BY PartsProgress
<1>2. CASE Beside /\ UNCHANGED <<at, workers, sets>>
  <2>1. CASE UNCHANGED <<wf, inbox>>
    BY <1>2, <2>1 DEF RoutedToParts, Pending, Ended
  <2>2. CASE Enqueues
    <3>1. /\ wf.state = "started" /\ wf'.state = "open" /\ wf'.set = Len(sets)
          /\ wf'.part = wf.part /\ inbox' = inbox
      BY <1>1, <2>2, Opened DEF Enqueues
    <3>2. at = 3
      BY <1>1, <3>1 DEF RoutedToParts
    <3>3. Len(sets) = 1
      BY <1>1, <3>2, Newest DEF Undisturbed
    <3>. QED
      BY <1>1, <1>2, <3>1, <3>2, <3>3 DEF RoutedToParts
  <2>3. ~ TimesOut
    <3>. SUFFICES ASSUME TimesOut PROVE FALSE
      OBVIOUS
    <3>1. wf.state = "open" /\ at = 6 /\ Quiet
      BY <1>1, RightlyServed DEF Undisturbed
    <3>2. wf.part = 0
      BY <3>1 DEF Quiet
    <3>3. wf.task /\ wf.set = 1
      BY <3>1, <3>2 DEF RoutedToParts, Pending, Ended
    <3>4. Takers # {}
      BY <3>1, <3>3, PartsServed
    <3>. QED
      BY <3>1, <3>3, <3>4 DEF Quiet
  <2>4. ASSUME NEW w \in Workers, TakesTask(w)
        PROVE  RoutedToParts'
    <3>1. /\ wf' = Ran(w) /\ inbox' = <<>> /\ wf.state = "open" /\ wf.task
      BY <2>4 DEF TakesTask
    <3>2. CASE at <= 5
      <4>1. Stays(Ran(w))
        BY <1>1, <3>1, <3>2, RanBy DEF RoutedToParts
      <4>. QED
        BY <1>1, <1>2, <3>1, <3>2, <4>1 DEF Stays, RoutedToParts
    <3>3. CASE at = 6
      <4>1. inbox = <<"go">>
        BY <3>1, <3>3 DEF RoutedToParts, Pending, Ended
      <4>2. /\ Ran(w).state = "open" /\ Ran(w).part = 1 /\ ~ Ran(w).task
            /\ Ran(w).set = wf.set
        BY <1>1, <3>1, <4>1, RanBy
      <4>. QED
        BY <1>2, <3>1, <3>3, <4>2 DEF RoutedToParts
    <3>. QED
      BY <1>1, <3>2, <3>3
  <2>5. ASSUME NEW w \in Workers, TakesPart(w)
        PROVE  RoutedToParts'
    BY <1>2, <2>5, PartTaken
  <2>. QED
    BY <1>2, <2>1, <2>2, <2>3, <2>4, <2>5 DEF Beside
<1>3. ASSUME NEW op, Taken(op)
      PROVE  RoutedToParts'
  <2>1. /\ Doing(op) /\ at' = at + 1
        /\ op = "exec" => Executes
        /\ op = "signal" => Signals
        /\ op = "sleep" => Sleeps
        /\ op \notin {"exec", "signal"} => UNCHANGED <<wf, inbox>>
    BY <1>3 DEF Taken
  <2>2. CASE op = "exec"
    <3>1. at = 2
      BY <1>1, <2>1, <2>2, PartsScript
    <3>2. wf'.state = "started" /\ wf'.part = 0 /\ inbox' = inbox
      BY <1>1, <2>1, <2>2, Started DEF Executes
    <3>. QED
      BY <1>1, <2>1, <3>1, <3>2 DEF RoutedToParts
  <2>3. CASE op = "signal"
    <3>1. at = 5 /\ Now.arg = "go"
      BY <1>1, <2>1, <2>3, PartsScript
    <3>2. wf.state = "open" /\ inbox = <<>>
      BY <1>1, <3>1 DEF RoutedToParts, Typed, Workflow
    <3>3. /\ wf'.state = "open" /\ wf'.set = wf.set /\ wf'.task /\ wf'.part = wf.part
          /\ inbox' = <<Now.arg>>
      BY <1>1, <2>1, <2>3, <3>2, Signaled DEF Signals
    <3>. QED
      BY <1>1, <2>1, <3>1, <3>2, <3>3 DEF RoutedToParts, Pending
  <2>4. CASE op \notin {"exec", "signal"}
    <3>1. at <= 4 /\ at # 2 /\ (at = 3 => op = "sleep")
      BY <1>1, <2>1, <2>4, PartsScript
    <3>2. UNCHANGED <<wf, inbox>> /\ (at = 3 => wf.state # "started")
      BY <2>1, <2>4, <3>1 DEF Sleeps, Expires
    <3>. QED
      BY <1>1, <2>1, <3>1, <3>2 DEF RoutedToParts
  <2>. QED
    BY <2>2, <2>3, <2>4
<1>. QED
  BY <1>2, <1>3, Moves

LEMMA PartsPass ==
  ASSUME Undisturbed, feature = "activity_and_child", RoutedToParts, Next, timely'
  PROVE  result' # "fail"
<1>. SUFFICES ASSUME result' = "fail" PROVE FALSE
  OBVIOUS
<1>1. at \in Nat /\ Len(Script(feature)) = 6
  BY PartsProgress
<1>2. /\ ~ Doing("until") /\ ~ Doing("silent") /\ ~ Doing("never") /\ ~ Doing("running")
  BY <1>1, PartsScript
<1>3. Doing("signal") => at = 5
  BY <1>1, PartsScript
<1>4. at = 6 /\ wf.state = "closed" => wf.by \in Expected(feature)
  BY DEF RoutedToParts, Ended, Expected
<1>5. ~ WrongAnswer
  BY <1>2 DEF WrongAnswer
<1>6. ~ NoHope
  BY <1>2, <1>3 DEF NoHope, Hopeless, RoutedToParts
<1>. QED
  BY <1>1, <1>4, <1>5, <1>6, FailsOnly DEF Undisturbed

-----------------------------------------------------------------------------
(***************************************************************************)
(* versions_added_while_worker_polling: only the newest version of the set *)
(* gets tasks, and so the signals are counted when a worker of it polls.   *)
(***************************************************************************)
RoutedToNewest ==
  /\ wf.state \in {"open", "closed"} => wf.set = 1
  /\ wf.state = "open" /\ ~ wf.task => inbox = <<>>
  /\ wf.state = "closed" => at = 16 /\ wf.by \in Workers

LEMMA NewestProgress ==
  ASSUME Undisturbed, feature = "while_polling"
  PROVE  /\ Typed /\ at \in Nat /\ at <= 16 /\ Len(Script(feature)) = 16 /\ wf.part = 0
         /\ wf.state # "none" <=> at > 2
         /\ Polling = {IF at <= 5 THEN "1.0" ELSE IF at <= 14 THEN "1.1" ELSE "1.2"}
         /\ leftover = "none"
<1>1. StartedAfter(feature) = 2 /\ Len(Script(feature)) = 16
  BY Progress, PollingScript DEF StartedAfter
<1>2. /\ Typed /\ at \in Nat /\ at <= 16 /\ wf.part = 0 /\ leftover = "none"
      /\ wf.state # "none" <=> at > 2
  BY <1>1, Progress
<1>3. /\ second = "none"
      /\ first = IF at <= 5 THEN "1.0" ELSE IF at <= 14 THEN "1.1" ELSE "1.2"
  BY Progress DEF SoFar, Pollers
<1>4. Polling = {IF at <= 5 THEN "1.0" ELSE IF at <= 14 THEN "1.1" ELSE "1.2"}
  BY <1>3 DEF Polling
<1>. QED
  BY <1>1, <1>2, <1>4

LEMMA NewestServed ==
  ASSUME Undisturbed, feature = "while_polling", RoutedToNewest,
         wf.state \in {"open", "closed"}
  PROVE  Takers = IF at <= 5 THEN {"1.0"} ELSE IF at <= 8 THEN {}
                  ELSE IF at <= 11 THEN {"1.1"} ELSE IF at <= 14 THEN {} ELSE {"1.2"}
<1>1. /\ at \in Nat /\ at > 2
      /\ Polling = {IF at <= 5 THEN "1.0" ELSE IF at <= 14 THEN "1.1" ELSE "1.2"}
  BY NewestProgress
<1>2. Takers = Polling \cap {NewestOf(1)}
  BY RightlyServed DEF Target, BuildIds, Undisturbed, RoutedToNewest
<1>3. NewestOf(1) = IF at <= 8 THEN "1.0" ELSE IF at <= 11 THEN "1.1" ELSE "1.2"
  BY <1>1, Newest DEF Undisturbed
<1>4. \A v, u : {v} \cap {u} = IF v = u THEN {v} ELSE {}
  OBVIOUS
<1>. DEFINE v == IF at <= 5 THEN "1.0" ELSE IF at <= 14 THEN "1.1" ELSE "1.2"
            u == IF at <= 8 THEN "1.0" ELSE IF at <= 11 THEN "1.1" ELSE "1.2"
<1>5. Takers = IF v = u THEN {v} ELSE {}
  BY <1>1, <1>2, <1>3, <1>4
<1>. QED
  BY <1>1, <1>5

LEMMA NewestKept ==
  ASSUME Undisturbed, feature = "while_polling", RoutedToNewest, Next, result' = "none",
         timely'
  PROVE  RoutedToNewest'
<1>1. /\ Typed /\ at \in Nat /\ at <= 16 /\ Len(Script(feature)) = 16 /\ wf.part = 0
      /\ wf.state # "none" <=> at > 2
      /\ leftover = "none"
  BY NewestProgress
<1>2. CASE Beside /\ UNCHANGED <<at, workers, sets>>
  <2>1. CASE UNCHANGED <<wf, inbox>>
    BY <1>2, <2>1 DEF RoutedToNewest
  <2>2. CASE Enqueues
    <3>1. /\ wf.state = "started" /\ wf'.state = "open" /\ wf'.set = Len(sets) /\ wf'.task
          /\ inbox' = inbox
      BY <1>1, <2>2, Opened DEF Enqueues
    <3>2. Len(sets) = 1
      BY <1>1, <3>1, Newest DEF Undisturbed
    <3>. QED
      BY <1>2, <3>1, <3>2 DEF RoutedToNewest
  <2>3. ~ TimesOut
    <3>. SUFFICES ASSUME TimesOut PROVE FALSE
      OBVIOUS
    <3>1. wf.state = "open" /\ at = 16 /\ Quiet
      BY <1>1, RightlyServed DEF Undisturbed
    <3>2. inbox # <<>>
      BY <3>1, GotAny DEF Undisturbed, Counted
    <3>3. wf.task
      BY <3>1, <3>2 DEF RoutedToNewest
    <3>4. Takers # {}
      BY <3>1, NewestServed
    <3>. QED
      BY <3>1, <3>3, <3>4 DEF Quiet
  <2>4. ASSUME NEW w \in Workers, TakesTask(w)
        PROVE  RoutedToNewest'
    <3>1. /\ wf' = Ran(w) /\ inbox' = <<>> /\ wf.state = "open"
      BY <2>4 DEF TakesTask
    <3>2. \A i \in 1..Len(inbox) : inbox[i] \in {"add1", "cancel"}
      BY DEF Undisturbed, Counted
    <3>3. CASE Got("cancel")
      <4>1. Shut(Ran(w), w)
        BY <1>1, <3>1, <3>2, <3>3, RanBy
      <4>2. at = 16
        <5>1. DOMAIN inbox = 1..Len(inbox)
          BY <1>1 DEF Typed
        <5>2. PICK i \in 1..Len(inbox) : inbox[i] = "cancel"
          BY <3>3, <5>1 DEF Got
        <5>. QED
          BY <5>2 DEF Undisturbed, Counted
      <4>. QED
        BY <1>2, <3>1, <4>1, <4>2 DEF Shut, RoutedToNewest
    <3>4. CASE ~ Got("cancel")
      <4>1. Stays(Ran(w))
        BY <1>1, <3>1, <3>2, <3>4, RanBy
      <4>. QED
        BY <1>2, <3>1, <4>1 DEF Stays, RoutedToNewest
    <3>. QED
      BY <3>3, <3>4
  <2>5. ASSUME NEW w \in Workers
        PROVE  ~ TakesPart(w)
    BY <1>1 DEF TakesPart
  <2>. QED
    BY <1>2, <2>1, <2>2, <2>3, <2>4, <2>5 DEF Beside
<1>3. ASSUME NEW op, Taken(op)
      PROVE  RoutedToNewest'
  <2>1. /\ Doing(op) /\ at' = at + 1
        /\ op = "exec" => Executes
        /\ op = "signal" => Signals
        /\ op \notin {"exec", "signal"} => UNCHANGED <<wf, inbox>>
    BY <1>3 DEF Taken
  <2>2. wf.state # "closed"
    <3>1. at < 16
      BY <1>1, <2>1, PollingScript
    <3>. QED
      BY <3>1 DEF RoutedToNewest
  <2>3. CASE op = "exec"
    <3>1. wf'.state = "started"
      BY <1>1, <2>1, <2>3, Started
    <3>. QED
      BY <3>1 DEF RoutedToNewest
  <2>4. CASE op = "signal"
    <3>1. wf'.state = wf.state /\ wf'.set = wf.set /\ (wf'.task <=> wf.task \/ wf.state = "open")
      BY <1>1, <2>1, <2>4, Signaled
    <3>. QED
      BY <2>2, <3>1 DEF RoutedToNewest
  <2>5. CASE op \notin {"exec", "signal"}
    BY <2>1, <2>2, <2>5 DEF RoutedToNewest
  <2>. QED
    BY <2>3, <2>4, <2>5
<1>. QED
  BY <1>2, <1>3, Moves

LEMMA NewestPasses ==
  ASSUME Undisturbed, feature = "while_polling", RoutedToNewest, Next, timely'
  PROVE  result' # "fail"
<1>. SUFFICES ASSUME result' = "fail" PROVE FALSE
  OBVIOUS
<1>1. /\ Typed /\ at \in Nat /\ at <= 16 /\ Len(Script(feature)) = 16
      /\ wf.state # "none" <=> at > 2
  BY NewestProgress
<1>2. ASSUME Doing("until"), Quiet
      PROVE  Now.val \in Answers(Now.arg)
  <2>1. /\ Now.arg = "counter"
        /\ \/ at = 4 /\ Now.val = 1
           \/ at = 10 /\ Now.val = 2
    BY <1>1, <1>2, PollingScript
  <2>2. wf.state = "open"
    BY <1>1, <1>2, <2>1 DEF Quiet, RoutedToNewest, Typed, Workflow
  <2>3. Takers # {}
    BY <2>1, <2>2, NewestServed
  <2>4. ~ wf.task
    BY <1>2, <2>2, <2>3 DEF Quiet
  <2>5. Len(inbox) = 0 /\ wf.count \in Nat
    BY <1>1, <2>2, <2>4 DEF RoutedToNewest, Typed, Workflow
  <2>6. wf.count = Now.val
    BY <2>1, <2>2, <2>5 DEF Undisturbed, Counted
  <2>7. Answers("counter") = {wf.count : w \in Takers}
    BY <2>2, <2>4 DEF Answers, Handlers
  <2>. QED
    BY <2>1, <2>3, <2>6, <2>7
<1>3. ASSUME Doing("silent")
      PROVE  Answers(Now.arg) = {}
  <2>1. Now.arg = "waiting"
    BY <1>1, <1>3, PollingScript
  <2>. QED
    BY <2>1 DEF Answers, Handlers
<1>4. ASSUME Doing("never")
      PROVE  Now.val \notin Answers(Now.arg)
  <2>1. at = 13 /\ Now.arg = "counter"
    BY <1>1, <1>4, PollingScript
  <2>2. wf.state \in {"open", "closed"} => Takers = {}
    BY <2>1, NewestServed
  <2>. QED
    BY <2>1, <2>2 DEF Answers
<1>5. ~ Doing("running")
  BY <1>1, PollingScript
<1>6. Doing("signal") => at <= 15
  BY <1>1, PollingScript
<1>7. wf.state = "closed" => at = 16 /\ wf.by \in Expected(feature)
  BY DEF RoutedToNewest, Expected
<1>8. ~ WrongAnswer
  BY <1>3, <1>4 DEF WrongAnswer
<1>9. ~ NoHope
  BY <1>1, <1>2, <1>5, <1>6, <1>7 DEF NoHope, Hopeless
<1>. QED
  BY <1>7, <1>8, <1>9, FailsOnly DEF Undisturbed

-----------------------------------------------------------------------------
(***************************************************************************)
(* routing_pinned: once the first worker has begun the workflow, it is     *)
(* pinned to it.  The feature does not wait for that.                      *)
(***************************************************************************)
RoutedByPin ==
  /\ wf.state = "started" => wf.began = "none"
  /\ wf.state = "open" /\ wf.began = "1.0" => wf.pin = "1.0"
  /\ at <= 5 => wf.state # "closed" /\ inbox = <<>>
  /\ at = 6 => \/ Awaits("go")
               \/ wf.state = "closed" /\ (wf.began = "1.0" => wf.by = "1.0")

LEMMA PinServed ==
  ASSUME Undisturbed, feature = "pinned", RoutedByPin, wf.state = "open", wf.began = "1.0"
  PROVE  Takers = {"1.0"}
<1>1. Target = "1.0"
  BY DEF Target, BuildIds, RoutedByPin
<1>2. "1.0" \in Polling
  BY DEF Undisturbed, SoFar, Pollers, Deployments, Polling
<1>. QED
  BY <1>1, <1>2, RightlyServed DEF Undisturbed

\* What a task makes of the pin, and which worker it records as the first.
LEMMA RanBegan ==
  ASSUME Typed, NEW w \in Workers, wf.state = "open"
  PROVE  /\ Ran(w).began = IF wf.began = "none" THEN w ELSE wf.began
         /\ feature = "pinned" /\ leftover = "none" /\ inbox = <<>> =>
              Ran(w).pin = IF w = "1.0" THEN "1.0" ELSE wf.pin
<1>1. wf \in Workflow /\ Len(inbox) \in Nat /\ Len(sets) \in Nat
  BY DEF Typed
<1>. DEFINE began == IF wf.began = "none" THEN w ELSE wf.began
            rest == [wf EXCEPT !.task = FALSE, !.began = began,
                       !.pin = IF PinsOnStart(feature) /\ w = "1.0" /\ ~ Attached
                               THEN w ELSE @]
            shut == [Closed(w) EXCEPT !.began = began]
<1>2. began \in Workers \cup {"none"} /\ rest \in Workflow /\ rest.began = began
  BY <1>1 DEF Workflow
<1>3. shut.began = began
  BY <1>1, <1>2 DEF Closed, Workflow
<1>4. feature = "pinned" /\ leftover = "none" =>
        rest.pin = IF w = "1.0" THEN "1.0" ELSE wf.pin
  BY <1>1 DEF Workflow, PinsOnStart, Attached
<1>5. \/ Ran(w) = shut
      \/ Ran(w) = [rest EXCEPT !.part = 1]
      \/ Ran(w) = [rest EXCEPT !.count = @ + Len(inbox)]
      \/ Ran(w) = [rest EXCEPT !.task = TRUE]
      \/ Ran(w) = [rest EXCEPT !.task = TRUE, !.set = Len(sets)]
      \/ Ran(w) = rest
  BY DEF Ran, rest, began, shut
<1>6. feature = "pinned" /\ inbox = <<>> => Ran(w) = rest
  <2>. SUFFICES ASSUME feature = "pinned", inbox = <<>> PROVE Ran(w) = rest
    OBVIOUS
  <2>1. ~ Got("end") /\ ~ Got("cancel") /\ ~ Got("go") /\ ~ Got("same") /\ ~ Got("default")
    BY GotAny
  <2>. QED
    BY <2>1 DEF Ran, rest, began
<1>. HIDE DEF began, rest, shut
<1>7. /\ [rest EXCEPT !.part = 1].began = began
      /\ [rest EXCEPT !.count = @ + Len(inbox)].began = began
      /\ [rest EXCEPT !.task = TRUE].began = began
  BY <1>2 DEF Workflow
<1>8. [rest EXCEPT !.task = TRUE, !.set = Len(sets)].began = began
  BY <1>1, <1>2 DEF Workflow
<1>9. Ran(w).began = began
  BY <1>2, <1>3, <1>5, <1>7, <1>8
<1>. QED
  BY <1>4, <1>6, <1>9 DEF began

\* The other steps that change the workflow leave the worker that began it.
LEMMA BeganKept ==
  ASSUME Typed, Enqueues \/ Signals \/ TimesOut
  PROVE  wf'.began = wf.began
<1>1. wf \in Workflow /\ Len(sets) \in Nat
  BY DEF Typed
<1>2. CASE Enqueues
  <2>. DEFINE open == [wf EXCEPT !.state = "open"]
              tasked == [open EXCEPT !.task = TRUE]
  <2>1. tasked.began = wf.began /\ tasked \in Workflow
    BY <1>1 DEF Workflow
  <2>2. wf' = [tasked EXCEPT !.set = Len(sets)]
    BY <1>2 DEF Enqueues
  <2>. HIDE DEF open, tasked
  <2>. QED
    BY <1>1, <2>1, <2>2 DEF Workflow
<1>3. CASE Signals
  BY <1>1, <1>3 DEF Signals, Workflow
<1>4. CASE TimesOut
  BY <1>1, <1>4 DEF TimesOut, Closed, Workflow
<1>. QED
  BY <1>2, <1>3, <1>4

LEMMA NotBegun ==
  ASSUME Executes
  PROVE  wf'.began = "none"
  BY DEF Executes, NoWorkflow

LEMMA PinnedKept ==
  ASSUME Undisturbed, feature = "pinned", RoutedByPin, Next, result' = "none", timely'
  PROVE  RoutedByPin'
<1>1. /\ Typed /\ at \in Nat /\ at <= 6 /\ Len(Script(feature)) = 6 /\ wf.part = 0
      /\ leftover = "none"
  BY PinnedScript DEF Undisturbed, Typed, Foreign, RightServer
<1>2. CASE Beside /\ UNCHANGED <<at, workers, sets>>
  <2>. USE DEF RoutedByPin, Awaits
  <2>1. CASE UNCHANGED <<wf, inbox>>
    BY <1>2, <2>1
  <2>2. CASE Enqueues
    <3>1. /\ wf.state = "started" /\ wf'.state = "open" /\ wf'.task /\ inbox' = inbox
          /\ wf'.began = wf.began
      BY <1>1, <2>2, Opened, BeganKept DEF Enqueues
    <3>2. wf.began # "1.0"
      BY <3>1
    <3>. QED
      BY <1>1, <1>2, <3>1, <3>2
  <2>3. CASE TimesOut
    <3>1. wf.state = "open" /\ at = 6 /\ Quiet /\ wf' = Closed("timeout") /\ inbox' = inbox
      BY <1>1, <2>3, RightlyServed DEF Undisturbed, TimesOut
    <3>2. wf.task
      BY <3>1
    <3>3. wf.began # "1.0"
      BY <3>1, <3>2, PinServed DEF Quiet
    <3>4. wf'.began # "1.0" /\ wf'.state = "closed"
      BY <1>1, <2>3, <3>1, <3>3, BeganKept, ClosedBy
    <3>. QED
      BY <1>2, <3>1, <3>4
  <2>4. ASSUME NEW w \in Workers, TakesTask(w)
        PROVE  RoutedByPin'
    <3>1. wf' = Ran(w) /\ inbox' = <<>> /\ wf.state = "open" /\ w \in Takers
      BY <2>4 DEF TakesTask
    <3>2. wf'.began = IF wf.began = "none" THEN w ELSE wf.began
      BY <1>1, <3>1, RanBegan
    <3>3. wf'.began = "1.0" => w = "1.0"
      BY <3>1, <3>2, PinServed
    <3>4. CASE inbox = <<>>
      <4>1. Stays(Ran(w)) /\ at # 6
        BY <1>1, <3>1, <3>4, RanBy
      <4>2. wf'.pin = IF w = "1.0" THEN "1.0" ELSE wf.pin
        BY <1>1, <3>1, <3>4, RanBegan
      <4>. QED
        BY <1>1, <1>2, <3>1, <3>3, <4>1, <4>2 DEF Stays
    <3>5. CASE inbox = <<"go">>
      <4>1. Shut(Ran(w), w)
        BY <1>1, <3>1, <3>5, RanBy
      <4>2. ~ (at <= 5)
        BY <3>5
      <4>. QED
        BY <1>2, <3>1, <3>3, <4>1, <4>2 DEF Shut
    <3>6. inbox = <<>> \/ inbox = <<"go">>
      <4>1. at <= 5 \/ at = 6
        BY <1>1
      <4>. QED
        BY <3>1, <4>1
    <3>. QED
      BY <3>4, <3>5, <3>6
  <2>5. ASSUME NEW w \in Workers
        PROVE  ~ TakesPart(w)
    BY <1>1 DEF TakesPart
  <2>. QED
    BY <1>2, <2>1, <2>2, <2>3, <2>4, <2>5 DEF Beside
<1>3. ASSUME NEW op, Taken(op)
      PROVE  RoutedByPin'
  <2>1. /\ Doing(op) /\ at' = at + 1
        /\ op = "exec" => Executes
        /\ op = "signal" => Signals
        /\ op \notin {"exec", "signal"} => UNCHANGED <<wf, inbox>>
    BY <1>3 DEF Taken
  <2>2. CASE op = "exec"
    <3>1. at = 2 /\ Executes
      BY <1>1, <2>1, <2>2, PinnedScript
    <3>2. wf'.state = "started" /\ wf'.began = "none" /\ inbox' = inbox
      BY <1>1, <3>1, Started, NotBegun DEF Executes
    <3>. QED
      BY <1>1, <2>1, <3>1, <3>2 DEF RoutedByPin
  <2>3. CASE op = "signal"
    <3>1. at = 5 /\ Now.arg = "go" /\ wf.state # "none"
      BY <1>1, <2>1, <2>3, PinnedScript DEF Undisturbed, SoFar, Begun, StartedAfter
    <3>2. Awaits("go")'
      BY <1>1, <2>1, <2>3, <3>1, SignalAwaits DEF RoutedByPin
    <3>3. wf'.began = wf.began /\ wf'.state = wf.state /\ wf'.pin = wf.pin
      BY <1>1, <2>1, <2>3, Signaled, BeganKept
    <3>. QED
      BY <2>1, <3>1, <3>2, <3>3 DEF RoutedByPin
  <2>4. CASE op \notin {"exec", "signal"}
    <3>1. at < 5
      BY <1>1, <2>1, <2>4, PinnedScript
    <3>. QED
      BY <1>1, <2>1, <2>4, <3>1 DEF RoutedByPin
  <2>. QED
    BY <2>2, <2>3, <2>4
<1>. QED
  BY <1>2, <1>3, Moves

LEMMA PinnedPasses ==
  ASSUME Undisturbed, feature = "pinned", RoutedByPin, wf.began = "1.0", Next, timely'
  PROVE  result' # "fail"
<1>. SUFFICES ASSUME result' = "fail" PROVE FALSE
  OBVIOUS
<1>1. at \in Nat /\ Len(Script(feature)) = 6
  BY PinnedScript DEF Undisturbed, Typed
<1>2. ~ Doing("until") /\ ~ Doing("silent") /\ ~ Doing("never")
  BY <1>1, PinnedScript
<1>3. Doing("running") \/ Doing("signal") => at <= 5
  BY <1>1, PinnedScript
<1>4. at = 6 /\ wf.state = "closed" => wf.by \in Expected(feature)
  BY DEF RoutedByPin, Awaits, Expected
<1>. QED
  BY <1>1, <1>2, <1>3, <1>4, FailsOnly DEF Undisturbed, WrongAnswer, NoHope, Hopeless, RoutedByPin

-----------------------------------------------------------------------------
(***************************************************************************)
(* unversioned_worker_gets_unversioned_task: once the worker has begun the *)
(* workflow, it is bound to no set.  The feature does not wait for that.   *)
(***************************************************************************)
RoutedUnversioned ==
  /\ wf.state = "started" => wf.began = "none"
  /\ wf.state = "open" /\ wf.began = "unversioned" => wf.set = 0
  /\ at <= 4 => wf.state # "closed" /\ inbox = <<>>
  /\ at = 5 => \/ Awaits("go")
               \/ wf.state = "closed" /\ (wf.began = "unversioned" => wf.by \in Workers)

LEMMA UnversionedServed ==
  ASSUME Undisturbed, feature = "unversioned_task", wf.state = "open"
  PROVE  Takers = IF wf.set = 0 THEN {"unversioned"} ELSE {}
<1>1. Polling = {"unversioned"}
  BY DEF Undisturbed, SoFar, Pollers, Polling
<1>2. Takers = Polling \cap {NewestOf(wf.set)}
  BY RightlyServed DEF Target, BuildIds, Undisturbed
<1>3. wf.set \in Nat /\ wf.set <= Len(sets) /\ at \in Nat
  BY DEF Undisturbed, Typed, Workflow
<1>4. CASE wf.set = 0
  BY <1>1, <1>2, <1>4 DEF NewestOf
<1>5. CASE wf.set # 0
  <2>1. \/ sets = <<>> \/ sets = <<<<"1.0">>>> \/ sets = <<<<"1.0">>, <<"2.0">>>>
        \/ sets = <<<<"1.0">>, <<"2.0", "2.1">>>>
    BY <1>3 DEF Undisturbed, SoFar, SetsAdded
  <2>2. NewestOf(wf.set) = sets[wf.set][Len(sets[wf.set])]
    BY <1>5 DEF NewestOf
  <2>3. NewestOf(wf.set) \in {"1.0", "2.0", "2.1"}
    <3>1. CASE sets = <<>>
      BY <1>3, <1>5, <3>1
    <3>2. CASE sets = <<<<"1.0">>>>
      <4>1. wf.set = 1
        BY <1>3, <1>5, <3>2
      <4>. QED
        BY <2>2, <3>2, <4>1
    <3>3. CASE sets = <<<<"1.0">>, <<"2.0">>>>
      <4>1. wf.set = 1 \/ wf.set = 2
        BY <1>3, <1>5, <3>3
      <4>. QED
        BY <2>2, <3>3, <4>1
    <3>4. CASE sets = <<<<"1.0">>, <<"2.0", "2.1">>>>
      <4>1. wf.set = 1 \/ wf.set = 2
        BY <1>3, <1>5, <3>4
      <4>2. sets[1] = <<"1.0">> /\ sets[2] = <<"2.0", "2.1">>
        BY <3>4
      <4>3. CASE wf.set = 1
        BY <2>2, <4>2, <4>3
      <4>4. CASE wf.set = 2
        <5>1. Len(sets[2]) = 2 /\ sets[2][2] = "2.1"
          BY <4>2
        <5>. QED
          BY <2>2, <4>4, <5>1
      <4>. QED
        BY <4>1, <4>3, <4>4
    <3>. QED
      BY <2>1, <3>1, <3>2, <3>3, <3>4
  <2>. QED
    BY <1>1, <1>2, <1>5, <2>3
<1>. QED
  BY <1>4, <1>5

LEMMA UnversionedKept ==
  ASSUME Undisturbed, feature = "unversioned_task", RoutedUnversioned, Next, result' = "none", timely'
  PROVE  RoutedUnversioned'
<1>1. /\ Typed /\ at \in Nat /\ at <= 5 /\ Len(Script(feature)) = 5 /\ wf.part = 0
      /\ leftover = "none"
  BY UnversionedScript DEF Undisturbed, Typed, Foreign, RightServer
<1>2. CASE Beside /\ UNCHANGED <<at, workers, sets>>
  <2>. USE DEF RoutedUnversioned, Awaits
  <2>1. CASE UNCHANGED <<wf, inbox>>
    BY <1>2, <2>1
  <2>2. CASE Enqueues
    <3>1. /\ wf.state = "started" /\ wf'.state = "open" /\ wf'.task /\ inbox' = inbox
          /\ wf'.began = wf.began
      BY <1>1, <2>2, Opened, BeganKept DEF Enqueues
    <3>2. wf.began # "unversioned"
      BY <3>1
    <3>. QED
      BY <1>1, <1>2, <3>1, <3>2
  <2>3. CASE TimesOut
    <3>1. wf.state = "open" /\ at = 5 /\ Quiet /\ wf' = Closed("timeout") /\ inbox' = inbox
      BY <1>1, <2>3, RightlyServed DEF Undisturbed, TimesOut
    <3>2. wf.task
      BY <3>1
    <3>3. wf.began # "unversioned"
      BY <3>1, <3>2, UnversionedServed DEF Quiet
    <3>4. wf'.began # "unversioned" /\ wf'.state = "closed"
      BY <1>1, <2>3, <3>1, <3>3, BeganKept, ClosedBy
    <3>. QED
      BY <1>2, <3>1, <3>4
  <2>4. ASSUME NEW w \in Workers, TakesTask(w)
        PROVE  RoutedUnversioned'
    <3>1. wf' = Ran(w) /\ inbox' = <<>> /\ wf.state = "open" /\ w \in Takers
      BY <2>4 DEF TakesTask
    <3>2. wf'.began = IF wf.began = "none" THEN w ELSE wf.began
      BY <1>1, <3>1, RanBegan
    <3>3. wf.set = 0
      BY <3>1, UnversionedServed
    <3>4. CASE inbox = <<>>
      <4>1. Stays(Ran(w)) /\ at # 5
        BY <1>1, <3>1, <3>4, RanBy
      <4>. QED
        BY <1>1, <1>2, <3>1, <3>3, <4>1 DEF Stays
    <3>5. CASE inbox = <<"go">>
      <4>1. Shut(Ran(w), w)
        BY <1>1, <3>1, <3>5, RanBy
      <4>2. ~ (at <= 4)
        BY <3>5
      <4>. QED
        BY <1>2, <3>1, <3>3, <4>1, <4>2 DEF Shut
    <3>6. inbox = <<>> \/ inbox = <<"go">>
      <4>1. at <= 4 \/ at = 5
        BY <1>1
      <4>. QED
        BY <3>1, <4>1
    <3>. QED
      BY <3>4, <3>5, <3>6
  <2>5. ASSUME NEW w \in Workers
        PROVE  ~ TakesPart(w)
    BY <1>1 DEF TakesPart
  <2>. QED
    BY <1>2, <2>1, <2>2, <2>3, <2>4, <2>5 DEF Beside
<1>3. ASSUME NEW op, Taken(op)
      PROVE  RoutedUnversioned'
  <2>1. /\ Doing(op) /\ at' = at + 1
        /\ op = "exec" => Executes
        /\ op = "signal" => Signals
        /\ op \notin {"exec", "signal"} => UNCHANGED <<wf, inbox>>
    BY <1>3 DEF Taken
  <2>2. CASE op = "exec"
    <3>1. at = 0 /\ Executes
      BY <1>1, <2>1, <2>2, UnversionedScript
    <3>2. wf'.state = "started" /\ wf'.began = "none" /\ inbox' = inbox
      BY <1>1, <3>1, Started, NotBegun DEF Executes
    <3>. QED
      BY <1>1, <2>1, <3>1, <3>2 DEF RoutedUnversioned
  <2>3. CASE op = "signal"
    <3>1. at = 4 /\ Now.arg = "go" /\ wf.state # "none"
      BY <1>1, <2>1, <2>3, UnversionedScript DEF Undisturbed, SoFar, Begun, StartedAfter
    <3>2. Awaits("go")'
      BY <1>1, <2>1, <2>3, <3>1, SignalAwaits DEF RoutedUnversioned
    <3>3. wf'.began = wf.began /\ wf'.state = wf.state /\ wf'.set = wf.set
      BY <1>1, <2>1, <2>3, Signaled, BeganKept
    <3>. QED
      BY <2>1, <3>1, <3>2, <3>3 DEF RoutedUnversioned
  <2>4. CASE op \notin {"exec", "signal"}
    <3>1. at < 4
      BY <1>1, <2>1, <2>4, UnversionedScript
    <3>. QED
      BY <1>1, <2>1, <2>4, <3>1 DEF RoutedUnversioned
  <2>. QED
    BY <2>2, <2>3, <2>4
<1>. QED
  BY <1>2, <1>3, Moves

LEMMA UnversionedPasses ==
  ASSUME Undisturbed, feature = "unversioned_task", RoutedUnversioned,
         wf.began = "unversioned", Next, timely'
  PROVE  result' # "fail"
<1>. SUFFICES ASSUME result' = "fail" PROVE FALSE
  OBVIOUS
<1>1. at \in Nat /\ Len(Script(feature)) = 5
  BY UnversionedScript DEF Undisturbed, Typed
<1>2. ~ Doing("until") /\ ~ Doing("silent") /\ ~ Doing("never")
  BY <1>1, UnversionedScript
<1>3. Doing("running") \/ Doing("signal") => at <= 4
  BY <1>1, UnversionedScript
<1>4. at = 5 /\ wf.state = "closed" => wf.by \in Expected(feature)
  BY DEF RoutedUnversioned, Awaits, Expected
<1>. QED
  BY <1>1, <1>2, <1>3, <1>4, FailsOnly DEF Undisturbed, WrongAnswer, NoHope, Hopeless, RoutedUnversioned

-----------------------------------------------------------------------------
(***************************************************************************)
(* Which features can fail under a server that is right, and when.         *)
(***************************************************************************)
Routed ==
  /\ feature = "pinned" => RoutedByPin
  /\ feature = "unversioned_task" => RoutedUnversioned
  /\ feature = "override" => RoutedByOverride
  /\ feature \in {"ramp", "auto_upgrade"} => RoutedToSecond
  /\ feature = "appropriate_worker" => RoutedToDefault
  /\ feature = "worker_no_task" => RoutedToVersioned
  /\ feature = "while_polling" => RoutedToNewest
  /\ feature = "continues_as_new" => RoutedAsNew
  /\ feature = "activity_and_child" => RoutedToParts

LEMMA RoutedInit == Init => Routed
<1>. SUFFICES ASSUME Init PROVE Routed
  OBVIOUS
<1>1. /\ at = 0 /\ inbox = <<>> /\ wf.state = "none" /\ wf.pin = "none" /\ wf.part = 0
      /\ wf.began = "none"
      /\ rules.ramp = "none" /\ active.ramp = "none"
  BY DEF Init, NoWorkflow, NoRule
<1>. QED
  BY <1>1 DEF Routed, RoutedByPin, RoutedUnversioned, RoutedByOverride, RoutedToSecond, RoutedToDefault, RoutedToVersioned,
     RoutedToNewest, RoutedAsNew, RoutedToParts

LEMMA RoutedKept ==
  ASSUME Undisturbed, Routed, Next, result' = "none", timely'
  PROVE  Routed'
<1>1. feature' = feature
  BY Moves DEF given
<1>2. feature = "override" => RoutedByOverride'
  BY OverrideKept DEF Routed
<1>3. feature \in {"ramp", "auto_upgrade"} => RoutedToSecond'
  BY SecondKept DEF Routed
<1>4. feature = "appropriate_worker" => RoutedToDefault'
  BY DefaultKept DEF Routed
<1>5. feature = "worker_no_task" => RoutedToVersioned'
  BY VersionedKept DEF Routed
<1>6. feature = "while_polling" => RoutedToNewest'
  BY NewestKept DEF Routed
<1>7. feature = "continues_as_new" => RoutedAsNew'
  BY AsNewKept DEF Routed
<1>8. feature = "activity_and_child" => RoutedToParts'
  BY PartsKept DEF Routed
<1>9. feature = "pinned" => RoutedByPin'
  BY PinnedKept DEF Routed
<1>10. feature = "unversioned_task" => RoutedUnversioned'
  BY UnversionedKept DEF Routed
<1>. QED
  BY <1>1, <1>2, <1>3, <1>4, <1>5, <1>6, <1>7, <1>8, <1>9, <1>10 DEF Routed

LEMMA RoutedPasses ==
  ASSUME Undisturbed, Routed, Next, timely',
         feature \notin Racy \/ wf.began = FirstWorker(feature)
  PROVE  result' # "fail"
<1>1. feature \in Known
  BY FeatureKnown DEF Undisturbed
<1>2. CASE feature = "override"
  BY <1>2, OverridePasses DEF Routed
<1>3. CASE feature \in {"ramp", "auto_upgrade"}
  BY <1>3, SecondPasses DEF Routed
<1>4. CASE feature = "appropriate_worker"
  BY <1>4, DefaultPasses DEF Routed
<1>5. CASE feature = "worker_no_task"
  BY <1>5, VersionedPasses DEF Routed
<1>6. CASE feature = "while_polling"
  BY <1>6, NewestPasses DEF Routed
<1>7. CASE feature = "continues_as_new"
  BY <1>7, AsNewPasses DEF Routed
<1>8. CASE feature = "activity_and_child"
  BY <1>8, PartsPass DEF Routed
<1>9. CASE feature = "pinned"
  BY <1>9, PinnedPasses DEF Routed, Racy, FirstWorker
<1>10. CASE feature = "unversioned_task"
  BY <1>10, UnversionedPasses DEF Routed, Racy, FirstWorker
<1>. QED
  BY <1>1, <1>2, <1>3, <1>4, <1>5, <1>6, <1>7, <1>8, <1>9, <1>10
     DEF Known, Deployments, BuildIds

\* The invariant: a feature that is undecided is where Routed says.
Unalarmed ==
  /\ Inv /\ Foreign
  /\ result = "none" /\ RightServer /\ timely => Routed

\* When no time-out is too short, a server that routes rightly and says when
\* the routing has propagated fails no feature, but the two that do not wait
\* for their first task, and these only if another worker, or none, took it.
THEOREM NeverAlarmed == Spec => []NoFalseAlarm
<1>1. Init => Unalarmed /\ NoFalseAlarm
  <2>1. Init => Foreign /\ NoFalseAlarm
    BY DEF Init, Foreign, NoWorkflow, NoFalseAlarm
  <2>. QED
    BY <2>1, InvInit, RoutedInit DEF Unalarmed
<1>2. ASSUME Unalarmed, NoFalseAlarm, [Next]_vars
      PROVE  Unalarmed' /\ NoFalseAlarm'
  <2>1. Inv /\ Typed /\ Foreign /\ (result = "none" /\ RightServer /\ timely => Routed)
    BY <1>2 DEF Unalarmed, Inv
  <2>2. Inv' /\ Foreign' /\ (timely' => timely)
    BY <1>2, <2>1, InvStep, ForeignKept, TimelyBefore
  <2>3. CASE UNCHANGED vars
    <3>1. UNCHANGED given /\ UNCHANGED <<at, rules, active, wf, inbox, result, timely>>
      BY <2>3 DEF vars, given, routing
    <3>2. RightServer' <=> RightServer
      BY <3>1 DEF given, RightServer
    <3>3. Routed => Routed'
      BY <3>1 DEF given, Routed, RoutedByOverride, RoutedToSecond, RoutedToDefault,
         RoutedToVersioned, RoutedToNewest, RoutedAsNew, RoutedToParts, RoutedByPin,
         RoutedUnversioned, Awaits, Ended, Pending
    <3>4. NoFalseAlarm'
      BY <1>2, <3>1, <3>2 DEF NoFalseAlarm, RightServer, given
    <3>. QED
      BY <1>2, <2>2, <3>1, <3>2, <3>3, <3>4 DEF Unalarmed
  <2>4. CASE Next /\ result = "none"
    <3>1. UNCHANGED given
      BY <2>4, Moves, LastStep
    <3>2. RightServer' <=> RightServer
      BY <3>1 DEF given, RightServer
    <3>3. RightServer /\ timely' => Undisturbed /\ Routed
      BY <1>2, <2>2, <2>4 DEF Unalarmed, Inv, Undisturbed
    <3>4. result' = "none" /\ RightServer /\ timely' => Routed'
      BY <2>4, <3>3, RoutedKept
    <3>5. result' = "fail" => UNCHANGED wf
      BY <2>4, LastStep
    <3>6. RightServer /\ timely' /\ result' = "fail" =>
            feature \in Racy /\ wf.began # FirstWorker(feature)
      BY <2>4, <3>3, RoutedPasses
    <3>7. NoFalseAlarm'
      BY <3>1, <3>5, <3>6 DEF NoFalseAlarm, RightServer, given
    <3>. QED
      BY <2>2, <3>2, <3>4, <3>7 DEF Unalarmed
  <2>5. CASE ChecksHistory
    <3>1. result' \in {"pass", "error"}
      BY <2>5 DEF ChecksHistory
    <3>. QED
      BY <2>2, <3>1 DEF Unalarmed, NoFalseAlarm
  <2>. QED
    BY <1>2, <2>3, <2>4, <2>5, Decided
<1>. QED
  BY <1>1, <1>2, PTL DEF Spec
=============================================================================
