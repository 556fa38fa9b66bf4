---------------------------- MODULE ProgramBuilds ----------------------------
(***************************************************************************)
(* The programs of one language, built by package sdkbuild in directories  *)
(* that several processes share: `prepare`, which builds into a directory  *)
(* of a given name, `run`, which builds into a temporary directory of its  *)
(* own, and `run --prepared-dir`, which takes the directory of a prepare   *)
(* that may have failed, been killed or be still at work.                  *)
(*                                                                         *)
(* A builder is the sequence of its steps: what each writes or has a tool  *)
(* make, and what becomes of the build when it fails.  A directory holds   *)
(* what the steps made of it, and the SDK they had resolved.               *)
(***************************************************************************)
EXTENDS Integers, Sequences, FiniteSets

CONSTANTS
  Langs,     \* languages explored
  Kinds,     \* of versions: "default" (none given), releases, "path"
  Procs,     \* bound: processes, one command each
  Prepared   \* the directory of --dir and --prepared-dir

AllLangs == {"go", "java", "ts", "php", "py", "cs", "rb"}

ASSUME ProgramBuildsAssumption ==
  Langs \subseteq AllLangs /\ "none" \notin Kinds /\ Prepared \notin Procs

\* The prepared directory, and the temporary one of each process.
Places == {Prepared} \cup Procs

(***************************************************************************)
(* Steps of a builder.  "error" ends the build with that error, "ignored"  *)
(* goes on; leaves says that a tool that fails may have left its product.  *)
(***************************************************************************)
Step(x)     == [makes |-> x, resolves |-> FALSE, failure |-> "error", leaves |-> FALSE]
SDKStep(x)  == [Step(x) EXCEPT !.resolves = TRUE]
Tries(s)    == [s EXCEPT !.failure = "ignored"]
Leaving(s)  == [s EXCEPT !.leaves = TRUE]

GoBuild(k) ==
  <<SDKStep("go.mod"), Step("main.go"), Step("go.sum"), Step("program")>>

\* With a path the SDK is a project that settings.gradle includes.
JavaBuild(k, prepare) ==
  (IF k = "path" THEN <<Step("build.gradle"), SDKStep("settings.gradle")>>
                 ELSE <<SDKStep("build.gradle"), Step("settings.gradle")>>)
  \o IF prepare THEN <<Step("caches")>> ELSE <<>>

\* tsc emits what it can of a program with errors.
TypeScriptBuild(k) ==
  (IF k = "path" THEN <<Step("SDK's package.json"), Step("SDK's modules")>> ELSE <<>>)
  \o <<SDKStep("package.json"), Step("tsconfig.json"), Step("node_modules"),
       Leaving(Step("tslib"))>>

\* Mutant: the result of `composer req` is not looked at.
PhpBuildUnchecked(k) ==
  <<Step("composer.json"), Step(".rr.yaml")>>
  \o (IF k = "default" THEN <<SDKStep("vendor")>>
                       ELSE <<Tries(SDKStep("composer.lock")), Step("vendor")>>)
  \o <<Step("rr")>>

PhpBuild(k) ==
  <<Step("composer.json"), Step(".rr.yaml")>>
  \o (IF k = "default" THEN <<SDKStep("vendor")>>
                       ELSE <<SDKStep("composer.lock"), Step("vendor")>>)
  \o <<Step("rr")>>

\* `uv add` of the SDK and of the features package: nobody looks at the result.
PythonBuild(k) ==
  <<Step("pyproject.toml")>>
  \o (IF k = "path" THEN <<Step("SDK's wheel")>> ELSE <<>>)
  \o <<Tries(SDKStep("temporalio")), Tries(Step("features")), Step("uv.lock"),
       Step("mypy"), Step("__init__.py"), Step("types")>>

DotNetBuild(k) ==
  (IF k = "path" THEN <<Step("Temporalio.csproj"), Step("SDK's build")>> ELSE <<>>)
  \o <<Step("program.csproj"), Step("Program.cs"), SDKStep("build")>>

RubyBuild(k) ==
  (IF k = "path" THEN <<Step("temporalio.gemspec")>> ELSE <<>>)
  \o <<SDKStep("Gemfile"), Step(".bundle/config"), Step("vendor")>>
  \o (IF k = "path" THEN <<Step("SDK's extension")>> ELSE <<>>)

\* prepare has Java's caches primed; run does not.
Builder(l, k, prepare) ==
  CASE l = "go"   -> GoBuild(k)
    [] l = "java" -> JavaBuild(k, prepare)
    [] l = "ts"   -> TypeScriptBuild(k)
    [] l = "php"  -> PhpBuild(k)
    [] l = "py"   -> PythonBuild(k)
    [] l = "cs"   -> DotNetBuild(k)
    [] OTHER      -> RubyBuild(k)

(***************************************************************************)
(* Programs: what ...ProgramFromDir looks for in a directory, and what the  *)
(* command of NewCommand needs there to run the harness at all; gradle and  *)
(* uv make what else is missing when they run.                              *)
(***************************************************************************)
GoProgram         == [marker |-> "go.mod",         needs |-> {"program"}]
JavaProgram       == [marker |-> "build.gradle",   needs |-> {"build.gradle"}]
TypeScriptProgram == [marker |-> "package.json",   needs |-> {"node_modules", "tslib"}]
PhpProgram        == [marker |-> "composer.json",  needs |-> {"vendor", "rr"}]
PythonProgram     == [marker |-> "pyproject.toml", needs |-> {"features"}]
DotNetProgram     == [marker |-> "program.csproj", needs |-> {"build"}]
RubyProgram       == [marker |-> "Gemfile",        needs |-> {"vendor"}]

Program == [go |-> GoProgram, java |-> JavaProgram, ts |-> TypeScriptProgram,
            php |-> PhpProgram, py |-> PythonProgram, cs |-> DotNetProgram,
            rb |-> RubyProgram]

(***************************************************************************)
(* The version a builder is given when the command names none: that of the *)
(* package file of the repository or, where this names none either, the    *)
(* latest release.                                                         *)
(***************************************************************************)
TypeScriptVersion(k) == IF k = "default" THEN "package.json's" ELSE k
PythonVersion(k)     == IF k = "default" THEN "latest" ELSE k
RubyVersion(k)       == IF k = "default" THEN "latest" ELSE k

\* What the other builders are not given is what the harness asks for.
Version(l, k) ==
  CASE l = "ts" -> TypeScriptVersion(k)
    [] l = "py" -> PythonVersion(k)
    [] l = "rb" -> RubyVersion(k)
    [] OTHER    -> k

-----------------------------------------------------------------------------
VARIABLES
  lang,    \* the language; never changes
  pc,      \* process -> "idle", "build", "harness", "ended"
  cmd,     \* process -> "none", "prepare", "run", "runPrepared"
  kind,    \* process -> the version it was given
  disk     \* place -> the directory

vars == <<lang, pc, cmd, kind, disk>>

\* asked and passed: the version of the build that goes on in it, or went on, and
\* the steps of it that passed.
NoDir  == [there |-> FALSE, have |-> {}, sdk |-> "none", asked |-> "none", passed |-> 0]
NewDir(k) == [NoDir EXCEPT !.there = TRUE, !.asked = k]

Init ==
  /\ lang \in Langs
  /\ pc = [p \in Procs |-> "idle"] /\ cmd = [p \in Procs |-> "none"]
  /\ kind \in [Procs -> Kinds]
  /\ disk = [d \in Places |-> NoDir]

Place(p) == IF cmd[p] = "run" THEN p ELSE Prepared
Steps(p) == Builder(lang, kind[p], cmd[p] = "prepare")
NextStep(p) == Steps(p)[disk[Place(p)].passed + 1]
AllPassed(p) == disk[Place(p)].passed = Len(Steps(p))

Ends(p) == pc' = [pc EXCEPT ![p] = "ended"]

\* Mutant: Prepare takes the directory as it is.
MkdirAnyway == TRUE

Mkdir == ~disk[Prepared].there

(***************************************************************************)
(* Prepare: os.Mkdir refuses a directory that exists.                      *)
(***************************************************************************)
Prepares(p) ==
  /\ pc[p] = "idle" /\ cmd' = [cmd EXCEPT ![p] = "prepare"]
  /\ IF Mkdir
       THEN /\ disk' = [disk EXCEPT ![Prepared] =
                          [NewDir(kind[p]) EXCEPT !.have = disk[Prepared].have,
                                                  !.sdk = disk[Prepared].sdk]]
            /\ pc' = [pc EXCEPT ![p] = "build"]
       ELSE Ends(p) /\ UNCHANGED disk
  /\ UNCHANGED <<lang, kind>>

\* Run without --prepared-dir: the program is nil, the builder makes its directory.
Runs(p) ==
  /\ pc[p] = "idle" /\ cmd' = [cmd EXCEPT ![p] = "run"]
  /\ disk' = [disk EXCEPT ![p] = NewDir(kind[p])]
  /\ pc' = [pc EXCEPT ![p] = "build"]
  /\ UNCHANGED <<lang, kind>>

CanRun(d) == disk[d].there /\ Program[lang].needs \subseteq disk[d].have

\* Run --prepared-dir: FromDir looks for the marker, NewCommand for nothing.
RunsPrepared(p) ==
  /\ pc[p] = "idle" /\ cmd' = [cmd EXCEPT ![p] = "runPrepared"]
  /\ IF Program[lang].marker \in disk[Prepared].have /\ CanRun(Prepared)
       THEN pc' = [pc EXCEPT ![p] = "harness"]
       ELSE Ends(p)
  /\ UNCHANGED <<lang, kind, disk>>

\* Directory r after step s of a build for version v.
DirAfter(r, s, v) ==
  [r EXCEPT !.have = @ \cup {s.makes}, !.sdk = IF s.resolves THEN v ELSE @, !.passed = @ + 1]

StepPasses(p) ==
  /\ pc[p] = "build" /\ ~AllPassed(p)
  /\ disk' = [disk EXCEPT ![Place(p)] = DirAfter(@, NextStep(p), Version(lang, kind[p]))]
  /\ UNCHANGED <<lang, pc, cmd, kind>>

StepIgnored(p) ==
  /\ pc[p] = "build" /\ ~AllPassed(p) /\ NextStep(p).failure = "ignored"
  /\ disk' = [disk EXCEPT ![Place(p)].passed = @ + 1]
  /\ UNCHANGED <<lang, pc, cmd, kind>>

\* Mutant: the directory goes, what is known of it stays.
RemovedByName(d) == [disk[d] EXCEPT !.there = FALSE]

Removed(d) == NoDir

(***************************************************************************)
(* A build that fails removes the temporary directory it made (not PHP's), *)
(* never the one it was given.                                             *)
(***************************************************************************)
StepFails(p) ==
  /\ pc[p] = "build" /\ ~AllPassed(p) /\ NextStep(p).failure = "error"
  /\ IF cmd[p] = "run" /\ lang # "php"
       THEN disk' = [disk EXCEPT ![p] = Removed(p)]
       ELSE \/ UNCHANGED disk
            \/ /\ NextStep(p).leaves
               /\ disk' = [disk EXCEPT ![Place(p)].have = @ \cup {NextStep(p).makes}]
  /\ Ends(p)
  /\ UNCHANGED <<lang, cmd, kind>>

BuildReturns(p) ==
  /\ pc[p] = "build" /\ AllPassed(p)
  /\ IF cmd[p] = "run" /\ CanRun(p) THEN pc' = [pc EXCEPT ![p] = "harness"]
     ELSE Ends(p)
  /\ disk' = IF cmd[p] = "run" /\ ~CanRun(p) THEN [disk EXCEPT ![p] = Removed(p)]
             ELSE disk
  /\ UNCHANGED <<lang, cmd, kind>>

\* The harness has ended: destroyTempDir, only without --prepared-dir.
HarnessEnds(p) ==
  /\ pc[p] = "harness"
  /\ disk' = IF cmd[p] = "run" THEN [disk EXCEPT ![p] = Removed(p)] ELSE disk
  /\ Ends(p)
  /\ UNCHANGED <<lang, cmd, kind>>

\* The process is killed, or the machine stops: nothing is cleaned up.
Killed(p) ==
  /\ pc[p] \in {"build", "harness"}
  /\ Ends(p)
  /\ UNCHANGED <<lang, cmd, kind, disk>>

Next == \E p \in Procs :
  \/ Prepares(p) \/ Runs(p) \/ RunsPrepared(p)
  \/ StepPasses(p) \/ StepIgnored(p) \/ StepFails(p)
  \/ BuildReturns(p) \/ HarnessEnds(p) \/ Killed(p)

Spec == Init /\ [][Next]_vars

-----------------------------------------------------------------------------
\* Type invariant: a directory that is not there holds nothing, and no directory has
\* passed more steps than its builder makes.
TypeOK ==
  /\ pc \in [Procs -> {"idle", "build", "harness", "ended"}]
  /\ cmd \in [Procs -> {"none", "prepare", "run", "runPrepared"}]
  /\ \A d \in Places :
       /\ ~disk[d].there => disk[d] = NoDir
       /\ disk[d].asked \in Kinds \cup {"none"}
       /\ disk[d].sdk \in {"none", Version(lang, disk[d].asked)}
       /\ disk[d].there =>
            disk[d].passed \in 0..Len(Builder(lang, disk[d].asked, d = Prepared))

RunsAsked(p) ==
  pc[p] = "harness" => disk[Place(p)].sdk = Version(lang, disk[Place(p)].asked)

\* A harness runs against the SDK that was asked for, of its own build or of the
\* prepare of the directory it is given, though the marker FromDir looks for is the
\* first thing a prepare writes and prepares compete for one name.  Python ignores
\* that the SDK could not be added, and a Java directory by path that was killed
\* before settings.gradle resolves any release; both are left out.
RunsAskedSDK == \A p \in Procs : lang \notin {"py", "java"} => RunsAsked(p)

\* A prepare that failed, was killed or is still at work gives no harness that runs:
\* for Go, .NET and PHP, and for Ruby unless the SDK is a path, what NewCommand needs
\* is made by the last step.
HalfBuiltNeverRuns ==
  \A p \in Procs :
    LET d == disk[Place(p)] IN
    /\ pc[p] = "harness"
    /\ lang \in {"go", "cs", "php"} \/ (lang = "rb" /\ d.asked # "path")
    => d.passed = Len(Builder(lang, d.asked, TRUE))

\* "Otherwise it is a specific version (with leading "v" trimmed if present)."
\* (sdkbuild/python.go:21): a Python harness that a build of its own made runs
\* against the version given.
RequestedSDK ==
  \A p \in Procs : lang = "py" /\ cmd[p] = "run" => RunsAsked(p)

=============================================================================
