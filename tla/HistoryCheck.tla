----------------------------- MODULE HistoryCheck -----------------------------
(***************************************************************************)
(* The histories of one feature, over several runs of the runner: the      *)
(* workflow executions a run starts on the server, what visibility shows   *)
(* of them, the Fetcher that polls visibility (history/fetcher.go), the    *)
(* replay check of the Go harness (Runner.CheckHistoryDefault), the check  *)
(* and generation of the runner (handleSingleHistory, cmd/run.go), and the *)
(* files history.<lang>.<version>.json of one language that outlive runs   *)
(* (history/storage.go).                                                   *)
(*                                                                         *)
(* Abstracted: a history is the record of what tells two of them apart     *)
(* once the fields of a run are scrubbed (type, input, revision of the     *)
(* workflow's code), the run it is of, and whether it is whole.            *)
(***************************************************************************)
EXTENDS Integers, FiniteSets, Sequences

CONSTANTS
  NumExecs,    \* executions a run of the feature starts
  NumTypes,    \* workflow types, ordered as their names are
  Inputs,      \* what two executions of one type may differ in
  Features,    \* the features explored: type and input of every execution
  Revisions,   \* revisions of the workflow code
  Replayable,  \* <<r, s>>: a history of revision r replays on code of revision s
  Versions,    \* SDK versions, ordered (semver)
  MaxRuns,     \* bound: runs of the runner
  MaxPolls,    \* bound: listings that fit in the five seconds of a Fetch
  MaxRepeats   \* bound: rows of one listing that repeat an execution

ASSUME HistoryAssumption ==
  /\ NumExecs \in Nat \ {0} /\ NumTypes \in Nat \ {0}
  /\ Features \subseteq [type : [1..NumExecs -> 1..NumTypes],
                          input : [1..NumExecs -> Inputs]]
  /\ Versions \subseteq Nat
  /\ Replayable \subseteq Revisions \X Revisions
  /\ MaxRuns \in Nat /\ MaxPolls \in Nat \ {0} /\ MaxRepeats \in Nat

Execs == 1..NumExecs    \* 1 is the one whose result the feature waits for
Types == 1..NumTypes

Histories ==
  [type : Types, input : Inputs, rev : Revisions, run : 0..MaxRuns, whole : BOOLEAN]

VARIABLES
  feature,      \* type and input of every execution; never changes
  code,         \* revision of each workflow type's code in this run
  files,        \* state of each stored file: "absent", "stored" or "torn"
  kept,         \* what it holds
  run, conf,    \* this run: its number, its flags and version
  open,         \* executions not closed yet
  vis,          \* what visibility shows of every execution
  pc, who,      \* where the run is; who fetches, "harness" or "runner"
  due,          \* executions visibility showed when the listing began
  rows,         \* the listing so far
  repeats,      \* rows of it that named an execution again
  polls,        \* listings of this Fetch
  fetched,      \* the histories Fetch returned
  result        \* of the run, or of the one before while none is under way

fileVars    == <<files, kept>>
serverVars  == <<open, vis>>
listVars    == <<due, rows, repeats, polls>>
vars == <<feature, code, fileVars, run, conf, serverVars, pc, who, listVars,
          fetched, result>>

FeatureTypes == {feature.type[e] : e \in Execs}

\* --generate-history, --no-history-check, and whether the harness is Go and the
\* feature keeps its default history check.
Confs == [version : Versions, generate : BOOLEAN, disable : BOOLEAN, replay : BOOLEAN]

Init ==
  /\ feature \in Features
  /\ code \in [FeatureTypes -> Revisions]
  /\ files = [v \in Versions |-> "absent"] /\ kept = [v \in Versions |-> <<>>]
  /\ run = 0 /\ conf \in Confs
  /\ open = {} /\ vis = [e \in Execs |-> "absent"]
  /\ pc = "idle" /\ who = "runner"
  /\ due = {} /\ rows = <<>> /\ repeats = 0 /\ polls = 0
  /\ fetched = <<>> /\ result = "none"

(***************************************************************************)
(* A run starts its executions; their task queue is new, so the query of   *)
(* GetExecutions finds those of this run only.  Between two runs the code  *)
(* of the workflows and the SDK may have changed.                          *)
(***************************************************************************)
RunStarts ==
  /\ pc = "idle" /\ run < MaxRuns
  /\ run' = run + 1 /\ conf' \in Confs
  /\ code' \in [FeatureTypes -> Revisions]
  /\ open' = Execs /\ vis' = [e \in Execs |-> "absent"]
  /\ pc' = "feature" /\ polls' = 0 /\ fetched' = <<>> /\ result' = "none"
  /\ UNCHANGED <<feature, fileVars, who, due, rows, repeats>>

\* Mutant: the time of one Fetch counts for the next one.
FetchForgottenButTime ==
  due' = {} /\ rows' = <<>> /\ repeats' = 0 /\ UNCHANGED polls

\* Fetch returned: its locals are gone.
FetchForgotten == due' = {} /\ rows' = <<>> /\ repeats' = 0 /\ polls' = 0

\* The run returns; with its task queue the server's state is of no interest.
Returns(r) ==
  /\ pc' = "idle" /\ who' = "runner" /\ result' = r
  /\ FetchForgotten
  /\ open' = {} /\ vis' = [e \in Execs |-> "absent"]

GoesOn(p) == pc' = p /\ UNCHANGED <<serverVars, who, listVars, result>>

(***************************************************************************)
(* The server.  An execution closes on its own; visibility is written      *)
(* later, execution by execution, and never goes back.  Nobody looks at    *)
(* either while histories are replayed, compared or stored.                *)
(***************************************************************************)
ServerMatters == pc \in {"feature", "load", "poll", "list", "fetch"}

ExecutionCloses(e) ==
  /\ ServerMatters /\ e \in open
  /\ open' = open \ {e}
  /\ UNCHANGED <<feature, code, fileVars, run, conf, vis, pc, who, listVars,
                 fetched, result>>

VisibilityOf(e) == IF e \in open THEN "running" ELSE "closed"

VisibilityCatchesUp(e) ==
  /\ ServerMatters /\ vis[e] # VisibilityOf(e)
  /\ vis' = [vis EXCEPT ![e] = VisibilityOf(e)]
  /\ UNCHANGED <<feature, code, fileVars, run, conf, open, pc, who, listVars,
                 fetched, result>>

(***************************************************************************)
(* The harness has the result of the execution it waited for; the others   *)
(* may still be open.  Then the default check of a Go feature fetches.     *)
(***************************************************************************)
FeatureChecked ==
  /\ pc = "feature" /\ 1 \notin open
  /\ IF conf.replay THEN pc' = "poll" /\ who' = "harness"
                    ELSE pc' = "load" /\ who' = "runner"
  /\ UNCHANGED <<feature, code, fileVars, run, conf, serverVars, listVars,
                 fetched, result>>

Stored == {v \in Versions : files[v] = "stored"}

\* Mutant: a file that does not parse is stepped over.
UnreadableSkipped == FALSE

Unreadable == \E v \in Versions : files[v] = "torn"

NothingToDo == ~conf.generate /\ (conf.disable \/ Stored = {})

\* handleSingleHistory up to the Fetch: Load, then nothing to do, or fetch.
LoadAll ==
  /\ pc = "load"
  /\ \/ Unreadable /\ Returns("error")
     \/ ~Unreadable /\ NothingToDo /\ Returns("skipped")
     \/ ~Unreadable /\ ~NothingToDo /\ GoesOn("poll")
  /\ UNCHANGED <<feature, code, fileVars, run, conf, fetched>>

(***************************************************************************)
(* Fetcher.Fetch and GetExecutions.  The rows of a listing come page by    *)
(* page while visibility moves on, so an execution may come twice, with    *)
(* another status; the row that came first is kept.                        *)
(***************************************************************************)
Row == [exec : Execs, status : {"running", "closed"}]
ListedExecs == {rows[i].exec : i \in DOMAIN rows}

ListingStarts ==
  /\ pc = "poll"
  /\ due' = {e \in Execs : vis[e] # "absent"} /\ rows' = <<>> /\ repeats' = 0
  /\ polls' = polls + 1 /\ pc' = "list"
  /\ UNCHANGED <<feature, code, fileVars, run, conf, serverVars, who, fetched,
                 result>>

KeepRow(e) ==
  rows' = IF e \in ListedExecs THEN rows
          ELSE Append(rows, [exec |-> e, status |-> vis[e]])

RowArrives(e) ==
  /\ pc = "list" /\ vis[e] # "absent" /\ (e \notin ListedExecs \/ repeats < MaxRepeats)
  /\ KeepRow(e)
  /\ repeats' = IF e \in ListedExecs THEN repeats + 1 ELSE repeats
  /\ UNCHANGED <<feature, code, fileVars, run, conf, serverVars, pc, who, due,
                 polls, fetched, result>>

StillRunning == \E i \in DOMAIN rows : rows[i].status = "running"

\* Mutant: one execution listed is enough, whatever its status.
AnyListed == rows # <<>>

AllClosed == rows # <<>> /\ ~StillRunning

\* No page is left: what was visible when the listing began has come.
ListingComplete == due \subseteq ListedExecs

\* An accepted listing ends the polling; after another one the five seconds
\* may be over or not.
ListingEnds ==
  /\ pc = "list" /\ ListingComplete
  /\ \/ AllClosed /\ GoesOn("fetch")
     \/ ~AllClosed /\ polls < MaxPolls /\ GoesOn("poll")
     \/ ~AllClosed /\ Returns("error")
  /\ UNCHANGED <<feature, code, fileVars, run, conf, fetched>>

\* ListWorkflow or GetWorkflowHistory fails.
ServerFails ==
  /\ pc \in {"list", "fetch"} /\ Returns("error")
  /\ UNCHANGED <<feature, code, fileVars, run, conf, fetched>>

HistoryOf(e) ==
  [type |-> feature.type[e], input |-> feature.input[e],
   rev |-> code[feature.type[e]], run |-> run, whole |-> e \notin open]

(***************************************************************************)
(* Histories.Sort sorts by the name of the workflow type only.  sort.Slice *)
(* promises no order among equals, but sorts up to twelve elements by      *)
(* insertion, which keeps theirs: the order of the listing.                *)
(***************************************************************************)
Sorted(order) ==
  \A i, j \in DOMAIN rows : i < j =>
    LET a == feature.type[rows[order[i]].exec]  b == feature.type[rows[order[j]].exec]
    IN  a < b \/ (a = b /\ order[i] < order[j])

Fetched ==
  /\ pc = "fetch"
  /\ \E order \in [DOMAIN rows -> DOMAIN rows] :
       /\ Sorted(order)
       /\ fetched' = [i \in DOMAIN rows |-> HistoryOf(rows[order[i]].exec)]
  /\ GoesOn(IF who = "harness" THEN "replay" ELSE "compare")
  /\ UNCHANGED <<feature, code, fileVars, run, conf>>

(***************************************************************************)
(* The rest of CheckHistoryDefault: the histories just fetched replay on   *)
(* the code that made them; then those of every version up to the SDK's.   *)
(***************************************************************************)
Replays(h) == <<h.rev, code[h.type]>> \in Replayable

\* Mutant: histories of this very version are taken for later ones.
ReplayedVersionsBefore == {v \in Stored : v < conf.version}

ReplayedVersions == {v \in Stored : v <= conf.version}

AllReplay ==
  /\ \A i \in DOMAIN fetched : Replays(fetched[i])
  /\ ~Unreadable
  /\ \A v \in ReplayedVersions : \A i \in DOMAIN kept[v] : Replays(kept[v][i])

ReplayHistories ==
  /\ pc = "replay"
  /\ \/ /\ AllReplay
        /\ pc' = "load" /\ who' = "runner" /\ FetchForgotten
        /\ UNCHANGED <<serverVars, result>>
     \/ ~AllReplay /\ Returns("error")
  /\ UNCHANGED <<feature, code, fileVars, run, conf, fetched>>

(***************************************************************************)
(* The rest of handleSingleHistory.  Both sides are scrubbed of what is    *)
(* particular to a run, then compared history by history, in order, with   *)
(* every stored version, the one about to be generated included.           *)
(***************************************************************************)
\* Mutant: run IDs and identities are left in.
ScrubNothing(h) == h

ScrubRunSpecificFields(h) == [h EXCEPT !.run = 0]

Scrubbed(hs) == [i \in DOMAIN hs |-> ScrubRunSpecificFields(hs[i])]

\* Mutant: the version that is generated is not compared.
ComparedVersionsOthers ==
  IF conf.disable THEN {}
  ELSE IF conf.generate THEN Stored \ {conf.version} ELSE Stored

ComparedVersions == IF conf.disable THEN {} ELSE Stored

Differs == \E v \in ComparedVersions : Scrubbed(kept[v]) # Scrubbed(fetched)

Compare ==
  /\ pc = "compare"
  /\ \/ Differs /\ Returns("mismatch")
     \/ ~Differs /\ conf.generate /\ GoesOn("store")
     \/ ~Differs /\ ~conf.generate /\ Returns("ok")
  /\ UNCHANGED <<feature, code, fileVars, run, conf, fetched>>

(***************************************************************************)
(* Storage.Store: os.WriteFile truncates the file, then writes it.         *)
(***************************************************************************)
StoreTruncates ==
  /\ pc = "store" /\ GoesOn("write")
  /\ files' = [files EXCEPT ![conf.version] = "torn"]
  /\ kept' = [kept EXCEPT ![conf.version] = <<>>]
  /\ UNCHANGED <<feature, code, run, conf, fetched>>

StoreWrites ==
  /\ pc = "write" /\ Returns("ok")
  /\ files' = [files EXCEPT ![conf.version] = "stored"]
  /\ kept' = [kept EXCEPT ![conf.version] = fetched]
  /\ UNCHANGED <<feature, code, run, conf, fetched>>

\* SIGINT or SIGTERM: the process exits where it is.
Killed ==
  /\ pc # "idle" /\ Returns("killed")
  /\ UNCHANGED <<feature, code, fileVars, run, conf, fetched>>

Next ==
  \/ RunStarts \/ FeatureChecked \/ LoadAll
  \/ ListingStarts \/ ListingEnds \/ ServerFails \/ Fetched
  \/ ReplayHistories \/ Compare \/ StoreTruncates \/ StoreWrites \/ Killed
  \/ \E e \in Execs :
       ExecutionCloses(e) \/ VisibilityCatchesUp(e) \/ RowArrives(e)

Spec == Init /\ [][Next]_vars

-------------------------------------------------------------------------------
(* Properties *)

\* Types of the state of a feature's histories: the files, the server, the
\* fetch and the run's position, within the bounds of runs and listings.
TypeOK ==
  /\ feature \in Features
  /\ code \in [FeatureTypes -> Revisions]
  /\ files \in [Versions -> {"absent", "stored", "torn"}]
  /\ kept \in [Versions -> Seq(Histories)]
  /\ run \in 0..MaxRuns /\ conf \in Confs
  /\ open \subseteq Execs /\ vis \in [Execs -> {"absent", "running", "closed"}]
  /\ pc \in {"idle", "feature", "load", "poll", "list", "fetch", "replay", "compare",
             "store", "write"}
  /\ who \in {"harness", "runner"}
  /\ due \subseteq Execs /\ rows \in Seq(Row) /\ repeats \in 0..MaxRepeats
  /\ polls \in 0..MaxPolls /\ fetched \in Seq(Histories)
  /\ result \in {"none", "ok", "skipped", "error", "mismatch", "killed"}

\* "Try until there are no open executions" (fetcher.go:28): no history that
\* was fetched, compared or stored is one of an execution still open, however
\* visibility lags behind the server between and during listings; and a fetch
\* returns every execution visibility had shown when its last listing began,
\* each once, though rows come twice over the pages.
OnlyWholeHistories ==
  /\ \A i \in DOMAIN fetched : fetched[i].whole
  /\ \A v \in Versions : \A i \in DOMAIN kept[v] : kept[v][i].whole
  /\ pc \in {"replay", "compare", "store", "write"} =>
       /\ Len(fetched) = Cardinality(ListedExecs)
       /\ due \subseteq ListedExecs

\* What the check can tell.  If executions of one type are alike (the sort by
\* type then leaves no doubt which is compared with which), and all of them
\* were fetched now and whenever a file was stored, a mismatch is reported only
\* if a workflow's code differs from that of a stored history, and success only
\* if none does.
Conclusive ==
  /\ \A d, e \in Execs :
       feature.type[d] = feature.type[e] => feature.input[d] = feature.input[e]
  /\ Len(fetched) = NumExecs /\ \A v \in Stored : Len(kept[v]) = NumExecs

CodeUnchanged ==
  \A v \in Stored : \A i \in DOMAIN kept[v] : kept[v][i].rev = code[kept[v][i].type]

VerdictIsRight ==
  Conclusive /\ ~conf.disable =>
    /\ result = "mismatch" => ~CodeUnchanged
    /\ result = "ok" => CodeUnchanged

\* "It also replays all other histories for versions <= the current SDK
\* version" (runner.go:215): past the harness's check, and until the next
\* run, every such file replays on the code of this run.
OldHistoriesReplay ==
  /\ conf.replay /\ who = "runner"
  /\ pc \in {"load", "poll", "list", "fetch", "compare", "store"}
  => \A v \in Versions : v <= conf.version =>
       \A i \in DOMAIN kept[v] : <<kept[v][i].rev, code[kept[v][i].type]>> \in Replayable

\* A file torn by a process that was stopped while writing is never taken
\* for a stored set, nor stepped over: no run passes over it.
TornNeverPasses ==
  result \in {"ok", "skipped"} => \A v \in Versions : files[v] # "torn"

\* A generation under the check replaces nothing: it adds a version, or writes
\* the same histories again.  To store changed ones takes --no-history-check.
GenerationUnderCheckChangesNothing ==
  [][\A v \in Versions : kept'[v] # kept[v] /\ files[v] = "stored" /\ ~conf.disable
       => Scrubbed(kept[v]) = Scrubbed(fetched)]_vars
===============================================================================
