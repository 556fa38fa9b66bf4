------------------------- MODULE HistoryCheck_proofs -------------------------
(***************************************************************************)
(* Proofs about HistoryCheck, for any number of executions, runs, listings *)
(* and versions, any features and any relation of what replays on what.    *)
(*                                                                         *)
(* The properties speak of what was fetched or stored.  What makes them    *)
(* true came earlier: visibility never shows a close that did not happen,  *)
(* a listing keeps one row of an execution, and between two places of a    *)
(* run nothing changes what was found out at the first.                    *)
(***************************************************************************)
EXTENDS HistoryCheck, FiniteSetTheorems, FunctionTheorems, SequenceTheorems, TLAPS

-----------------------------------------------------------------------------
(* The inductive invariant *)

Fetching == {"poll", "list", "fetch"}
Later    == {"replay", "compare", "store", "write"}

\* Who fetches, that a run under way has no result yet, and that a listing
\* begins only while there is time for it.
Places ==
  /\ pc \in {"idle", "feature", "load"} => polls = 0
  /\ pc = "poll" => polls < MaxPolls
  /\ pc \in {"idle", "feature", "load", "compare", "store", "write"} => who = "runner"
  /\ pc = "replay" => who = "harness"
  /\ pc # "idle" => result = "none"

\* What visibility shows of the server, and the listing of visibility.
Listing ==
  /\ \A e \in Execs : vis[e] = "closed" => e \notin open
  /\ pc \in {"idle", "feature", "load"} => rows = <<>>
  /\ \A i \in 1..Len(rows) : rows[i].status = "closed" => rows[i].exec \notin open
  /\ \A i, j \in 1..Len(rows) : rows[i].exec = rows[j].exec => i = j
  /\ pc \in {"fetch"} \cup Later =>
       /\ due \subseteq ListedExecs
       /\ \A i \in 1..Len(rows) : rows[i].status = "closed"
  /\ pc \in Later => Len(fetched) = Len(rows)

\* Histories fetched and stored are of closed executions.
Whole ==
  /\ \A i \in 1..Len(fetched) : fetched[i].whole
  /\ \A v \in Versions : \A i \in 1..Len(kept[v]) : kept[v][i].whole

\* Only the file being written is torn once the files were loaded.
Untorn ==
  /\ \A v \in Versions : files[v] # "stored" => kept[v] = <<>>
  /\ (pc \in Fetching /\ who = "runner") \/ pc \in {"compare", "store"} => ~Unreadable
  /\ pc = "write" => \A v \in Versions : files[v] = "torn" <=> v = conf.version
  /\ pc = "store" => ~Differs

IInv ==
  TypeOK /\ Places /\ Listing /\ Whole /\ Untorn /\ OldHistoriesReplay /\ TornNeverPasses

-----------------------------------------------------------------------------
(* Types *)

\* The history of an execution is a history.
LEMMA HistoryTyped ==
  ASSUME TypeOK, NEW e \in Execs
  PROVE  HistoryOf(e) \in Histories
<1>1. feature.type[e] \in Types /\ feature.input[e] \in Inputs
  BY HistoryAssumption DEF TypeOK, Execs, Types
<1>2. code[feature.type[e]] \in Revisions
  BY DEF TypeOK, FeatureTypes
<1>. QED  BY <1>1, <1>2 DEF HistoryOf, Histories, TypeOK

\* What Fetch returns: a history of a listed execution for every row.
LEMMA FetchedTyped ==
  ASSUME TypeOK, Fetched
  PROVE  /\ fetched' \in Seq(Histories) /\ Len(fetched') = Len(rows)
         /\ \A i \in 1..Len(fetched') : \E k \in 1..Len(rows) :
               fetched'[i] = HistoryOf(rows[k].exec)
<1>1. DOMAIN rows = 1..Len(rows) /\ Len(rows) \in Nat
  BY LenProperties DEF TypeOK
<1>2. PICK order \in [DOMAIN rows -> DOMAIN rows] :
        fetched' = [i \in DOMAIN rows |-> HistoryOf(rows[order[i]].exec)]
  BY DEF Fetched
<1>3. ASSUME NEW i \in DOMAIN rows PROVE rows[order[i]].exec \in Execs
  <2>1. order[i] \in 1..Len(rows)
    BY <1>1
  <2>2. rows[order[i]] \in Row
    BY <2>1, ElementOfSeq DEF TypeOK
  <2>. QED  BY <2>2 DEF Row
<1>4. \A i \in DOMAIN rows : HistoryOf(rows[order[i]].exec) \in Histories
  BY <1>3, HistoryTyped
<1>5. fetched' \in [1..Len(rows) -> Histories]
  BY <1>1, <1>2, <1>4
<1>6. fetched' \in Seq(Histories)
  BY <1>1, <1>5, SeqDef
<1>7. Len(fetched') = Len(rows)
  BY <1>1, <1>5, <1>6, LenProperties
<1>8. ASSUME NEW i \in 1..Len(fetched')
      PROVE  \E k \in 1..Len(rows) : fetched'[i] = HistoryOf(rows[k].exec)
  <2>1. order[i] \in 1..Len(rows) /\ fetched'[i] = HistoryOf(rows[order[i]].exec)
    BY <1>1, <1>2, <1>7
  <2>. QED  BY <2>1
<1>. QED  BY <1>6, <1>7, <1>8

\* The row kept of an execution is one visibility shows.
LEMMA RowTyped ==
  ASSUME TypeOK, NEW e \in Execs, RowArrives(e)
  PROVE  /\ rows' \in Seq(Row)
         /\ \/ e \in ListedExecs /\ rows' = rows
            \/ /\ e \notin ListedExecs
               /\ rows' = Append(rows, [exec |-> e, status |-> vis[e]])
<1>1. [exec |-> e, status |-> vis[e]] \in Row
  BY DEF RowArrives, TypeOK, Row
<1>2. rows' = IF e \in ListedExecs THEN rows
              ELSE Append(rows, [exec |-> e, status |-> vis[e]])
  BY DEF RowArrives, KeepRow
<1>. QED  BY <1>1, <1>2 DEF TypeOK

LEMMA TypeInit == Init => TypeOK
<1>. SUFFICES ASSUME Init PROVE TypeOK
  OBVIOUS
<1>1. feature \in Features /\ code \in [FeatureTypes -> Revisions] /\ conf \in Confs
  BY DEF Init
<1>2. files \in [Versions -> {"absent", "stored", "torn"}]
  BY DEF Init
<1>3. kept \in [Versions -> Seq(Histories)]
  BY EmptySeq DEF Init
<1>4. rows \in Seq(Row) /\ fetched \in Seq(Histories)
  BY EmptySeq DEF Init
<1>5. run \in 0..MaxRuns /\ repeats \in 0..MaxRepeats /\ polls \in 0..MaxPolls
  BY HistoryAssumption DEF Init
<1>6. open \subseteq Execs /\ vis \in [Execs -> {"absent", "running", "closed"}]
      /\ due \subseteq Execs
  BY DEF Init
<1>. QED  BY <1>1, <1>2, <1>3, <1>4, <1>5, <1>6 DEF Init, TypeOK

\* A return leaves the server and the fetch with their types.
LEMMA ReturnTyped ==
  ASSUME NEW r, Returns(r)
  PROVE  /\ open' = {} /\ vis' = [e \in Execs |-> "absent"] /\ pc' = "idle"
         /\ who' = "runner" /\ result' = r
         /\ due' = {} /\ rows' = <<>> /\ repeats' = 0 /\ polls' = 0
         /\ vis' \in [Execs -> {"absent", "running", "closed"}]
         /\ rows' \in Seq(Row)
         /\ repeats' \in 0..MaxRepeats /\ polls' \in 0..MaxPolls
<1>1. rows' = <<>> /\ repeats' = 0 /\ polls' = 0
  BY DEF Returns, FetchForgotten
<1>2. rows' \in Seq(Row)
  BY <1>1, EmptySeq
<1>3. repeats' \in 0..MaxRepeats /\ polls' \in 0..MaxPolls
  BY <1>1, HistoryAssumption
<1>. QED  BY <1>1, <1>2, <1>3 DEF Returns, FetchForgotten

LEMMA TypesKept ==
  ASSUME TypeOK, Places, [Next]_vars
  PROVE  TypeOK'
<1>. USE DEF TypeOK
<1>f. feature' = feature => FeatureTypes' = FeatureTypes
  BY DEF FeatureTypes
<1>1. CASE RunStarts
  <2>1. code' \in [FeatureTypes' -> Revisions] /\ conf' \in Confs
    BY <1>1, <1>f DEF RunStarts, Confs
  <2>2. run' \in 0..MaxRuns /\ polls' \in 0..MaxPolls
    BY <1>1, HistoryAssumption DEF RunStarts
  <2>3. fetched' \in Seq(Histories)
    BY <1>1, EmptySeq DEF RunStarts
  <2>4. open' \subseteq Execs /\ vis' \in [Execs -> {"absent", "running", "closed"}]
    BY <1>1 DEF RunStarts
  <2>. QED  BY <1>1, <2>1, <2>2, <2>3, <2>4 DEF RunStarts, fileVars
<1>2. CASE FeatureChecked
  BY <1>2, <1>f DEF FeatureChecked, fileVars, serverVars, listVars
<1>3. CASE LoadAll
  <2>1. CASE Unreadable /\ Returns("error")
    BY <1>3, <1>f, <2>1, ReturnTyped DEF LoadAll, fileVars
  <2>2. CASE ~Unreadable /\ NothingToDo /\ Returns("skipped")
    BY <1>3, <1>f, <2>2, ReturnTyped DEF LoadAll, fileVars
  <2>3. CASE GoesOn("poll")
    BY <1>3, <1>f, <2>3 DEF LoadAll, GoesOn, fileVars, serverVars, listVars
  <2>. QED  BY <1>3, <2>1, <2>2, <2>3 DEF LoadAll
<1>4. CASE ListingStarts
  <2>1. rows' \in Seq(Row) /\ repeats' \in 0..MaxRepeats
    BY <1>4, EmptySeq, HistoryAssumption DEF ListingStarts
  <2>2. polls' \in 0..MaxPolls
    BY <1>4, HistoryAssumption DEF ListingStarts, Places
  <2>. QED  BY <1>4, <1>f, <2>1, <2>2 DEF ListingStarts, fileVars, serverVars
<1>5. CASE ListingEnds
  <2>1. CASE Returns("error")
    BY <1>5, <1>f, <2>1, ReturnTyped DEF ListingEnds, fileVars
  <2>2. CASE GoesOn("fetch") \/ GoesOn("poll")
    BY <1>5, <1>f, <2>2 DEF ListingEnds, GoesOn, fileVars, serverVars, listVars
  <2>. QED  BY <1>5, <2>1, <2>2 DEF ListingEnds
<1>6. CASE ServerFails
  BY <1>6, <1>f, ReturnTyped DEF ServerFails, fileVars
<1>7. CASE Fetched
  BY <1>7, <1>f, FetchedTyped DEF Fetched, GoesOn, fileVars, serverVars, listVars
<1>8. CASE ReplayHistories
  <2>1. CASE Returns("error")
    BY <1>8, <1>f, <2>1, ReturnTyped DEF ReplayHistories, fileVars
  <2>2. CASE /\ pc' = "load" /\ who' = "runner" /\ FetchForgotten
             /\ UNCHANGED <<serverVars, result>>
    <3>1. rows' \in Seq(Row) /\ repeats' \in 0..MaxRepeats /\ polls' \in 0..MaxPolls
      BY <2>2, EmptySeq, HistoryAssumption DEF FetchForgotten
    <3>. QED  BY <1>8, <1>f, <2>2, <3>1
         DEF ReplayHistories, FetchForgotten, fileVars, serverVars
  <2>. QED  BY <1>8, <2>1, <2>2 DEF ReplayHistories
<1>9. CASE Compare
  <2>1. CASE Returns("mismatch") \/ Returns("ok")
    BY <1>9, <1>f, <2>1, ReturnTyped DEF Compare, fileVars
  <2>2. CASE GoesOn("store")
    BY <1>9, <1>f, <2>2 DEF Compare, GoesOn, fileVars, serverVars, listVars
  <2>. QED  BY <1>9, <2>1, <2>2 DEF Compare
<1>10. CASE StoreTruncates
  <2>1. kept' \in [Versions -> Seq(Histories)]
    BY <1>10, EmptySeq DEF StoreTruncates
  <2>. QED  BY <1>10, <1>f, <2>1 DEF StoreTruncates, GoesOn, serverVars, listVars
<1>11. CASE StoreWrites
  BY <1>11, <1>f, ReturnTyped DEF StoreWrites
<1>12. CASE Killed
  BY <1>12, <1>f, ReturnTyped DEF Killed, fileVars
<1>13. CASE \E e \in Execs : ExecutionCloses(e)
  BY <1>13, <1>f DEF ExecutionCloses, fileVars, listVars
<1>14. CASE \E e \in Execs : VisibilityCatchesUp(e)
  BY <1>14, <1>f DEF VisibilityCatchesUp, VisibilityOf, fileVars, listVars
<1>15. CASE \E e \in Execs : RowArrives(e)
  <2>1. PICK e \in Execs : RowArrives(e)
    BY <1>15
  <2>2. repeats' \in 0..MaxRepeats
    BY <2>1, HistoryAssumption DEF RowArrives
  <2>. QED  BY <2>1, <2>2, <1>f, RowTyped DEF RowArrives, fileVars, serverVars
<1>16. CASE UNCHANGED vars
  BY <1>16, <1>f DEF vars, fileVars, serverVars, listVars
<1>. QED  BY <1>1, <1>2, <1>3, <1>4, <1>5, <1>6, <1>7, <1>8, <1>9, <1>10, <1>11, <1>12,
             <1>13, <1>14, <1>15, <1>16 DEF Next

-----------------------------------------------------------------------------
(* The parts of the invariant *)

LEMMA PlacesKept ==
  ASSUME TypeOK, Places, [Next]_vars
  PROVE  Places'
<1>. USE HistoryAssumption DEF Places
<1>1. CASE RunStarts
  BY <1>1 DEF RunStarts
<1>2. CASE FeatureChecked
  BY <1>2 DEF FeatureChecked, listVars
<1>3. CASE LoadAll
  BY <1>3, ReturnTyped DEF LoadAll, GoesOn, listVars
<1>4. CASE ListingStarts
  BY <1>4 DEF ListingStarts
<1>5. CASE ListingEnds
  BY <1>5, ReturnTyped DEF ListingEnds, GoesOn, listVars
<1>6. CASE ServerFails
  BY <1>6, ReturnTyped DEF ServerFails
<1>7. CASE Fetched
  BY <1>7 DEF Fetched, GoesOn, listVars, TypeOK
<1>8. CASE ReplayHistories
  BY <1>8, ReturnTyped DEF ReplayHistories, FetchForgotten
<1>9. CASE Compare
  BY <1>9, ReturnTyped DEF Compare, GoesOn, listVars
<1>10. CASE StoreTruncates
  BY <1>10 DEF StoreTruncates, GoesOn, listVars
<1>11. CASE StoreWrites
  BY <1>11, ReturnTyped DEF StoreWrites
<1>12. CASE Killed
  BY <1>12, ReturnTyped DEF Killed
<1>13. CASE \E e \in Execs : ExecutionCloses(e)
  BY <1>13 DEF ExecutionCloses, listVars
<1>14. CASE \E e \in Execs : VisibilityCatchesUp(e)
  BY <1>14 DEF VisibilityCatchesUp, listVars
<1>15. CASE \E e \in Execs : RowArrives(e)
  BY <1>15 DEF RowArrives
<1>16. CASE UNCHANGED vars
  BY <1>16 DEF vars, listVars
<1>. QED  BY <1>1, <1>2, <1>3, <1>4, <1>5, <1>6, <1>7, <1>8, <1>9, <1>10, <1>11, <1>12,
             <1>13, <1>14, <1>15, <1>16 DEF Next

LEMMA ListingKept ==
  ASSUME TypeOK, Listing, [Next]_vars
  PROVE  Listing'
<1>r. DOMAIN rows = 1..Len(rows) /\ Len(rows) \in Nat
  BY LenProperties DEF TypeOK
<1>e. Len(<<>>) = 0
  BY EmptySeq
<1>1. CASE RunStarts
  BY <1>1, <1>e DEF RunStarts, Listing, Later
<1>2. CASE FeatureChecked
  BY <1>2, <1>e DEF FeatureChecked, Listing, Later, serverVars, listVars
<1>3. ASSUME NEW r, Returns(r)
      PROVE  Listing'
  BY <1>3, <1>e, ReturnTyped DEF Listing, Later
<1>4. CASE LoadAll
  <2>1. CASE GoesOn("poll")
    BY <1>4, <2>1, <1>e DEF LoadAll, GoesOn, Listing, Later, serverVars, listVars
  <2>. QED  BY <1>3, <1>4, <2>1 DEF LoadAll
<1>5. CASE ListingStarts
  BY <1>5, <1>e DEF ListingStarts, Listing, Later, serverVars
<1>6. CASE ListingEnds
  <2>1. CASE AllClosed /\ GoesOn("fetch")
    <3>1. \A i \in 1..Len(rows) : rows[i].status = "closed"
      <4>1. \A i \in 1..Len(rows) : rows[i] \in Row /\ rows[i].status # "running"
        BY <2>1, <1>r, ElementOfSeq DEF AllClosed, StillRunning, TypeOK
      <4>. QED  BY <4>1 DEF Row
    <3>. QED  BY <1>6, <2>1, <3>1
         DEF ListingEnds, ListingComplete, GoesOn, Listing, Later, ListedExecs, serverVars,
             listVars
  <2>2. CASE GoesOn("poll")
    BY <1>6, <2>2 DEF GoesOn, Listing, Later, serverVars, listVars
  <2>. QED  BY <1>3, <1>6, <2>1, <2>2 DEF ListingEnds
<1>7. CASE ServerFails
  BY <1>3, <1>7 DEF ServerFails
<1>8. CASE Fetched
  BY <1>8, FetchedTyped DEF Fetched, GoesOn, Listing, ListedExecs, Later, serverVars, listVars
<1>9. CASE ReplayHistories
  <2>1. CASE pc' = "load" /\ FetchForgotten /\ UNCHANGED serverVars
    BY <2>1, <1>e DEF FetchForgotten, Listing, Later, serverVars
  <2>. QED  BY <1>3, <1>9, <2>1 DEF ReplayHistories
<1>10. CASE Compare
  <2>1. CASE GoesOn("store")
    BY <1>10, <2>1 DEF Compare, GoesOn, Listing, ListedExecs, Later, serverVars, listVars
  <2>. QED  BY <1>3, <1>10, <2>1 DEF Compare
<1>11. CASE StoreTruncates
  BY <1>11 DEF StoreTruncates, GoesOn, Listing, ListedExecs, Later, serverVars, listVars
<1>12. CASE StoreWrites
  BY <1>3, <1>12 DEF StoreWrites
<1>13. CASE Killed
  BY <1>3, <1>13 DEF Killed
<1>14. CASE \E e \in Execs : ExecutionCloses(e)
  BY <1>14 DEF ExecutionCloses, Listing, ListedExecs, listVars
<1>15. CASE \E e \in Execs : VisibilityCatchesUp(e)
  BY <1>15 DEF VisibilityCatchesUp, VisibilityOf, Listing, ListedExecs, listVars, TypeOK
<1>16. CASE \E e \in Execs : RowArrives(e)
  <2>1. PICK e \in Execs : RowArrives(e)
    BY <1>16
  <2>2. pc = "list" /\ pc' = pc /\ open' = open /\ vis' = vis
    BY <2>1 DEF RowArrives, serverVars
  <2>3. CASE rows' = rows
    BY <2>2, <2>3 DEF Listing, Later
  <2>4. CASE e \notin ListedExecs /\ rows' = Append(rows, [exec |-> e, status |-> vis[e]])
    <3>1. Len(rows') = Len(rows) + 1
      BY <2>4 DEF TypeOK
    <3>2. \A i \in 1..Len(rows) : rows'[i] = rows[i] /\ rows[i].exec # e
      BY <2>4, <1>r DEF TypeOK, ListedExecs
    <3>3. rows'[Len(rows')] = [exec |-> e, status |-> vis[e]]
      BY <2>4, <3>1 DEF TypeOK
    <3>4. \A i \in 1..Len(rows') : i \in 1..Len(rows) \/ i = Len(rows')
      BY <3>1, <1>r
    <3>5. \A i \in 1..Len(rows') :
            rows'[i].status = "closed" => rows'[i].exec \notin open'
      BY <2>2, <3>2, <3>3, <3>4 DEF Listing
    <3>6. \A i, j \in 1..Len(rows') : rows'[i].exec = rows'[j].exec => i = j
      BY <3>2, <3>3, <3>4 DEF Listing
    <3>. QED  BY <2>2, <3>5, <3>6 DEF Listing, Later
  <2>. QED  BY <2>1, <2>3, <2>4, RowTyped
<1>17. CASE UNCHANGED vars
  BY <1>17 DEF vars, Listing, ListedExecs, serverVars, listVars
<1>. QED  BY <1>1, <1>2, <1>4, <1>5, <1>6, <1>7, <1>8, <1>9, <1>10, <1>11, <1>12,
             <1>13, <1>14, <1>15, <1>16, <1>17 DEF Next

\* A fetch returns histories of listed executions, which all are closed.
LEMMA FetchedWhole ==
  ASSUME TypeOK, Listing, Fetched
  PROVE  \A i \in 1..Len(fetched') : fetched'[i].whole
<1>1. \A k \in 1..Len(rows) : rows[k].exec \notin open
  BY DEF Fetched, Listing
<1>2. \A k \in 1..Len(rows) : HistoryOf(rows[k].exec).whole
  BY <1>1 DEF HistoryOf
<1>. QED  BY <1>2, FetchedTyped

LEMMA WholeKept ==
  ASSUME TypeOK, Listing, Whole, [Next]_vars
  PROVE  Whole'
<1>1. CASE RunStarts
  BY <1>1, EmptySeq DEF RunStarts, Whole, fileVars
<1>2. CASE Fetched
  BY <1>2, FetchedWhole DEF Fetched, Whole, fileVars
<1>3. CASE StoreTruncates
  <2>1. \A v \in Versions : kept'[v] = kept[v] \/ kept'[v] = <<>>
    BY <1>3 DEF StoreTruncates, TypeOK
  <2>. QED  BY <1>3, <2>1, EmptySeq DEF StoreTruncates, Whole
<1>4. CASE StoreWrites
  <2>1. \A v \in Versions : kept'[v] = kept[v] \/ kept'[v] = fetched
    BY <1>4 DEF StoreWrites, TypeOK
  <2>. QED  BY <1>4, <2>1 DEF StoreWrites, Whole
<1>5. CASE fetched' = fetched /\ kept' = kept
  BY <1>5 DEF Whole
<1>. QED  BY <1>1, <1>2, <1>3, <1>4, <1>5
     DEF Next, FeatureChecked, LoadAll, ListingStarts, ListingEnds, ServerFails,
         ReplayHistories, Compare, Killed, ExecutionCloses, VisibilityCatchesUp,
         RowArrives, fileVars, vars

\* What the comparison finds depends on the files, the flags and the histories.
LEMMA DiffersKept ==
  ASSUME UNCHANGED fileVars, conf' = conf, fetched' = fetched
  PROVE  Differs' = Differs
BY DEF fileVars, Differs, ComparedVersions, Stored, Scrubbed, ScrubRunSpecificFields

LEMMA UntornKept ==
  ASSUME TypeOK, Places, Untorn, [Next]_vars
  PROVE  Untorn'
<1>1. ASSUME pc' \in {"idle", "feature", "load"} \/ (pc' \in Fetching /\ who' = "harness"),
             UNCHANGED fileVars
      PROVE  Untorn'
  BY <1>1 DEF Untorn, Fetching, fileVars
<1>2. ASSUME UNCHANGED <<fileVars, conf, pc, who, fetched>>
      PROVE  Untorn'
  BY <1>2, DiffersKept DEF Untorn, Unreadable, fileVars
<1>3. ASSUME pc \in Fetching, pc' \in Fetching, UNCHANGED <<fileVars, conf, who>>
      PROVE  Untorn'
  BY <1>3 DEF Untorn, Fetching, Unreadable, fileVars
<1>4. ASSUME NEW r, Returns(r), UNCHANGED fileVars
      PROVE  Untorn'
  BY <1>1, <1>4, ReturnTyped
<1>5. CASE RunStarts
  BY <1>1, <1>5 DEF RunStarts
<1>6. CASE FeatureChecked
  BY <1>1, <1>6 DEF FeatureChecked, Fetching
<1>7. CASE LoadAll
  <2>1. CASE ~Unreadable /\ GoesOn("poll")
    BY <1>7, <2>1 DEF LoadAll, GoesOn, Untorn, Fetching, Unreadable, fileVars
  <2>. QED  BY <1>4, <1>7, <2>1 DEF LoadAll
<1>8. CASE ListingStarts
  BY <1>3, <1>8 DEF ListingStarts, Fetching
<1>9. CASE ListingEnds
  <2>1. CASE GoesOn("fetch") \/ GoesOn("poll")
    BY <1>3, <1>9, <2>1 DEF ListingEnds, GoesOn, Fetching
  <2>. QED  BY <1>4, <1>9, <2>1 DEF ListingEnds
<1>10. CASE ServerFails \/ Killed
  BY <1>4, <1>10 DEF ServerFails, Killed
<1>11. CASE Fetched
  <2>1. pc = "fetch" /\ UNCHANGED <<fileVars, who>>
        /\ pc' = IF who = "harness" THEN "replay" ELSE "compare"
    BY <1>11 DEF Fetched, GoesOn
  <2>. QED  BY <2>1 DEF Untorn, Fetching, Unreadable, TypeOK, fileVars
<1>12. CASE ReplayHistories
  BY <1>1, <1>4, <1>12 DEF ReplayHistories
<1>13. CASE Compare
  <2>1. CASE ~Differs /\ GoesOn("store")
    <3>1. ~Differs'
      BY <1>13, <2>1, DiffersKept DEF Compare
    <3>. QED  BY <1>13, <2>1, <3>1 DEF Compare, GoesOn, Untorn, Fetching, Unreadable, fileVars
  <2>. QED  BY <1>4, <1>13, <2>1 DEF Compare
<1>14. CASE StoreTruncates
  <2>1. \A v \in Versions : IF v = conf.version THEN files'[v] = "torn" /\ kept'[v] = <<>>
                            ELSE files'[v] = files[v] /\ kept'[v] = kept[v]
    BY <1>14 DEF StoreTruncates, TypeOK
  <2>2. \A v \in Versions : files[v] # "torn"
    BY <1>14 DEF StoreTruncates, Untorn, Unreadable
  <2>. QED  BY <1>14, <2>1, <2>2 DEF StoreTruncates, GoesOn, Untorn, Fetching
<1>15. CASE StoreWrites
  <2>1. \A v \in Versions :
          IF v = conf.version THEN files'[v] = "stored"
          ELSE files'[v] = files[v] /\ kept'[v] = kept[v]
    BY <1>15 DEF StoreWrites, TypeOK
  <2>2. pc' = "idle"
    BY <1>15, ReturnTyped DEF StoreWrites
  <2>. QED  BY <2>1, <2>2 DEF Untorn, Fetching
<1>16. CASE \E e \in Execs : ExecutionCloses(e) \/ VisibilityCatchesUp(e) \/ RowArrives(e)
  BY <1>2, <1>16 DEF ExecutionCloses, VisibilityCatchesUp, RowArrives
<1>17. CASE UNCHANGED vars
  BY <1>2, <1>17 DEF vars
<1>. QED  BY <1>5, <1>6, <1>7, <1>8, <1>9, <1>10, <1>11, <1>12, <1>13, <1>14, <1>15,
             <1>16, <1>17 DEF Next

\* Past the harness's check every file of a version up to the SDK's replays:
\* the step to the runner's load is the only one that has to see to it.
LEMMA ReplayKept ==
  ASSUME TypeOK, Places, Untorn, OldHistoriesReplay, [Next]_vars
  PROVE  OldHistoriesReplay'
<1>. DEFINE Checked == {"load", "poll", "list", "fetch", "compare", "store"}
<1>1. ASSUME UNCHANGED <<code, fileVars, conf, who>>, pc \in Checked \/ pc' \notin Checked
      PROVE  OldHistoriesReplay'
  BY <1>1 DEF OldHistoriesReplay, fileVars
<1>2. ASSUME pc' \in {"idle", "feature", "write", "replay"}
      PROVE  OldHistoriesReplay'
  BY <1>2 DEF OldHistoriesReplay
<1>3. ASSUME NEW r, Returns(r)
      PROVE  OldHistoriesReplay'
  BY <1>2, <1>3, ReturnTyped
<1>4. CASE RunStarts
  BY <1>2, <1>4 DEF RunStarts
<1>5. CASE FeatureChecked
  BY <1>5 DEF FeatureChecked, OldHistoriesReplay
<1>6. CASE LoadAll
  BY <1>1, <1>3, <1>6 DEF LoadAll, GoesOn
<1>7. CASE ListingStarts
  BY <1>1, <1>7 DEF ListingStarts
<1>8. CASE ListingEnds
  BY <1>1, <1>3, <1>8 DEF ListingEnds, GoesOn
<1>9. CASE ServerFails \/ Killed \/ StoreWrites
  BY <1>3, <1>9 DEF ServerFails, Killed, StoreWrites
<1>10. CASE Fetched
  BY <1>1, <1>10 DEF Fetched, GoesOn
<1>11. CASE ReplayHistories
  <2>1. CASE AllReplay /\ UNCHANGED <<code, fileVars, conf>>
    <3>1. ASSUME NEW v \in Versions, v <= conf.version
          PROVE  \A i \in DOMAIN kept[v] : <<kept[v][i].rev, code[kept[v][i].type]>> \in Replayable
      <4>1. CASE files[v] = "stored"
        BY <2>1, <3>1, <4>1 DEF AllReplay, ReplayedVersions, Stored, Replays
      <4>2. CASE files[v] # "stored"
        BY <3>1, <4>2 DEF Untorn
      <4>. QED  BY <4>1, <4>2
    <3>. QED  BY <2>1, <3>1 DEF OldHistoriesReplay, fileVars
  <2>. QED  BY <1>3, <1>11, <2>1 DEF ReplayHistories
<1>12. CASE Compare
  BY <1>1, <1>3, <1>12 DEF Compare, GoesOn
<1>13. CASE StoreTruncates
  BY <1>2, <1>13 DEF StoreTruncates, GoesOn
<1>14. CASE \E e \in Execs : ExecutionCloses(e) \/ VisibilityCatchesUp(e) \/ RowArrives(e)
  BY <1>1, <1>14 DEF ExecutionCloses, VisibilityCatchesUp, RowArrives
<1>15. CASE UNCHANGED vars
  BY <1>1, <1>15 DEF vars
<1>. QED  BY <1>4, <1>5, <1>6, <1>7, <1>8, <1>9, <1>10, <1>11, <1>12, <1>13, <1>14,
             <1>15 DEF Next

LEMMA TornKept ==
  ASSUME TypeOK, Places, Untorn, TornNeverPasses, [Next]_vars
  PROVE  TornNeverPasses'
<1>1. ASSUME result' \notin {"ok", "skipped"}
      PROVE  TornNeverPasses'
  BY <1>1 DEF TornNeverPasses
<1>2. ASSUME UNCHANGED <<fileVars, result>>
      PROVE  TornNeverPasses'
  BY <1>2 DEF TornNeverPasses, fileVars
<1>3. ASSUME ~Unreadable, UNCHANGED fileVars
      PROVE  TornNeverPasses'
  BY <1>3 DEF TornNeverPasses, Unreadable, fileVars
<1>4. ASSUME NEW r \in {"error", "mismatch", "killed"}, Returns(r)
      PROVE  TornNeverPasses'
  BY <1>1, <1>4, ReturnTyped
<1>5. CASE RunStarts
  BY <1>1, <1>5 DEF RunStarts
<1>6. CASE FeatureChecked
  BY <1>2, <1>6 DEF FeatureChecked
<1>7. CASE LoadAll
  BY <1>2, <1>3, <1>4, <1>7 DEF LoadAll, GoesOn
<1>8. CASE ListingStarts
  BY <1>2, <1>8 DEF ListingStarts
<1>9. CASE ListingEnds
  BY <1>2, <1>4, <1>9 DEF ListingEnds, GoesOn
<1>10. CASE ServerFails \/ Killed
  BY <1>4, <1>10 DEF ServerFails, Killed
<1>11. CASE Fetched
  BY <1>2, <1>11 DEF Fetched, GoesOn
<1>12. CASE ReplayHistories
  BY <1>2, <1>4, <1>12 DEF ReplayHistories
<1>13. CASE Compare
  BY <1>3, <1>13 DEF Compare, Untorn
<1>14. CASE StoreTruncates
  BY <1>1, <1>14 DEF StoreTruncates, GoesOn, Places
<1>15. CASE StoreWrites
  BY <1>15 DEF StoreWrites, TypeOK, Untorn, TornNeverPasses
<1>16. CASE \E e \in Execs : ExecutionCloses(e) \/ VisibilityCatchesUp(e) \/ RowArrives(e)
  BY <1>2, <1>16 DEF ExecutionCloses, VisibilityCatchesUp, RowArrives
<1>17. CASE UNCHANGED vars
  BY <1>2, <1>17 DEF vars
<1>. QED  BY <1>5, <1>6, <1>7, <1>8, <1>9, <1>10, <1>11, <1>12, <1>13, <1>14, <1>15,
             <1>16, <1>17 DEF Next

-----------------------------------------------------------------------------
(* The theorems *)

LEMMA InvInit == Init => IInv
<1>. SUFFICES ASSUME Init PROVE IInv
  OBVIOUS
<1>1. Places /\ Untorn
  BY HistoryAssumption DEF Init, Places, Untorn, Fetching, Unreadable
<1>2. Listing /\ Whole
  BY EmptySeq DEF Init, Listing, Later, Whole
<1>3. OldHistoriesReplay /\ TornNeverPasses
  BY DEF Init, OldHistoriesReplay, TornNeverPasses
<1>. QED  BY <1>1, <1>2, <1>3, TypeInit DEF IInv

\* The inductive invariant holds of every history of runs, whatever visibility
\* lags behind, whatever fails and wherever a run is killed.
THEOREM HistoryInvariant == Spec => []IInv
<1>1. IInv /\ [Next]_vars => IInv'
  BY TypesKept, PlacesKept, ListingKept, WholeKept, UntornKept, ReplayKept, TornKept DEF IInv
<1>. QED  BY <1>1, InvInit, PTL DEF Spec

\* Types of the files, the server, the fetch and the run's position; a Fetch
\* makes no more listings than fit in its time.
THEOREM HistoryTypeOK == Spec => []TypeOK
<1>1. IInv => TypeOK
  BY DEF IInv
<1>. QED  BY <1>1, HistoryInvariant, PTL

\* However visibility lags, only whole histories are fetched, compared or stored
\* (fetcher.go:28), and a fetch returns each listed execution once.
THEOREM FetchedAreWhole == Spec => []OnlyWholeHistories
<1>1. ASSUME IInv PROVE OnlyWholeHistories
  <2>. USE <1>1 DEF IInv
  <2>1. DOMAIN fetched = 1..Len(fetched) /\ DOMAIN rows = 1..Len(rows) /\ Len(rows) \in Nat
    BY LenProperties DEF TypeOK
  <2>2. \A v \in Versions : DOMAIN kept[v] = 1..Len(kept[v])
    BY LenProperties DEF TypeOK
  <2>3. Cardinality(ListedExecs) = Len(rows)
    <3>. DEFINE f == [i \in 1..Len(rows) |-> rows[i].exec]
    <3>1. f \in Bijection(1..Len(rows), ListedExecs)
      <4>1. f \in [1..Len(rows) -> ListedExecs]
        BY <2>1 DEF ListedExecs
      <4>2. \A i, j \in 1..Len(rows) : f[i] = f[j] => i = j
        BY DEF Listing
      <4>3. \A x \in ListedExecs : \E i \in 1..Len(rows) : f[i] = x
        BY <2>1 DEF ListedExecs
      <4>. QED  BY <4>1, <4>2, <4>3, Fun_IsBij
    <3>. QED  BY <2>1, <3>1, FS_CountingElements, Fun_ExistsBij
  <2>4. (\A i \in DOMAIN fetched : fetched[i].whole)
        /\ \A v \in Versions : \A i \in DOMAIN kept[v] : kept[v][i].whole
    BY <2>1, <2>2 DEF Whole
  <2>5. pc \in Later => Len(fetched) = Cardinality(ListedExecs) /\ due \subseteq ListedExecs
    BY <2>3 DEF Listing
  <2>. QED  BY <2>4, <2>5 DEF OnlyWholeHistories, Later
<1>. QED  BY <1>1, HistoryInvariant, PTL

\* Past the harness's check every stored file of a version up to the SDK's
\* replays on the code of the run (runner.go:215).
THEOREM OldHistoriesDoReplay == Spec => []OldHistoriesReplay
<1>1. IInv => OldHistoriesReplay
  BY DEF IInv
<1>. QED  BY <1>1, HistoryInvariant, PTL

\* No run passes over a file that a killed process left torn.
THEOREM TornIsNoticed == Spec => []TornNeverPasses
<1>1. IInv => TornNeverPasses
  BY DEF IInv
<1>. QED  BY <1>1, HistoryInvariant, PTL

\* Under the check a generation adds a version or writes the same histories.
THEOREM GenerationIsSafe == Spec => GenerationUnderCheckChangesNothing
<1>. DEFINE Same == \A v \in Versions :
              kept'[v] # kept[v] /\ files[v] = "stored" /\ ~conf.disable
                => Scrubbed(kept[v]) = Scrubbed(fetched)
<1>1. ASSUME IInv, [Next]_vars PROVE [Same]_vars
  <2>. USE <1>1 DEF IInv
  <2>1. CASE StoreTruncates
    <3>1. \A v \in Versions : kept'[v] # kept[v] => v = conf.version
      BY <2>1 DEF StoreTruncates, TypeOK
    <3>2. ~Differs
      BY <2>1 DEF StoreTruncates, Untorn
    <3>. QED  BY <3>1, <3>2 DEF Differs, ComparedVersions, Stored
  <2>2. CASE StoreWrites
    <3>1. \A v \in Versions : kept'[v] # kept[v] => v = conf.version
      BY <2>2 DEF StoreWrites, TypeOK
    <3>2. files[conf.version] = "torn"
      BY <2>2 DEF StoreWrites, Untorn, TypeOK, Confs
    <3>. QED  BY <3>1, <3>2
  <2>3. CASE kept' = kept
    BY <2>3
  <2>. QED  BY <2>1, <2>2, <2>3
       DEF Next, RunStarts, FeatureChecked, LoadAll, ListingStarts, ListingEnds, ServerFails,
           Fetched, ReplayHistories, Compare, Killed, ExecutionCloses, VisibilityCatchesUp,
           RowArrives, fileVars, vars
<1>. QED  BY <1>1, HistoryInvariant, PTL DEF Spec, GenerationUnderCheckChangesNothing

-----------------------------------------------------------------------------
(* What the check can tell *)

\* These histories are of different executions and sorted by type.
InOrder(hs) ==
  \E p \in [1..Len(hs) -> Execs] :
    /\ \A i, j \in 1..Len(hs) : p[i] = p[j] => i = j
    /\ \A i \in 1..Len(hs) : /\ hs[i].type = feature.type[p[i]]
                             /\ hs[i].input = feature.input[p[i]]
    /\ \A i, j \in 1..Len(hs) : i < j => hs[i].type <= hs[j].type

\* All sets of histories are in order, and those fetched are of this run's code.
Ordered ==
  /\ InOrder(fetched) /\ \A v \in Versions : InOrder(kept[v])
  /\ \A i \in 1..Len(fetched) : fetched[i].rev = code[fetched[i].type]

\* The result is what the comparison found, though a file was written since.
Judged ==
  /\ pc = "write" \/ result = "ok" => ~Differs
  /\ result = "mismatch" => Differs

\* Two sets of histories of all executions agree in their types, position by
\* position.  If the i-th of h came later in the order than the i-th of g, then
\* the first i executions of g and those of h from i on would be different ones,
\* and one more than there are.
LEMMA NotLess ==
  ASSUME NEW g, NEW h, InOrder(g), InOrder(h),
         Len(g) = NumExecs, Len(h) = NumExecs, feature \in Features,
         NEW i \in 1..NumExecs
  PROVE  ~(g[i].type < h[i].type)
<1>. SUFFICES ASSUME g[i].type < h[i].type PROVE FALSE
  OBVIOUS
<1>1. NumExecs \in Nat
  BY HistoryAssumption
<1>2. ASSUME NEW hs, InOrder(hs), Len(hs) = NumExecs
      PROVE  \E p \in [1..NumExecs -> Execs] :
               /\ \A a, b \in 1..NumExecs : p[a] = p[b] => a = b
               /\ \A a \in 1..NumExecs : hs[a].type = feature.type[p[a]]
               /\ \A a, b \in 1..NumExecs : a < b => hs[a].type <= hs[b].type
  BY <1>2 DEF InOrder
<1>3. PICK p \in [1..NumExecs -> Execs] :
        /\ \A a, b \in 1..NumExecs : p[a] = p[b] => a = b
        /\ \A a \in 1..NumExecs : g[a].type = feature.type[p[a]]
        /\ \A a, b \in 1..NumExecs : a < b => g[a].type <= g[b].type
  BY <1>2
<1>4. PICK q \in [1..NumExecs -> Execs] :
        /\ \A a, b \in 1..NumExecs : q[a] = q[b] => a = b
        /\ \A a \in 1..NumExecs : h[a].type = feature.type[q[a]]
        /\ \A a, b \in 1..NumExecs : a < b => h[a].type <= h[b].type
  BY <1>2
<1>5. \A e \in Execs : feature.type[e] \in Int
  BY HistoryAssumption DEF Execs
<1>. DEFINE r == [k \in 1..(NumExecs + 1) |-> IF k <= i THEN p[k] ELSE q[k - 1]]
<1>6. r \in [1..(NumExecs + 1) -> Execs]
  BY <1>1, <1>3, <1>4
<1>7. ASSUME NEW k \in 1..(NumExecs + 1)
      PROVE  IF k <= i THEN k \in 1..NumExecs /\ r[k] = p[k]
                       ELSE k - 1 \in 1..NumExecs /\ r[k] = q[k - 1] /\ i <= k - 1
  BY <1>1
<1>. HIDE DEF r
<1>8. g[i].type \in Int /\ h[i].type \in Int
  BY <1>3, <1>4, <1>5
<1>9. ASSUME NEW k \in 1..(NumExecs + 1)
      PROVE  IF k <= i THEN feature.type[r[k]] <= g[i].type
                       ELSE feature.type[r[k]] >= h[i].type
  <2>1. CASE k <= i
    <3>1. k \in 1..NumExecs /\ g[k].type = feature.type[r[k]]
      BY <1>3, <1>7, <2>1
    <3>2. g[k].type <= g[i].type
      BY <1>1, <1>3, <1>8, <2>1, <3>1
    <3>. QED  BY <2>1, <3>1, <3>2
  <2>2. CASE ~ k <= i
    <3>1. /\ k - 1 \in 1..NumExecs /\ i <= k - 1
          /\ h[k - 1].type = feature.type[r[k]] /\ feature.type[r[k]] \in Int
      BY <1>4, <1>5, <1>6, <1>7, <2>2
    <3>2. h[i].type <= h[k - 1].type
      BY <1>1, <1>4, <1>8, <3>1
    <3>. QED  BY <1>8, <2>2, <3>1, <3>2
  <2>. QED  BY <2>1, <2>2
<1>10. ASSUME NEW k \in 1..(NumExecs + 1), NEW l \in 1..(NumExecs + 1), r[k] = r[l]
       PROVE  k = l
  <2>1. feature.type[r[k]] \in Int /\ feature.type[r[k]] = feature.type[r[l]]
    BY <1>5, <1>6, <1>10
  <2>2. k <= i <=> l <= i
    BY <1>8, <1>9, <2>1
  <2>3. CASE k <= i
    BY <1>3, <1>7, <1>10, <2>2, <2>3
  <2>4. CASE ~ k <= i
    <3>1. k - 1 \in 1..NumExecs /\ l - 1 \in 1..NumExecs /\ q[k - 1] = q[l - 1]
      BY <1>7, <1>10, <2>2, <2>4
    <3>2. k - 1 = l - 1
      BY <1>4, <3>1
    <3>. QED  BY <1>1, <3>2
  <2>. QED  BY <2>3, <2>4
<1>11. IsFiniteSet(Execs) /\ Cardinality(Execs) = NumExecs
  BY <1>1, FS_Interval DEF Execs
<1>12. IsFiniteSet(1..(NumExecs + 1)) /\ Cardinality(1..(NumExecs + 1)) = NumExecs + 1
  <2>1. 1 \in Int /\ NumExecs + 1 \in Int /\ ~ 1 > NumExecs + 1
        /\ (NumExecs + 1) - 1 + 1 = NumExecs + 1
    BY <1>1
  <2>. QED  BY <2>1, FS_Interval
<1>13. \E k, l \in 1..(NumExecs + 1) : k # l /\ r[k] = r[l]
  <2>1. Cardinality(Execs) < Cardinality(1..(NumExecs + 1))
    BY <1>1, <1>11, <1>12
  <2>. QED  BY <1>6, <1>11, <1>12, <2>1, FS_PigeonHole
<1>. QED  BY <1>10, <1>13

\* What Fetch returns is in order: sort.Slice moves rows, and each row is of
\* another execution.
LEMMA FetchedInOrder ==
  ASSUME TypeOK, Listing, Fetched
  PROVE  /\ InOrder(fetched')
         /\ \A i \in 1..Len(fetched') : fetched'[i].rev = code[fetched'[i].type]
<1>1. DOMAIN rows = 1..Len(rows) /\ Len(rows) \in Nat
  BY LenProperties DEF TypeOK
<1>2. PICK order \in [1..Len(rows) -> 1..Len(rows)] :
        /\ Sorted(order)
        /\ fetched' = [i \in 1..Len(rows) |-> HistoryOf(rows[order[i]].exec)]
  BY <1>1 DEF Fetched
<1>3. Len(fetched') = Len(rows)
  BY FetchedTyped
<1>4. ASSUME NEW i \in 1..Len(rows)
      PROVE  /\ rows[i].exec \in Execs /\ feature.type[rows[i].exec] \in Int
             /\ feature.type[rows[i].exec] \in FeatureTypes
  <2>1. rows[i] \in Row
    BY <1>1, ElementOfSeq DEF TypeOK
  <2>2. rows[i].exec \in Execs
    BY <2>1 DEF Row
  <2>. QED  BY <2>2, HistoryAssumption DEF TypeOK, Execs, FeatureTypes
<1>. DEFINE p == [i \in 1..Len(rows) |-> rows[order[i]].exec]
<1>5. p \in [1..Len(rows) -> Execs]
  BY <1>4
<1>6. ASSUME NEW i \in 1..Len(rows)
      PROVE  /\ fetched'[i].type = feature.type[p[i]]
             /\ fetched'[i].input = feature.input[p[i]]
             /\ fetched'[i].rev = code[fetched'[i].type]
  BY <1>2 DEF HistoryOf
<1>7. ASSUME NEW i \in 1..Len(rows), NEW j \in 1..Len(rows), i < j
      PROVE  /\ order[i] # order[j]
             /\ feature.type[p[i]] <= feature.type[p[j]]
  <2>1. /\ order[i] \in 1..Len(rows) /\ order[j] \in 1..Len(rows)
        /\ \/ feature.type[p[i]] < feature.type[p[j]]
           \/ feature.type[p[i]] = feature.type[p[j]] /\ order[i] < order[j]
    BY <1>1, <1>2, <1>7 DEF Sorted
  <2>. QED  BY <1>1, <1>4, <2>1
<1>8. ASSUME NEW i \in 1..Len(rows), NEW j \in 1..Len(rows), p[i] = p[j]
      PROVE  i = j
  <2>1. order[i] = order[j]
    BY <1>2, <1>8 DEF Listing
  <2>. QED  BY <1>1, <1>7, <2>1
<1>9. \A i, j \in 1..Len(rows) : i < j => fetched'[i].type <= fetched'[j].type
  BY <1>6, <1>7
<1>. HIDE DEF p
<1>10. feature' = feature
  BY DEF Fetched
<1>. QED  BY <1>3, <1>5, <1>6, <1>8, <1>9, <1>10 DEF InOrder

\* No step loses the order; only a run's start changes the code, and forgets.
LEMMA OrderedKept ==
  ASSUME TypeOK, Listing, Ordered, [Next]_vars
  PROVE  Ordered'
<1>1. feature' = feature
  BY DEF Next, RunStarts, Fetched, StoreTruncates, StoreWrites, FeatureChecked, LoadAll,
         ListingStarts, ListingEnds, ServerFails, ReplayHistories, Compare, Killed,
         ExecutionCloses, VisibilityCatchesUp, RowArrives, vars
<1>2. \A hs : InOrder(hs) => InOrder(hs)'
  BY <1>1 DEF InOrder
<1>3. InOrder(<<>>)
  <2>1. Len(<<>>) = 0 /\ 1..0 = {}
    BY EmptySeq
  <2>2. [x \in {} |-> 1] \in [{} -> Execs]
    OBVIOUS
  <2>. QED  BY <2>1, <2>2 DEF InOrder
<1>4. CASE RunStarts
  <2>1. fetched' = <<>> /\ kept' = kept
    BY <1>4 DEF RunStarts, fileVars
  <2>. QED  BY <1>2, <1>3, <2>1, EmptySeq DEF Ordered
<1>5. CASE Fetched
  <2>1. kept' = kept /\ code' = code
    BY <1>5 DEF Fetched, fileVars
  <2>. QED  BY <1>2, <1>5, <2>1, FetchedInOrder DEF Ordered
<1>6. CASE StoreTruncates
  <2>1. \A v \in Versions : kept'[v] = kept[v] \/ kept'[v] = <<>>
    BY <1>6 DEF StoreTruncates, TypeOK
  <2>2. fetched' = fetched /\ code' = code
    BY <1>6 DEF StoreTruncates
  <2>. QED  BY <1>2, <1>3, <2>1, <2>2 DEF Ordered
<1>7. CASE StoreWrites
  <2>1. \A v \in Versions : kept'[v] = kept[v] \/ kept'[v] = fetched
    BY <1>7 DEF StoreWrites, TypeOK
  <2>2. fetched' = fetched /\ code' = code
    BY <1>7 DEF StoreWrites
  <2>. QED  BY <1>2, <2>1, <2>2 DEF Ordered
<1>8. CASE fetched' = fetched /\ kept' = kept /\ code' = code
  BY <1>2, <1>8 DEF Ordered
<1>. QED  BY <1>4, <1>5, <1>6, <1>7, <1>8
     DEF Next, FeatureChecked, LoadAll, ListingStarts, ListingEnds, ServerFails,
         ReplayHistories, Compare, Killed, ExecutionCloses, VisibilityCatchesUp,
         RowArrives, fileVars, vars

\* The comparison is the last thing that a result rests on: truncating removes a
\* file from what is compared, and writing puts there what was compared with.
LEMMA JudgedKept ==
  ASSUME TypeOK, Places, Untorn, Judged, [Next]_vars
  PROVE  Judged'
<1>1. ASSUME pc' # "write", result' \notin {"ok", "mismatch"}
      PROVE  Judged'
  BY <1>1 DEF Judged
<1>2. ASSUME NEW r \in {"error", "skipped", "killed"}, Returns(r)
      PROVE  Judged'
  BY <1>1, <1>2, ReturnTyped
<1>3. ASSUME NEW s, GoesOn(s), s # "write", pc # "idle"
      PROVE  Judged'
  BY <1>1, <1>3 DEF GoesOn, Places
<1>4. CASE Compare
  <2>1. Differs' = Differs
    BY <1>4, DiffersKept DEF Compare
  <2>2. CASE Differs /\ Returns("mismatch")
    BY <2>1, <2>2, ReturnTyped DEF Judged
  <2>3. CASE ~Differs /\ Returns("ok")
    BY <2>1, <2>3, ReturnTyped DEF Judged
  <2>. QED  BY <1>3, <1>4, <2>2, <2>3 DEF Compare
<1>5. CASE StoreTruncates
  <2>1. ~Differs /\ result' = "none"
    BY <1>5 DEF StoreTruncates, GoesOn, Untorn, Places
  <2>2. \A v \in Versions : IF v = conf.version THEN files'[v] = "torn"
                            ELSE files'[v] = files[v] /\ kept'[v] = kept[v]
    BY <1>5 DEF StoreTruncates, TypeOK
  <2>3. conf' = conf /\ fetched' = fetched
    BY <1>5 DEF StoreTruncates
  <2>4. ASSUME NEW v \in ComparedVersions' PROVE v \in ComparedVersions /\ kept'[v] = kept[v]
    BY <2>2, <2>3 DEF ComparedVersions, Stored
  <2>5. ~Differs'
    BY <2>1, <2>3, <2>4 DEF Differs, Scrubbed, ScrubRunSpecificFields
  <2>. QED  BY <2>1, <2>5 DEF Judged
<1>6. CASE StoreWrites
  <2>1. ~Differs
    BY <1>6 DEF StoreWrites, Judged
  <2>2. \A v \in Versions : IF v = conf.version THEN kept'[v] = fetched
                            ELSE files'[v] = files[v] /\ kept'[v] = kept[v]
    BY <1>6 DEF StoreWrites, TypeOK
  <2>3. conf' = conf /\ fetched' = fetched
    BY <1>6 DEF StoreWrites
  <2>4. ASSUME NEW v \in ComparedVersions', v # conf.version
        PROVE  v \in ComparedVersions /\ kept'[v] = kept[v]
    BY <2>2, <2>3, <2>4 DEF ComparedVersions, Stored
  <2>5. \A v \in ComparedVersions' : v = conf.version => kept'[v] = fetched
    BY <2>2 DEF ComparedVersions, Stored
  <2>6. ~Differs'
    BY <2>1, <2>3, <2>4, <2>5 DEF Differs, Scrubbed, ScrubRunSpecificFields
  <2>7. result' = "ok"
    BY <1>6, ReturnTyped DEF StoreWrites
  <2>. QED  BY <2>6, <2>7 DEF Judged
<1>7. CASE Killed \/ ServerFails
  BY <1>2, <1>7 DEF Killed, ServerFails
<1>8. CASE RunStarts \/ FeatureChecked \/ ListingStarts
  BY <1>1, <1>8 DEF RunStarts, FeatureChecked, ListingStarts, Places
<1>9. CASE LoadAll \/ ListingEnds \/ Fetched
  BY <1>2, <1>3, <1>9 DEF LoadAll, ListingEnds, Fetched
<1>10. CASE ReplayHistories
  BY <1>1, <1>2, <1>10 DEF ReplayHistories, Places
<1>11. CASE \E e \in Execs : ExecutionCloses(e) \/ VisibilityCatchesUp(e) \/ RowArrives(e)
  <2>1. UNCHANGED <<fileVars, conf, fetched, pc, result>>
    BY <1>11 DEF ExecutionCloses, VisibilityCatchesUp, RowArrives
  <2>. QED  BY <2>1, DiffersKept DEF Judged
<1>12. CASE UNCHANGED vars
  BY <1>12, DiffersKept DEF vars, Judged
<1>. QED  BY <1>4, <1>5, <1>6, <1>7, <1>8, <1>9, <1>10, <1>11, <1>12 DEF Next

\* Two scrubbed sets of the same executions differ in the code or not at all.
LEMMA OnlyCodeDiffers ==
  ASSUME TypeOK, Whole, Ordered, Conclusive, NEW v \in Stored
  PROVE  Scrubbed(kept[v]) = Scrubbed(fetched)
           <=> \A i \in DOMAIN kept[v] : kept[v][i].rev = code[kept[v][i].type]
<1>. DEFINE g == kept[v]
<1>1. /\ v \in Versions /\ g \in Seq(Histories) /\ Len(g) = NumExecs /\ Len(fetched) = NumExecs
      /\ DOMAIN g = 1..NumExecs /\ DOMAIN fetched = 1..NumExecs
      /\ InOrder(g) /\ InOrder(fetched)
  BY LenProperties DEF TypeOK, Stored, Conclusive, Ordered
<1>2. ASSUME NEW i \in 1..NumExecs
      PROVE  /\ g[i] \in Histories /\ fetched[i] \in Histories
             /\ g[i].type = fetched[i].type /\ g[i].input = fetched[i].input
             /\ g[i].whole = fetched[i].whole
             /\ fetched[i].rev = code[g[i].type]
  <2>1. g[i] \in Histories /\ fetched[i] \in Histories
    BY <1>1, ElementOfSeq DEF TypeOK
  <2>2. g[i].type \in Int /\ fetched[i].type \in Int
    BY <2>1, HistoryAssumption DEF Histories, Types
  <2>3. g[i].type = fetched[i].type
    BY <1>1, <2>2, NotLess DEF TypeOK
  <2>4. g[i].input = fetched[i].input
    <3>1. PICK d \in Execs : g[i].type = feature.type[d] /\ g[i].input = feature.input[d]
      BY <1>1 DEF InOrder
    <3>2. PICK e \in Execs : /\ fetched[i].type = feature.type[e]
                             /\ fetched[i].input = feature.input[e]
      BY <1>1 DEF InOrder
    <3>. QED  BY <2>3, <3>1, <3>2 DEF Conclusive
  <2>5. g[i].whole = TRUE /\ fetched[i].whole = TRUE
    BY <1>1, <2>1 DEF Whole, Histories
  <2>. QED  BY <1>1, <2>1, <2>3, <2>4, <2>5 DEF Ordered
<1>3. \A i \in 1..NumExecs :
        ScrubRunSpecificFields(g[i]) = ScrubRunSpecificFields(fetched[i])
          <=> g[i].rev = fetched[i].rev
  BY <1>2 DEF ScrubRunSpecificFields, Histories
<1>4. Scrubbed(g) = Scrubbed(fetched)
        <=> \A i \in 1..NumExecs :
              ScrubRunSpecificFields(g[i]) = ScrubRunSpecificFields(fetched[i])
  BY <1>1 DEF Scrubbed
<1>. QED  BY <1>1, <1>2, <1>3, <1>4

\* Where the check can tell at all, it is right: a mismatch is of the code, and
\* success means that no code differs from that of a stored history, for any
\* number of executions, types, versions and runs.
THEOREM VerdictRight == Spec => []VerdictIsRight
<1>1. Init => Ordered /\ Judged
  <2>. SUFFICES ASSUME Init PROVE Ordered /\ Judged
    OBVIOUS
  <2>1. InOrder(<<>>)
    <3>1. Len(<<>>) = 0 /\ 1..0 = {}
      BY EmptySeq
    <3>2. [x \in {} |-> 1] \in [{} -> Execs]
      OBVIOUS
    <3>. QED  BY <3>1, <3>2 DEF InOrder
  <2>. QED  BY <2>1, EmptySeq DEF Init, Ordered, Judged
<1>2. IInv /\ Ordered /\ Judged /\ [Next]_vars => Ordered' /\ Judged'
  BY OrderedKept, JudgedKept DEF IInv
<1>3. ASSUME IInv, Ordered, Judged, Conclusive, ~conf.disable
      PROVE  (result = "mismatch" => ~CodeUnchanged) /\ (result = "ok" => CodeUnchanged)
  <2>1. ComparedVersions = Stored
    BY <1>3 DEF ComparedVersions
  <2>2. Differs <=> ~CodeUnchanged
    BY <1>3, <2>1, OnlyCodeDiffers DEF IInv, Differs, CodeUnchanged
  <2>. QED  BY <1>3, <2>2 DEF Judged
<1>4. IInv /\ Ordered /\ Judged => VerdictIsRight
  BY <1>3 DEF VerdictIsRight
<1>. QED  BY <1>1, <1>2, <1>4, HistoryInvariant, PTL DEF Spec

=============================================================================
