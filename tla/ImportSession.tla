--------------------------- MODULE ImportSession ---------------------------
(***************************************************************************)
(* The staged import: AddLayerDialog, ImportPreview with its limits query  *)
(* and parse, the workspace (draft, grid, map, issues, Confirm), and the   *)
(* server that takes the confirmed draft.  One file, opened as often as    *)
(* the user likes; requests and answers may be lost.                       *)
(***************************************************************************)
EXTENDS DraftRules, ParseWorker

CONSTANTS
  Files,        \* a sequence of [document, size, left]: `left` bounds the steps of each kind
  Raws,         \* what the user types in a cell
  NewNames,     \* the column names the user types
  Limits,       \* the values of maxFileBytes the server may be configured with
  MaxRendered,  \* previewMaxFeatures
  MaxFeatures   \* the server's import_max_features

ASSUME FilesAssumption ==
  /\ LET files == Files IN \A f \in DOMAIN files : IsDocument(files[f].document)
  /\ \A type \in DOMAIN Depth, node \in Nodes : None # [type |-> type, coordinates |-> Written(node)]
  /\ None \notin NewNames /\ None # "invalid" /\ MaxFeatures \in Nat

VARIABLES
  size,         \* the bytes of the file the user imports
  open,         \* the dialog is open
  staged,       \* AddLayerDialog's `staged` is the file
  adding,       \* its immediate mutations under way: "importFile", "addPostgisTable"
  limits,       \* the import-limits query: [data, isError, fetching]
  base,         \* what the file parses to: a draft, or None
  work,         \* ImportWorkspace's state and its draft; Fresh while it is not mounted
  requests,     \* import-draft requests: [id, features, answer]
  stored,       \* the documents the server stored as layers, under the file's name
  left          \* steps left of each kind

vars == <<workerVars, size, base, open, staged, adding, limits, work, requests, stored, left>>

Fresh == [draft |-> base, undo |-> <<>>, redo |-> <<>>, selected |-> {}, cellErrors |-> {},
          request |-> 0, isError |-> FALSE, result |-> FALSE]

Init ==
  /\ WorkerInit
  /\ LET files == Files IN \E f \in DOMAIN files :
       size = files[f].size /\ left = files[f].left /\ base = Parse(files[f].document)
  /\ open = FALSE /\ staged = FALSE /\ adding = {}
  /\ limits = [data |-> None, isError |-> FALSE, fetching |-> TRUE]
  /\ work = Fresh /\ requests = {} /\ stored = <<>>

Spend(kind) == left[kind] > 0 /\ left' = [left EXCEPT ![kind] = @ - 1]

-----------------------------------------------------------------------------
(***************************************************************************)
(* What is on the screen.                                                  *)
(***************************************************************************)
Draft == work.draft

Previewing == open /\ staged
TooLarge == limits.data # None /\ size > limits.data
Failure == TooLarge \/ failed \/ limits.isError
Editing == Previewing /\ ~Failure /\ parsed /\ limits.data # None
Reading == Previewing /\ ~Failure /\ ~Editing

\* The workspace keeps its state while it stays mounted.
Kept(w) == work' = IF Editing' THEN w ELSE Fresh

\* The preview mounts; its effect runs if the limits are there.  A query that
\* has gone stale, or has nothing, is fetched again.
Mounts ==
  /\ limits' \in {limits, [limits EXCEPT !.fetching = TRUE, !.isError = @ /\ limits.data # None]}
  /\ limits.data = None => limits'.fetching
  /\ calls' = IF limits.data = None \/ TooLarge THEN {}
              ELSE {[live |-> TRUE, at |-> "text", good |-> base # None]}
  /\ worker' = "unmade" /\ parsed' = FALSE /\ failed' = FALSE

-----------------------------------------------------------------------------
(***************************************************************************)
(* The dialog and the limits.                                              *)
(***************************************************************************)
\* A file staged before the dialog was closed is previewed again.
OpenDialog ==
  /\ ~open /\ Spend("open") /\ open' = TRUE
  /\ IF staged THEN Mounts ELSE UNCHANGED <<workerVars, limits>>
  /\ UNCHANGED <<size, base, staged, adding, work, requests, stored>>

StageFile ==
  /\ open /\ ~staged /\ staged' = TRUE /\ Mounts
  /\ UNCHANGED <<size, base, open, adding, work, requests, stored, left>>

\* A format without a preview, or a PostGIS table: sent at once.
AddNow(kind) ==
  /\ open /\ ~staged /\ kind \notin adding /\ Spend("add") /\ adding' = adding \cup {kind}
  /\ UNCHANGED <<workerVars, size, base, open, staged, limits, work, requests, stored>>

\* onSuccess: onClose, whatever the dialog shows by now.
Added(kind) ==
  /\ kind \in adding /\ adding' = adding \ {kind} /\ open' = FALSE
  /\ Unmounted /\ work' = Fresh
  /\ UNCHANGED <<size, base, staged, limits, requests, stored, left>>

AddFails(kind) ==
  /\ kind \in adding /\ adding' = adding \ {kind}
  /\ UNCHANGED <<workerVars, size, base, open, staged, limits, work, requests, stored, left>>

CloseDialog ==
  /\ open /\ ~staged /\ open' = FALSE
  /\ UNCHANGED <<workerVars, size, base, staged, adding, limits, work, requests, stored, left>>

\* Close, Cancel, the cross (which asks when there are edits) and Done.
ClosePreview ==
  /\ Previewing /\ open' = FALSE /\ staged' = FALSE /\ Unmounted /\ work' = Fresh
  /\ UNCHANGED <<size, base, adding, limits, requests, stored, left>>

\* The network is back: queries fetch again.
Reconnected ==
  /\ ~limits.fetching /\ Spend("refetch")
  /\ limits' = [limits EXCEPT !.fetching = TRUE, !.isError = @ /\ limits.data # None]
  /\ UNCHANGED <<workerVars, size, base, open, staged, adding, work, requests, stored>>

LimitsArrive(bytes) ==
  /\ limits.fetching /\ limits' = [data |-> bytes, isError |-> FALSE, fetching |-> FALSE]
  /\ bytes = limits.data \/ bytes \in Limits
  /\ IF Previewing /\ bytes # limits.data
       THEN EffectRuns(size <= bytes, base # None)
       ELSE UNCHANGED workerVars
  /\ UNCHANGED <<size, base, open, staged>> /\ Kept(work)
  /\ UNCHANGED <<adding, requests, stored, left>>

LimitsFail ==
  /\ limits.fetching /\ limits' = [limits EXCEPT !.fetching = FALSE, !.isError = TRUE]
  /\ UNCHANGED <<workerVars, size, base, open, staged>> /\ Kept(work)
  /\ UNCHANGED <<adding, requests, stored, left>>

ParseProceeds ==
  /\ WorkerProgress
  /\ UNCHANGED <<size, base, open, staged, limits>> /\ Kept(work)
  /\ UNCHANGED <<adding, requests, stored, left>>

ParseEvents ==
  /\ WorkerActs
  /\ UNCHANGED <<size, base, open, staged, limits>> /\ Kept(work)
  /\ UNCHANGED <<adding, requests, stored, left>>

-----------------------------------------------------------------------------
(***************************************************************************)
(* The workspace.                                                          *)
(***************************************************************************)
Changes(w) ==
  /\ Editing /\ work' = w
  /\ UNCHANGED <<workerVars, size, base, open, staged, adding, limits, requests, stored>>

\* The grid's rows follow the selection, or lose theirs with the row; if any
\* row's state changes the grid reports what is left.
Synced(before, selected, after) ==
  IF work.selected \cap Ids(before) = selected \cap Ids(after) THEN selected
  ELSE selected \cap Ids(after)

MutantHistory(undo, redo) == redo
\* A new command ends the redo future.
History(undo, redo) == <<>>

Shows(undo, redo, w) ==
  LET draft == Replay(base, undo)
  IN Changes([w EXCEPT !.draft = draft, !.undo = undo, !.redo = redo,
                       !.selected = Synced(Draft, w.selected, draft)])
Push(c, w) == Shows(Append(work.undo, c), History(work.undo, work.redo), w)

\* One cell: what does not read as the column's type is refused and marked.
EditCell(id, column, raw) ==
  LET value == Coerce(raw, column.type)
      cell == <<id, column.name>>
  IN /\ Spend("edit")
     /\ IF value = None
          THEN Changes([work EXCEPT !.cellErrors = @ \cup {cell}])
          ELSE Push([op |-> "cell", id |-> id, column |-> column.name, value |-> value],
                    [work EXCEPT !.cellErrors = @ \ {cell}])

AddsColumn(name) ==
  Spend("edit") /\ ~NameTaken(Draft, name) /\ Push([op |-> "add", name |-> name], work)

\* `from` is whatever was typed: nothing asks whether it is a column.
MayRename(from, to) == from # to /\ ~NameTaken(Draft, to)
RenamesColumn(from, to) ==
  Spend("edit") /\ MayRename(from, to) /\ Push([op |-> "rename", from |-> from, to |-> to], work)

DeleteSelected ==
  /\ Spend("edit") /\ work.selected # {}
  /\ Push([op |-> "delete", ids |-> work.selected], [work EXCEPT !.selected = {}])

NumericColumns == {c.name : c \in {d \in ToSet(Draft.columns) : d.type = "number"}}
ChoosesColumns(lon, lat) ==
  /\ Spend("edit") /\ Draft.derives
  /\ (lon = Draft.lon) # (lat = Draft.lat)
  /\ Push([op |-> "coordinates", lon |-> lon, lat |-> lat], work)

Undo ==
  /\ Spend("history") /\ work.undo # <<>>
  /\ Shows(Front(work.undo), Append(work.redo, Last(work.undo)), work)

Redo ==
  /\ Spend("history") /\ work.redo # <<>>
  /\ Shows(Append(work.undo, Last(work.redo)), Front(work.redo), work)

\* Selecting: rows of the grid; a feature drawn on the map, or the bare map;
\* an issue of the list, by the place of its feature.
Selects(selected) ==
  Spend("select") /\ Changes([work EXCEPT !.selected = Synced(Draft, selected, Draft)])

SelectRows(ids) == ids # work.selected /\ Selects(ids)

Rendered ==
  LET drawn == SelectSeq(Draft.features, LAMBDA f : f.geometry # None)
  IN SubSeq(drawn, 1, IF Len(drawn) < MaxRendered THEN Len(drawn) ELSE MaxRendered)

\* OpenLayers cannot read what is not even shaped like its type.
ClickMap(id) ==
  /\ id = None \/ \E f \in ToSet(Rendered) : f.id = id /\ CheckGeometry(f.geometry) \notin {"malformed_coordinates", "unsupported_geometry_type"}
  /\ Selects(IF id = None THEN {} ELSE {id})

ClickIssue(i) == i \in Issues(Draft) /\ Selects(IF i >= 0 THEN {i} ELSE {})

-----------------------------------------------------------------------------
(***************************************************************************)
(* Confirm, and the server.                                                *)
(***************************************************************************)
\* An error of a cell that is gone does not count.
ActiveCellErrors == {e \in work.cellErrors : e[1] \in Ids(Draft) /\ e[2] \in Names(Draft)}

MutantBlockingErrors == ActiveCellErrors # {}
BlockingErrors == Draft.features = <<>> \/ Faulty(Draft) # {} \/ ActiveCellErrors # {}
NeedsCoordinates == Draft.derives /\ None \in {Draft.lon, Draft.lat}

Confirm ==
  /\ Editing /\ ~work.result /\ work.request = 0 /\ ~BlockingErrors /\ ~NeedsCoordinates
  /\ Spend("confirm")
  /\ work' = [work EXCEPT !.request = left.confirm, !.isError = FALSE]
  /\ requests' = requests \cup
       {[id |-> left.confirm, features |-> ToFeatureCollection(Draft), answer |-> None]}
  /\ UNCHANGED <<workerVars, size, base, open, staged, adding, limits, stored>>

MutantNameIsTaken == FALSE
NameIsTaken == stored # <<>>

\* Validation of everything first, then one write; the name is the file's.
ServerImports(r) ==
  LET ok == ServerAccepts(r.features, MaxFeatures)
      answer == CASE ~ok -> "invalid" [] ok /\ NameIsTaken -> "conflict" [] OTHER -> "created"
  IN /\ r.answer = None
     /\ requests' = (requests \ {r}) \cup {[r EXCEPT !.answer = answer]}
     /\ stored' = IF answer = "created" THEN Append(stored, r.features) ELSE stored
     /\ UNCHANGED <<workerVars, size, base, open, staged, adding, limits, work, left>>

\* The answer reaches the page; the workspace that asked may be gone.
Answered(r) ==
  /\ r.answer # None /\ requests' = requests \ {r}
  /\ work' = IF work.request # r.id THEN work
             ELSE [work EXCEPT !.request = 0, !.result = r.answer = "created",
                               !.isError = r.answer # "created"]
  /\ UNCHANGED <<workerVars, size, base, open, staged, adding, limits, stored, left>>

\* The connection breaks: the page hears an error, the server may not have
\* heard the request, may still work on it, or may be done.
ConnectionLost(r) ==
  /\ work.request = r.id /\ work' = [work EXCEPT !.request = 0, !.isError = TRUE]
  /\ requests' \in {requests \ {r}} \cup (IF r.answer = None THEN {requests} ELSE {})
  /\ UNCHANGED <<workerVars, size, base, open, staged, adding, limits, stored, left>>

-----------------------------------------------------------------------------
Edits ==
  /\ Editing /\ left.edit > 0
  /\ \/ \E id \in Ids(Draft), column \in ToSet(Draft.columns), raw \in Raws : EditCell(id, column, raw)
     \/ \E name \in NewNames : AddsColumn(name)
     \/ \E from \in Names(Draft) \cup NewNames, to \in Names(Draft) \cup NewNames : RenamesColumn(from, to)
     \/ DeleteSelected
     \/ \E lon, lat \in NumericColumns \cup {None} : ChoosesColumns(lon, lat)

Selections ==
  /\ Editing /\ left.select > 0
  /\ \/ \E ids \in SUBSET Ids(Draft) : SelectRows(ids)
     \/ \E id \in Ids(Draft) \cup {None} : ClickMap(id)
     \/ \E i \in Issues(Draft) : ClickIssue(i)

Next ==
  \/ OpenDialog \/ StageFile \/ CloseDialog \/ ClosePreview
  \/ \E kind \in {"importFile", "addPostgisTable"} : AddNow(kind) \/ Added(kind) \/ AddFails(kind)
  \/ Reconnected \/ LimitsFail \/ \E bytes \in Limits : LimitsArrive(bytes)
  \/ ParseProceeds \/ ParseEvents
  \/ Edits \/ Selections
  \/ Editing /\ (Undo \/ Redo \/ Confirm)
  \/ \E r \in requests : ServerImports(r) \/ Answered(r) \/ ConnectionLost(r)

\* The limits request settles; reads, the event loop and timers go on.
Fairness ==
  /\ WF_vars(LimitsFail \/ \E bytes \in Limits : LimitsArrive(bytes))
  /\ WF_vars(ParseProceeds)

Spec == Init /\ [][Next]_vars /\ Fairness

-----------------------------------------------------------------------------
\* The two sets of rules find the same rows wrong, for the same reason first;
\* where the server's raises, the browser has refused the row (validation.ts).
SameVerdict ==
  Editing => \A f \in ToSet(Draft.features) :
    LET here == CheckGeometry(f.geometry)
        there == ValidateGeometry(f.geometry)
    IN there = here \/ (there = "raises" /\ here # "valid")

\* However a draft of records was edited, undone and redone, its coordinate
\* columns are columns it has and each point is where its cells say.
PointsFollowCells ==
  Editing /\ Draft.derives =>
    /\ {Draft.lon, Draft.lat} \subseteq Names(Draft) \cup {None}
    /\ \A f \in ToSet(Draft.features) :
         f.geometry = BuildPoint(f.properties, Draft.lon, Draft.lat)

\* What is imported is what the grid can show: column names are distinct and
\* no feature has a property without a column, so no rename ever overwrites a
\* value, whatever was undone before it.
EveryValueHasItsColumn ==
  Editing => /\ Cardinality(Names(Draft)) = Len(Draft.columns)
             /\ \A f \in ToSet(Draft.features) : DOMAIN f.properties \subseteq Names(Draft)

WroteNull(geometry) ==
  \E p \in ToSet(Level(geometry.coordinates, Depth[geometry.type])) : Nothing \in ToSet(p.items)

\* A draft that could be confirmed is not refused by the server's validation,
\* but for the limit on features, which the browser does not check, and a
\* number that JSON cannot say.
ConfirmedIsAccepted ==
  \A r \in requests : r.answer = "invalid" =>
    \/ Len(r.features) > MaxFeatures
    \/ \E f \in ToSet(r.features) :
         f.geometry # None /\ f.geometry.type \in DOMAIN Depth /\ WroteNull(f.geometry)

\* Retried after a lost answer, confirmed from a preview opened again: one
\* file is imported at most once.
ImportedOnce == Len(stored) <= 1

\* The overlay of a file being read goes on to the workspace or to a failure
\* with a way out, whatever becomes of the worker.
ReadingEnds == Reading ~> ~Reading

\* Edits are discarded by the user only.
DirtyDraftIsKept ==
  [][Editing /\ work.undo # <<>> /\ ~work.result /\ staged' => Editing']_vars

\* Once the preview was cancelled nothing of it is recorded.
CancelLeavesNoRecord == [][stored' # stored => staged]_vars

\* An issue clicks through to its row.
IssueSelectsItsRow ==
  [][Editing => \A i \in Issues(Draft) \ {-1} :
       ClickIssue(i) => work'.selected = {Draft.features[i + 1].id}]_vars

-----------------------------------------------------------------------------
(***************************************************************************)
(* Why the properties of the draft, the requests and the layers hold.      *)
(***************************************************************************)
\* The draft a preview shows is of a file that was parsed.
ReadingIsHonest ==
  /\ \A c \in calls : c = [live |-> c.live, at |-> c.at, good |-> c.good] /\ (c.good => base # None)
  /\ parsed => base # None

IsDraft(draft) ==
  /\ draft = [derives |-> draft.derives, columns |-> draft.columns, features |-> draft.features,
              lon |-> draft.lon, lat |-> draft.lat]
  /\ draft.derives \in BOOLEAN
  /\ draft.columns \in Seq(ToSet(draft.columns)) /\ draft.features \in Seq(ToSet(draft.features))
  /\ \A c \in ToSet(draft.columns) : c = [name |-> c.name, mixed |-> c.mixed, type |-> c.type]
  /\ \A f \in ToSet(draft.features) :
       /\ f = [id |-> f.id, geometry |-> f.geometry, properties |-> f.properties]
       /\ f.properties = [n \in DOMAIN f.properties |-> f.properties[n]]

\* Column names are distinct, a value has its column, a point its cells.
Sound(draft) ==
  /\ IsDraft(draft)
  /\ None \notin Names(draft)
  /\ \A i, j \in DOMAIN draft.columns : draft.columns[i].name = draft.columns[j].name => i = j
  /\ \A f \in ToSet(draft.features) : DOMAIN f.properties \subseteq Names(draft)
  /\ draft.derives =>
       /\ {draft.lon, draft.lat} \subseteq Names(draft) \cup {None}
       /\ \A f \in ToSet(draft.features) : f.geometry = BuildPoint(f.properties, draft.lon, draft.lat)
  /\ ~draft.derives => \A f \in ToSet(draft.features) : IsGeometry(f.geometry)

\* Every draft on the way to where undo and redo can lead is sound.
Timeline == work.undo \o Reverse(work.redo)

HistoryIsSound ==
  /\ DOMAIN work = {"draft", "undo", "redo", "selected", "cellErrors", "request", "isError", "result"}
  /\ work.undo \in Seq(ToSet(work.undo)) /\ work.redo \in Seq(ToSet(work.redo))
  /\ base # None =>
       /\ Draft = Replay(base, work.undo)
       /\ \A n \in 0..Len(Timeline) : Sound(Drafts(base, Timeline)[n])

\* What was confirmed was found valid, as the draft says it.
Passes(geometry) ==
  \/ ValidateGeometry(geometry) = "valid"
  \/ geometry # None /\ geometry.type \in DOMAIN Depth /\ WroteNull(geometry)

RequestsAreSound ==
  \A r \in requests :
    /\ r = [id |-> r.id, features |-> r.features, answer |-> r.answer]
    /\ r.features \in Seq(ToSet(r.features)) /\ r.features # <<>>
    /\ \A f \in ToSet(r.features) : Passes(f.geometry)
    /\ r.answer = "invalid" => ~ServerAccepts(r.features, MaxFeatures)

ImportInv == ReadingIsHonest /\ HistoryIsSound /\ RequestsAreSound /\ ImportedOnce
=============================================================================
