# Formal models of the GIS platform

TLA+ models of the stateful parts of this repository (a FastAPI/PostGIS backend
under `src/backend/app`, a React/OpenLayers client under `src/web/src`), the TLC
runs that check them on small instances, and TLAPS proofs of the properties that
matter most, for every value of the constants. `PROJECT.json` lists, by name, the
components, the runs, the mutants that each property detects, the source lines
each definition stands for, the findings, the hazards and the theorems.

    tlc -workers 2 -config TaskSystem_safe.cfg TaskSystemMC    # a run
    tlapm TaskSystemProofs.tla                                 # a proof module

## 1. Inventory

| component | state it keeps | operations | talks to | what is hard, and what makes it correct |
|---|---|---|---|---|
| Task queue (`task_service`, `task_worker`, `task_lifecycle`, `task_handlers`) | rows of `task`; per process a worker, `_wake`, the stop event | submit, cancel, retry; claim, report, checkpoint, finish; recover; stop | requests and workers share only the table and `_wake` | a row read in one transaction and written in another, crashes, lost wake-ups: at most one execution, cancels stick, everything ends |
| Dataset pool (`dataset_pool.py`) | `_entries` (order, `in_use`), `_guard`, a lock and a thread per entry, background clean-ups | acquire, release, enforce capacity, evict idle, close all | tile and statistics requests; `lifespan` | cancellation at every await, races to open one key: no reader loses its handle, the count is right, all is closed at the end |
| Edit session (`editSession.ts`, `useEditSession.ts`, `edit_service.py`) | the queue of operations, the flush's iteration, features on the map, rows | draw, modify, delete, save, discard, load | browser and server through three endpoints | edits during a save, rejected requests, lost answers: no edit is dropped, none is sent twice |
| Dataset jobs (`*_import_service`, `analysis_service`, `export_service`) | a table or file, a layer row, a history row, an upload | import, analyse, export, undo, record failure, unlink | two database connections, the file system, the task queue | every step can fail, files are in no transaction: a layer has its data, a failure leaves nothing, an upload outlives a failure |
| Map session (`map/memory/*`, loaders, `syncLayers.ts`, `App.tsx`, `WorkspaceSync.tsx`) | bytes per layer, pins, the live map layers, requests in flight, selection, URL, thumbnail timer | register, record, pin, enforce, sync, load, select, switch project | tile and feature requests, the layer store, the project query | late answers of replaced sources, the order of React effects: bytes are never under-counted, the inspected layer is not evicted, a thumbnail is its project's |
| Workspace shell (`AppShell.tsx`, `workspaceLayout.ts`, `LayoutMenu.tsx`, `map/basemaps/*`) | a layout per project in localStorage, presets, a drag, the theme and what it hid | drag, dock, detach, resize, presets, choose a theme, tile errors | two browser tabs, the router, the layer list | menus and drags gone stale, a shared visibility flag: nothing stays hidden, panels stay reachable, a broken theme ends |
| Import preview (`useParseWorker.ts`, `useImportDraft.ts`, `ImportPreview.tsx`) | a worker, parses in flight, a watchdog each; a draft with undo and redo; the limits query | stage, parse, edit cells and columns, undo, redo, confirm | a web worker, the server's limits and import | a worker that dies, replay of edits, lost answers: reading ends, the draft stays consistent, a file is imported once |
| Validation (`geojson_validation.py`, `validation.ts`) | none | judge a geometry | preview and server | two implementations of one rule set must agree |
| Layer list (`layer_service.py`, `layer_repository.py`, `useLayerMutations.ts`) | rows with places, visibility, opacity; the cached project query | create, patch, delete, reorder, invalidate, refetch | concurrent requests, background jobs | reads before writes without locks, refetches that race invalidations: places are distinct, the list comes to rest on what the database has |
| Attribute table (`useAttributes.ts`, `AttributeTable.tsx`) | pages by key, page and sort, the cell being edited | turn, sort, edit, delete, change of layer | the layer selection, three endpoints | rows kept from another key, closures of an earlier render: what is shown at rest is what was saved |
| Source snapshots (`source_snapshot.py`) | a process-wide LRU cache keyed by layer and `updated_at` | get, invalidate | every read and edit request | filled after an await; the key holds the revision |
| Everything else (tiles, catalogue, styles, pages, configuration, migrations, benchmark) | presentation or none | | | pure functions, read-only SQL, declarations |

The hazards, each at its line, are in `PROJECT.json`. Those that no property
covers say why there.

## 2. Modules

| component | abstract spec | model | TLC instance | proofs |
|---|---|---|---|---|
| task queue | `JobQueue` | `TaskSystem` | `TaskSystemMC` | `TaskSystemProofs` |
| dataset pool | `KeyedLease` | `DatasetPool` | in the cfg | `DatasetPoolProofs` |
| edit session | | `EditSession` | `EditSessionMC` | `EditSessionProofs` |
| dataset jobs | | `DatasetJobs` | `DatasetJobsMC` | `DatasetJobsProofs` |
| map session | | `LayerMemory`, extended by `MapSession` | `MapSessionMC` | `MapSessionProofs` |
| workspace shell | | `WorkspaceLayout`, extended by `Workspace` | `WorkspaceMC` | `WorkspaceProofs` |
| import preview and validation | | `DraftRules` and `ParseWorker`, composed by `ImportSession` | `ImportSessionMC` | `ImportSessionProofs` |
| layer list and attribute table | `QueryCache` (external) | `LayerList` and `AttributeTable`, composed by `LayerData` | `LayerDataMC` | `LayerDataProofs` |

Operators named `Mutant...` are plausible wrong versions of the definition that
follows them. No specification uses them; each property of a passing run is known
to fail when the one listed for it replaces the original.

### TaskSystem

One step is what a coroutine does between two awaits. PostgreSQL runs at READ
COMMITTED: a read sees the last committed row and locks nothing, an UPDATE locks
its row until its transaction ends, and the ORM writes only changed columns.

* `Submit`, `Retry`, `InsertCommit`, `CancelRead`, `CancelFlush`, `CancelCommit`,
  `RequestFails`: the requests (`routes/tasks.py`, `task_service.py`). The session
  commits after the route returns (`db/session.py`), so `notify()` precedes the commit.
* `Claim`, `ClaimNothing`, `Begin`, `Report`, `CheckRaises`, `HandlerReturns`,
  `HandlerRaises`, `Finish`, `Notified`, `PollTimeout`: `run_worker` and `run_once`.
* `IterationFails` is a failing statement of the loop. `HandlerErrorEscapes` is an
  exception of a handler whose session was rolled back: `logger.exception` reads
  `task.id` of an expired object (`task_worker.py:105`), which raises in turn, so
  `run_once` ends and the row stays `running`.
* `Start` (with `recover_interrupted`), `Crash`, `Shutdown`, `WorkerStops`: `lifespan`.

### DatasetPool

The pool lives on one event loop; `_guard` is held across the awaits inside it. A
handle is named after the request that opened it and stands for its `_Entry` too;
each request acquires once. Every await has its cancellation: `CancelEarly` before
anything is held, `CancelOpening` during the shielded open (its clean-up becomes an
orphan's task, `OrphanCloses`, `OrphanEnds`), `CancelCommit`, `CancelCloseOwn`,
`CancelLoser`, `CancelEviction`, `CancelHolder`, `CancelRelease`. A read runs in
`anyio.to_thread.run_sync`, which waits for its thread under a cancellation by one of
anyio's scopes: a cancelled reader leaves when its thread is done. It would not wait
under a `task.cancel()` of asyncio; nothing in `src/` calls that on a request that is
reading, and the model assumes that nothing else does. A cancelled await of a close may
withdraw the close if its thread had not started it (`CloseWithdrawn`); `dropped`
remembers those handles, for the properties only: any other open handle must be in
somebody's charge. Closers that raise are swallowed and count as
closed. `_enforce_capacity` walks the keys once; as the guard is held no entry
becomes idle meanwhile, so it closes the oldest idle entry as often as needed
(`Victims`). `evict_idle` has no caller outside the tests; `EvictIdle` takes any set
of keys as those past the time limit. `CloseAll` runs after the server has drained
its requests.

### EditSession

`Draw`, `Modify`, `DeleteDrawn` and `DeleteSaved` are the map's interactions with
`EditQueue.enqueue`; `Save` starts `flush`, and `Accepted`, `Rejected` and
`AnswerLost` are the ends of one request, the server's work included. Save and
Discard are disabled while a flush runs, the interactions are not. `flush` iterates
over the live array (`at`, `sent`) until `enqueue` replaces it (`detached`, `walk`).
A `modifyend` over several features is several `Modify` steps. Rows that others
delete or lock appear as rejections. `want` remembers, for the properties only, the
last edit of each feature that nobody has accepted or dropped, and `touched` which
features were edited during a flush.

### DatasetJobs

A job is a synchronous import (`vector`, `draft`, `raster`), or a row for the worker
(`task` for a vector import, `analysis`, `export`, and `rasterExport`, which has no
checkpoint). An import's table is committed by the second, synchronous connection, a
file by nothing, an analysis' table by the worker's session. The program counter
follows the order of the code: read, write, register (layer), record (history),
commit, or publish (the report that commits the layer), unlink, finish. "cleanup"
undoes a failed write, "undo" a failed registration; "lost" is an error that escapes
as above. Why an input is refused and which name collides is abstracted to "this
step fails". A cancel is one step here; its races are those of `TaskSystem`.

### LayerMemory and MapSession

`LayerMemory` is `LayerMemoryManager` around the sources of the OpenLayers map.
`SyncLayers` is the whole reconciliation of `syncLayers.ts`: a layer that is new, or
whose tier changed (its fingerprint), gets a source of a new generation and is
registered again, which keeps its bytes and its pin; the others only come and go.
`Ask`, `Answered` and `Fail` are the loaders: a "small" layer is loaded whole, a
"medium" one by window with an abort of the request before, a "tiles" one by tile.
Bytes are charged to the layer's id whichever source asked. OpenLayers is external:
it marks a window at once and asks for what is unmarked. An evicted tile source asks
again for what it lost (for MVT sources, whose `clear()` is taken as a refresh, that is
an assumption); an evicted vector source does not: `clear(true)` empties it and leaves
its windows marked, so that the layer stays blank where it was loaded (`Cleared`).
`Enforce` is one pass of the two-second interval.

`MapSession` puts the camera, the selection, the URL, the identify card, the project
query and the thumbnail around it. `Mounted` is App's mount with its effects in their
order: the sync before the pin, which is why a selection can be `early` (older than
the entry of its layer: `setPinned` then does nothing). `SwitchProject` changes the
route under a mounted App: the manager and the map stay, the camera goes to the new
project's view unless the user has taken hold of it, and its moveend writes the URL and
starts the new timer. Leaving clears both; the selection lives in a store that survives.
`Capture` stores the layers that are on the map when the timer fires, whatever project
the timer was started for.

### WorkspaceLayout and Workspace

A gesture with the effects React runs in its commit is one action. How wide a panel is
follows from the layout and the style sheet (`Width`: between 200 pixels and 520 or 40
percent of the window; the fixed widths of its media queries are left out). A drag clamps
against the stage measured when it began and for a panel of 320 pixels; `LayoutMenu` works on the list it read when
it opened, and another tab writes the same localStorage. `Workspace` adds the Mapbox
themes: `Applied` is `applyMapboxBasemap` on a map given as a value, `Synced` what
the layer list does to the same visibilities. `TileFailed` keeps the callback of the
project the theme was applied in (`tiles.project`).

### DraftRules, ParseWorker and ImportSession

`DraftRules` is data only: what `parseGeoJson.ts` makes of a document, the edits of
`useImportDraft.ts` as values replayed by undo, and the two sets of rules,
`CheckGeometry` (`validation.ts`) and `ValidateGeometry` (`geojson_validation.py`,
with the inputs on which it raises). A JSON value is a type and a value, a coordinate
node a number, a list or null; column names have neither case nor order. What the
user types in a cell is one of `Raws`: how the text reads as each type. The two
recursions of the code over nested lists are written level by level (`Level`): a
position is at most three levels down, `CheckStructure` and `Walk` ask each node of each
level what the code asks of it on its way down. `Nodes` is what may stand in a file, of
any size. `ParseWorker` has a call per run of the
preview's effect: its text is read, it goes to the worker or inline, and answers,
errors and the watchdog settle it; the watchdog terminates the worker under the
others. `ImportSession` is the dialog around them: the limits query (stale after 30
seconds, refetched at mount and reconnect, one retry), the workspace that keeps its
draft while it stays mounted, confirm with a lost answer, retry and the 409 of a
name that is taken.

### QueryCache, LayerList, AttributeTable and LayerData

`QueryCache` is TanStack Query as far as the code relies on it: an invalidated query
on display restarts its fetch only if it has data, a query off display is only marked,
an error stays beside the old data. `LayerList` has a change per request: it loads
(the rows its transaction reads), commits what differs from what it read (SQLAlchemy's
unit of work at READ COMMITTED; a row that is gone makes it fail), and is answered,
which invalidates the list if the page still listens. Background jobs add layers
without telling the page (`missed`). `used` remembers the ids given so far: a new
layer is never one there was. `AttributeTable` has the pages by key with the
placeholder of the last one that had data (a page is the rows it holds with the
table's revision, and a total that is their count or, for a table that the planner takes
to be large, any of its estimates: `PagesOf`), the cell editor that commits on blur, and writes whose success handler is that of the latest render for the last write of its
kind, of the old one otherwise. `LayerData` composes them: the selection, and tables
that come and go with their layers.

## 3. Runs

| run | instance | question | result |
|---|---|---|---|
| `tasks_safety` | 2 processes, 2 clients, 2 tasks, 2 starts, no failing statement | at most one execution, cancels stick, `JobQueue` is implemented | holds |
| `tasks_liveness` | 1 process, 1 client, 2 tasks, 2 starts, 1 fault | every queued task is taken, interrupted work ends, workers and shutdowns end, only its worker ends a task | holds |
| `tasks_terminal_overwritten` | 1 process, 1 task | is a terminal state final? | violated (finding) |
| `pool` | 2 keys, 3 requests, 1 handle, 2 cancellations | readers keep their handle, `KeyedLease` is implemented, requests and cancelled opens end, nothing leaks and `close_all` misses nothing; without cancellations the bound is restored | holds |
| `edits_kept` | 1 row, 2 drawings, 4 edits, 2 saves, 1 rejection, 1 lost answer | no edit is lost or duplicated | holds |
| `edits_passed_over` | 1 row, 1 drawing, 3 edits, 1 save | does flush run every operation? | violated (finding) |
| `jobs_failures` | 3 jobs of any kind, 1 fault, 1 crash | a layer has its data, history is atomic, a failure leaves nothing, uploads outlive failures, one import | holds |
| `workspace_session` | 2 projects, 2 window sizes, panels of 240 to 520 pixels, 2 tabs, 4 mixes of gestures | nothing stays hidden, a broken theme ends, a panel just dropped or detached can be taken hold of | holds |
| `map_session` | 3 layers of 2 projects, 2 windows, 2 requests, 5 mixes of gestures | bytes cover what is held, the inspected layer is kept, the budget is returned to, no thrashing, thumbnails show their project's layers | holds |
| `import_session` | some 750 geometries, 10 small files | the two sets of rules agree, edits and undo keep the draft consistent, a confirmed draft is accepted, one import, reading ends | holds |
| `layer_data` | 4 layers, 2 tables of 2 rows, 7 scenarios, an estimate of 3 rows | list and rows come to rest on what the database has, places are distinct, no change undoes another | holds |
| `layer_table_writes` | the same | does a write go to the layer whose rows were seen? | violated (finding) |

**Bounds.** They are constants of the models and only limit how often the
environment acts. Two processes are the first number at which two workers can meet;
two clients let a cancel and a retry of one task overlap; two starts give one crash
and its recovery (a process only goes down while a start is left, so that the bound
is never what keeps a system down); two tasks give a task and its retry. Three requests on one slot
give the pool a winner, a loser and a third that evicts; two cancellations hit two of
the three (its safety is proved for any number of keys and requests). Four
edits with two drawings reach a create, its update and its delete next to an
operation on a saved row, and the second save meets what the first left. Three
jobs are a task and its two retries, of which the second finds no upload.
Requests, keys, jobs, clients and geometries are interchangeable and reduced by
symmetry, in safety runs only.

In the browser's models the environment is a user, whose gestures are bounded by
budgets: a behaviour gets one of a few mixes (`Budgets`, `Files`, `Scenarios`), each
of which puts enough steps of two or three kinds next to each other for their races,
while a single budget for all of them would only multiply states. Two projects with
three layers give a switch that takes layers off the map, one that keeps none, and a
layer whose tier changes ("small", "medium" in either order); answers that weigh less
than the budget and more, two of the former being over it, make every branch of the
eviction reachable. A drag ends at either edge of the dock zones, just inside or just
outside them, above or below the window, with the panel held at either end of its
header; the windows are one in which a panel can be 520 pixels wide and one in which 40
percent is less than the default width. The
geometries are all lines and rings of up to four members, good and bad, and every
depth of nesting off by one. Two layers with a column in common and one not, two rows
and one row to a page are the least in which a placeholder is of another layer, a page
turns and a sort column is missing; an estimate of three offers a page beyond the last;
three layers with two reorders, an addition and a
removal are the least in which places can collide.

**Deadlock** is not checked where the system may stop: the pool is closed for good,
all jobs are done, or the user has spent the gestures of the behaviour. It is checked
for the task queue and the edit session.

**Fairness.** `TaskSystem`: an open database request goes on; the event loop runs the
worker; a handler returns or raises (it is a finite computation); the poll's timer
and a set event each wake the worker; the operator starts a backend that is down
while `MaxStarts` allows. Nothing is assumed of clients, of cancels, or of the
wake-up being seen. `DatasetPool`: the loop resumes whatever can go on, and opens,
reads and closes end in their threads; nobody has to start, cancel, evict or shut
down. `MapSession`: the interval runs `Enforce`, the render loop asks for something when
something is unmarked, the network settles some request. `Workspace`: requested tiles
and the layer list are answered. `ImportSession`: the limits query settles, file reads,
timers and the event loop go on; nothing is assumed of the worker, whose silence the
watchdog covers. The user is never assumed to do anything. All of it is weak fairness: the lock queues of asyncio are FIFO, and none of
the liveness properties needs more.

**Conditions in properties**, each because the code does otherwise beyond it, and each
found necessary by running the property without it:
`cancels = 0` in `CapacityAtRest` (a cancelled request can leave a claim behind); `dropped`
in `NothingLeaks` and `ShutdownClosesAll` (the handles whose close was withdrawn by a
cancellation, and no others); the window unchanged since the drag began, and the panel not
narrower than where it is held, in `MovedIsReachable`; `faults = 0` and `restarts = 0` in
`FailureLeavesNothing` and `ImportedOnce` of the jobs (a failing clean-up leaves a
table, a crash after the layer's commit imports twice); `touched` in the edit
properties (an edit of the feature in flight is dropped); `lost` in `CreatedOnce` (a
create whose answer was lost is sent again); `early` in `SelectedIsKept`; in
`ConfirmedIsAccepted` the limit on features, which the browser does not check, and an
infinite coordinate, which JSON writes as null; `missed` and the error of the last fetch in
`ListSettles`; `raced` in `DistinctPlaces` (two reorders, or two additions, overlap);
`doubt` in `SavedIsShown` (a lost answer, or a success that arrived when another layer
was selected or a first fetch was under way).

## 4. Findings

1. `tasks_terminal_overwritten`: `request_cancel` decides on a row it read without a
   lock; the worker can commit `succeeded` in between, and the row becomes
   `cancelling`, which no worker ends.
2. `edits_passed_over`: deleting a drawn feature during a save shifts the array under
   the iteration; another feature's operation is neither sent nor kept.
3. `layer_table_writes`: while the rows of a newly selected layer load, the table shows
   those of the layer before, and a delete or an edit there goes to the new layer's row
   of the same id.

Further statements that the code does not keep. Each has a configuration of its own
(run it with the module named) whose counterexample shows how; the models contain
these behaviours, and the properties above hold beside them.

| configuration | module | property | what happens |
|---|---|---|---|
| `TaskSystem_second.cfg` | `TaskSystemMC` | `EndedByItsWorker` | a second backend process fails, at its start, the task the first is executing |
| `DatasetPool_pin.cfg` | `DatasetPool` | `NothingIsPinned` | a request cancelled while it closes its losing handle leaves the winner's `in_use` one too high for good |
| `DatasetJobs_orphan.cfg` | `DatasetJobsMC` | `AnalysisLeavesNothing` | a cancellation seen right after `CREATE TABLE AS` is committed together with the table |
| `Workspace_drag.cfg` | `WorkspaceMC` | `DroppedIsReachable` | a drop is clamped to the window the drag began in; if it has shrunk meanwhile, the panel's header ends outside it |
| `Workspace_layout.cfg` | `WorkspaceMC` | `LayoutIsPerProject` | switching project saves the old project's layout under the new one before loading it |
| `Workspace_basemap.cfg` | `WorkspaceMC` | `BasemapsAreHidden` | a refetch of the layer list shows the project's basemap again under a Mapbox theme |
| `MapSession_windows.cfg` | `MapSessionMC` | `WindowsComeBack` | a window whose request was aborted or failed, or whose vector layer was evicted, stays marked and is not asked for again |
| `ImportSession_kept.cfg` | `ImportSessionMC` | `DirtyDraftIsKept` | a failed refetch of the limits unmounts the workspace with the user's edits |
| `ImportSession_cancel.cfg` | `ImportSessionMC` | `CancelLeavesNoRecord` | Cancel during a confirm closes the preview; the layer is created all the same |
| `ImportSession_issue.cfg` | `ImportSessionMC` | `IssueSelectsItsRow` | after a row was deleted, an issue's position is taken for a row's id |
| `LayerData_stack.cfg` | `LayerDataMC` | `StackIsTheList` | a reorder that overlaps another succeeds and leaves places of both |

## 5. Proofs

All eight proof modules follow one argument. A typing lemma (`Init => TypeOK`,
`TypeOK /\ [Next]_vars => TypeOK'`) and an inductive invariant, one step per action
and under it the conjuncts the action can disturb; the properties are conjuncts of
the invariant or follow from it. The invariants were run through TLC on the
instances above before they were proved (that of the import preview on part of its
instance: replaying every prefix of an edit's history in every state is slow).

* `TaskSystemProofs`. The properties alone are not inductive: that two workers cannot
  hold one task needs `WorkerStartedItsTask`; that a claim starts clean needs
  `CleanUntilTaken`; that an insert cannot hit a used row needs `IdsAreFresh` and
  `InsertOwnsItsId`; that a cancel cannot revive an uncommitted row needs
  `CancelsCommittedRow`. `TaskInv` collects them. Proved: `TypeCorrect`,
  `Invariance`, `ExclusiveExecutionHolds`, `CancelSticksHolds`,
  `SuccessHasResultHolds`, `RetryOfAttemptedHolds`, `NeverRequeuedHolds`,
  `EndedByItsWorkerHolds` (for a single process, its stated assumption), and
  `ImplementsJobQueue`: initial states map to initial states, each action to one of
  `JobQueue` or a stutter.
* `DatasetPoolProofs`. `PoolShape` says who may hold the guard, that a claim has its
  entry (`ClaimsHaveEntries`), that an entry's handle was committed and is open
  unless its holder closes it, and that what is being closed is claimed by nobody
  (`ClosingIsUnclaimed`); with `ClaimsAreCounted` this gives that an idle entry is
  unclaimed, the fact every eviction rests on. Four counting lemmas treat the
  cardinality of claims. Proved: `PoolTypeCorrect`, `PoolInvariance`,
  `ClaimsAreCountedHolds`, `ReadersHaveOpenHandleHolds`, `ExclusiveReadHolds`,
  `ImplementsKeyedLease`. On top of it `PoolRest` says what is left behind: that a live
  handle is in an entry, with a request, with an orphan's clean-up, about to be closed or
  among the `dropped` (`NothingLeaks`, inductive with `PoolShape`), and that `close_all` starts at rest
  and its sweep has every entry (`ShutdownIsFinal`), give `ShutdownClosesAllHolds` and
  `NothingLeaksHolds`; that nothing is pinned and an over-full pool has no idle entry except while one is being
  closed (`EvictionKeepsUp`, which needs that the order of the entries is strict, so
  that the oldest idle one exists whenever an idle one does) give `CapacityAtRestHolds`.
* `DatasetJobsProofs`. `JobInv` ties the program counter to what exists at it: which
  steps belong to which kind (`StepsFitKind`), that a retry's source is a task
  (`SourceFitsKind`), where data is durable (`DataIsDurable`), where a layer may be
  pending (`LayerFollowsData`), which history row belongs to a step
  (`HistoryFitsStep`). Proved: `JobsTypeCorrect`, `JobsInvariance`,
  `LayerHasDataHolds`, `HistoryIsAtomicHolds`, `UploadKeptUntilImportedHolds`.
  `JobRest` adds, for behaviours without a failing clean-up or a crash, what a job owns at each step
  (`OwnedAtEachStep`: a step that may end the job must own what the end allows), that
  one job is at the worker (`WorkerIsExclusive`) and that an import that committed its
  layer has spent its upload (`UploadIsSpent`): `FailureLeavesNothingHolds`,
  `ImportedOnceHolds`.
* `EditSessionProofs`. The two properties need two accounts of the queue. For
  `CreatedOnce`, the create of a drawing is in one place at most, the request, the rest
  of the array or the operations to put back (`CreateIsSingle`), and while it is
  anywhere no row was made of it, lost answers excepted (`CreateIsNew`); `enqueue`
  folds an update or a delete into it, so the filter of a queue is described by the
  rank of what it keeps (`RankIsOnto`). For `EditsAreKept`, as long as nobody edits
  during a flush the array is the one the flush walks, and the last edit of each
  feature is at or after the position of the flush, or among what it puts back
  (`NothingPassedOver`); one update per feature (`Single`) keeps a replaced one from
  coming back. Proved: `EditTypeCorrect`, `EditInvariance`, `EditsAreKeptHolds`,
  `CreatedOnceHolds`.

* `MapSessionProofs`. `MapInv` has a memory part and a session part. That bytes cover
  what is held (`ChargedCoversHeld`) is not inductive: an answer is charged by the tier
  of its request and counted by the tier of the live source, so a request of the live
  generation must be of its tier (`RequestsFitSource`), which needs that a new source
  gets a generation no request or entry mentions (`FreshIsNew`, `GensAreFinite`); an
  eviction sets the bytes to zero, so it must empty the live source and not an older
  one (`ClearsTheSource`), and nothing may be on the map unregistered
  (`MapIsRegistered`). `SelectedIsPinned` gives the pin through rebuilds and switches;
  the action theorem then needs only that evictions spare pinned layers and that a new
  source has a new generation. For the thumbnail the session part says that every list of
  a project has its layers only (`IsListOf`), that the map has the list of the route's
  project, and that the timer is for that project. Each operation of `LayerMemory` has its lemma, which
  `MapSession`'s actions reuse. Proved: `MapInvariance`, `ChargedCoversHeldHolds`,
  `SelectedIsKeptHolds`, `ThumbnailIsOwnHolds`. The order of the layers by use is left
  out of the typing: it decides which layer is evicted, not whether eviction is right.
* `WorkspaceProofs`. `VisibleIsShown` says nothing of the mark by which a hidden layer
  is found again; `OnlyBasemapsHidden` adds it. `applyMapboxBasemap` and `syncLayers`
  are functions of a map, so each has a lemma on any map in order (`SyncedIsOK`,
  `HiddenIsOK`, `RestoredIsOK`, `AppliedIsOK`), which the actions combine; of the layout
  the proof needs only that it opens no project (`LayoutKeepsProject`). Proved:
  `BasemapInvariance`, `VisibleIsShownHolds`.
* `LayerDataProofs`. `ListInv` is about the panel's list. A list that differs from the
  rows has a committed change to hear of, a fetch to make, one under way that read the
  present rows, or an error (`StaleIsKnown`); at rest that is `ListSettles`. Places stay
  distinct because a loaded addition still goes above every row (`GoesOnTop`) and what a
  loaded reorder read still holds but for layers removed and layers added above
  (`StillStands`): of the p + 1 layers a reorder puts at p or below, one was at p or
  above (`SomeLayerIsAsHigh`, a pigeonhole), so a layer added since, which is above all
  of them, is above their new places as well. That a layer to be added was in no list
  anyone read needs `CreatesAreNew`. `TableInv` is the same argument for the pages: a page
  whose rows are not the table's, whatever its total says, has a write to hear of, a fetch to make, an invalid mark or an error
  (`OldPagesAreKnown`), a write nobody listens to is in doubt (`WritesAreHeard`), and
  what is on display is fetched until it is valid or fails (`DisplayIsFetched`).
  `TablesAreOfLayers` and `NewIsUnseen` join the two: a table that appears has no page
  yet. Proved: `ListInvariance`, `ListSettlesHolds`, `DistinctPlacesHolds`,
  `OtherChangesStandHolds`, `DataInvariance`, `SavedIsShownHolds`.

* `ImportSessionProofs`. `ImportInv` says why a draft stays consistent under edits,
  undo and redo in any order. `Sound` is what a draft must be: names distinct, every
  value under a column, the coordinate columns among them, points where the cells say,
  and geometries made of nodes of the file. That the draft shown is sound is not
  inductive: an undo goes back to a draft no longer in the state. `HistoryIsSound` says
  it of every prefix of the timeline, the undo stack followed by the reversed redo stack,
  each replayed from the file as parsed: undo and redo move a command from one stack to
  the other and leave the timeline as it is (`SameTimeline`), a new command cuts it
  (`FirstOnes`) and adds one step, which is legal where it was pushed
  (`Legal`, `ApplyIsSound`, one lemma per command). What a document parses to is sound
  (`ParseIsSound`), through the inference of columns and the choice of coordinate
  columns. For the rules, `SameRules` compares the browser's and the server's code level
  by level (`SameAtANode`); `ConfirmedPasses` adds what JSON does to the numbers of a
  draft the browser found valid. `RequestsAreSound` keeps that of what was sent. Proved:
  `ImportInvariance`, `SameVerdictHolds`, `PointsFollowCellsHolds`,
  `EveryValueHasItsColumnHolds`, `ConfirmedIsAcceptedHolds`, `ImportedOnceHolds`, for
  files of any number of features, rows and nodes.

Where an argument is by induction over data (the prefixes of a history, the greatest place of a stack, the first
operation of a kind, the layers counted below a place) the proofs use what the library
states of cardinalities, or a least counterexample among the numbers.

The proofs assume only the named assumptions on the constants (`BoundsAssumption`,
`PoolAssumption`, `JobsAssumption`, `EditBounds`, `MemoryBounds`, `SessionBounds`,
`WorkspaceBounds`, `LayersAssumption`, `TablesAssumption`, `ScenariosAssumption`,
`NodesAssumption` and `FilesAssumption`: a file is a document of nodes, and what is in a
node is one), which
TLC evaluates in the runs. The bounds being arbitrary, the theorems hold for any number of processes,
requests, jobs, layers, projects, gestures, failures and restarts.

**Only model-checked**: all liveness (`QueuedIsTaken`, `InterruptedIsEnded`,
`WorkerIsFreed`, `ShutdownEnds`, `AcquireEnds`, `CancelledOpenIsClosed`,
`BrokenThemeEnds`, `BudgetIsRespected`, `OversizeIsNotThrashed`, `ReadingEnds`), which
needs ENABLED and is out of the prover's reach; and
`MovedIsReachable`, which depends on the sizes of the windows.

## 6. Not modelled

Log texts and progress figures of tasks; SQL text and column checks; rendering of tiles;
a project's deletion under a running task in `TaskSystem` (`DatasetJobs` has it); two
browsers editing one layer, other than through rejections; the attribute pages that a save of the edit session leaves stale (the edit session is
composed with neither the map nor the table; each layer has a queue of its own, and a
save keeps to the layer and the queue it began with). Of the browser: what a style
draws and the style editor, filters of the table (no control sets them), renaming a layer
(no control either), refetches of the list and of pages at reconnect, layers whose id
columns differ, keyboard focus, and the pages outside the workspace, which show one query
each. The source snapshot cache keys its entries by the layer's revision, so its races
cost a refill and nothing else. The components without a module are `not_modelled` in
`PROJECT.json`, with the reason.

## 7. Plan

1. `EditSession` composed with `AttributeTable`: the pages a save leaves stale.
2. `Backend`: `TaskSystem` and `DatasetJobs` composed, so that the races of a cancel
   meet the commits of a handler.
