----------------------------- MODULE DatasetJobs -----------------------------
(***************************************************************************)
(* Jobs that turn files and queries into datasets, and what they leave     *)
(* behind when a step fails: the synchronous imports of one HTTP request   *)
(* (vector file, edited draft, raster) and the handlers the task worker    *)
(* runs (vector import, analysis, exports).                                *)
(*                                                                         *)
(* A dataset lives in two places.  Its data is a table of gis_data or a    *)
(* file, and its layer is a row written by the job's database session.  An *)
(* import's table is committed by a second connection and a file by no     *)
(* transaction at all, so the code undoes them by hand; an analysis makes  *)
(* its table inside the session.  A step is what the job does between two  *)
(* awaits; every step may fail in the ways the code tells apart.           *)
(* TaskSystem has the details of claiming and cancelling: here a cancel is *)
(* one step.                                                               *)
(***************************************************************************)
EXTENDS Naturals, FiniteSets

CONSTANTS
  Jobs,       \* requests and tasks; a job is also the name of its upload and data
  NoJob,      \* the worker is free
  MaxFaults,  \* bound: failing commits, clean-ups and recordings
  MaxRestarts \* bound: crashes of the backend

ASSUME JobsAssumption ==
  /\ NoJob \notin Jobs
  /\ MaxFaults \in Nat
  /\ MaxRestarts \in Nat

VARIABLES
  kind, pc,  \* of each job: what it is and where it is
  source,    \* source[j]: the job whose upload j reads (a retry shares it)
  uploads,   \* uploaded files on disk
  data,      \* data[j]: the table or file of j; "pending" in j's transaction
  layer,     \* layer[j]: the layer row of j
  row,       \* row[j]: the state in j's row of the task table
  worker,    \* the task the worker executes
  project,   \* does the project still exist?
  faults, restarts

jobVars == <<kind, source, worker>>
vars == <<kind, pc, source, uploads, data, layer, row, worker, project, faults, restarts>>

InRequest == {"vector", "draft", "raster"}

Exports == {"export", "rasterExport"}

InWorker == {"task", "analysis"} \cup Exports

\* "cleanup" undoes a failed write, "undo" a failed registration.  "lost" is a
\* handler's exception after its session was rolled back, which escapes from
\* run_once (TaskSystem's HandlerErrorEscapes).
Pcs == {"idle", "upload", "write", "register", "cleanup", "undo", "record", "commit",
        "recordFailure", "leave", "queued", "read", "ctas", "checkCtas", "publish",
        "unlink", "checkFile", "finish", "cancelled", "fail", "lost", "done"}

Rows == {"none", "pending", "queued", "running", "cancelling",
         "succeeded", "failed", "cancelled", "gone"}

TypeOK ==
  /\ kind \in [Jobs -> InRequest \cup InWorker \cup {"none"}]
  /\ pc \in [Jobs -> Pcs]
  /\ source \in [Jobs -> Jobs]
  /\ uploads \subseteq Jobs
  /\ data \in [Jobs -> {"none", "pending", "stored"}]
  /\ layer \in [Jobs -> {"none", "pending", "stored", "deleted"}]
  /\ row \in [Jobs -> Rows]
  /\ worker \in Jobs \cup {NoJob}
  /\ project \in BOOLEAN
  /\ faults \in 0 .. MaxFaults
  /\ restarts \in 0 .. MaxRestarts

Init ==
  /\ kind = [j \in Jobs |-> "none"]
  /\ pc = [j \in Jobs |-> "idle"]
  /\ source = [j \in Jobs |-> j]
  /\ uploads = {}
  /\ data = [j \in Jobs |-> "none"]
  /\ layer = [j \in Jobs |-> "none"]
  /\ row = [j \in Jobs |-> "none"]
  /\ worker = NoJob
  /\ project = TRUE
  /\ faults = 0
  /\ restarts = 0

Goto(j, next) == pc' = [pc EXCEPT ![j] = next]

Fault ==
  /\ faults < MaxFaults
  /\ faults' = faults + 1

NoFault == UNCHANGED faults

\* The value of a row or table after the session of j rolled back.
RolledBack(value) == IF value = "pending" THEN "none" ELSE value

Committed(value) == IF value = "pending" THEN "stored" ELSE value

\* The steps of j happen in the worker, on a task whose row still exists.
Reports(j) == row[j] # "gone"

-----------------------------------------------------------------------------
(***************************************************************************)
(* Requests that import within the request                                 *)
(***************************************************************************)
StartRequest(j, k) ==
  /\ pc[j] = "idle"
  /\ kind' = [kind EXCEPT ![j] = k]
  /\ Goto(j, IF k = "draft" THEN "write" ELSE "upload")
  /\ UNCHANGED <<source, uploads, data, layer, row, worker, project, faults, restarts>>

\* save_upload into the request's work directory.
SaveUpload(j) ==
  /\ pc[j] = "upload"
  /\ uploads' = uploads \cup {j}
  /\ Goto(j, "write")
  /\ UNCHANGED <<jobVars, data, layer, row, project, faults, restarts>>

\* Too large: the partial file is removed.  import_raster_file records nothing.
UploadFails(j) ==
  /\ pc[j] = "upload"
  /\ Goto(j, IF kind[j] = "raster" THEN "leave" ELSE "recordFailure")
  /\ UNCHANGED <<jobVars, uploads, data, layer, row, project, faults, restarts>>

\* _read_frame rejects the file, the validation rejects the draft.
InputRejected(j) ==
  /\ pc[j] = "write"
  /\ kind[j] \in {"vector", "draft"}
  /\ Goto(j, "recordFailure")
  /\ UNCHANGED <<jobVars, uploads, data, layer, row, project, faults, restarts>>

MutantRecordFinished(j) ==
  /\ pc[j] = "record"
  /\ row' = [row EXCEPT ![j] = "succeeded"]
  /\ uploads' = uploads \ {j}
  /\ Goto(j, "commit")
  /\ UNCHANGED <<jobVars, data, layer, project, faults, restarts>>

\* record_finished: the history row joins the request's transaction, and the
\* work directory is removed before the transaction commits.
RecordFinished(j) ==
  /\ pc[j] = "record"
  /\ row' = [row EXCEPT ![j] = "pending"]
  /\ uploads' = uploads \ {j}
  /\ Goto(j, "commit")
  /\ UNCHANGED <<jobVars, data, layer, project, faults, restarts>>

\* Only the raster import guards its data against a failure of this step.
RecordFails(j) ==
  /\ pc[j] = "record"
  /\ Fault
  /\ data' = [data EXCEPT ![j] = IF kind[j] = "raster" THEN "none" ELSE @]
  /\ Goto(j, "leave")
  /\ UNCHANGED <<jobVars, uploads, layer, row, project, restarts>>

\* get_session commits the layer and its history row.
RequestCommits(j) ==
  /\ pc[j] = "commit"
  /\ layer' = [layer EXCEPT ![j] = "stored"]
  /\ row' = [row EXCEPT ![j] = "succeeded"]
  /\ Goto(j, "done")
  /\ UNCHANGED <<jobVars, uploads, data, project, faults, restarts>>

CommitFails(j) ==
  /\ pc[j] = "commit"
  /\ Fault
  /\ layer' = [layer EXCEPT ![j] = "none"]
  /\ row' = [row EXCEPT ![j] = "none"]
  /\ Goto(j, "done")
  /\ UNCHANGED <<jobVars, uploads, data, project, restarts>>

\* record_failure_detached commits in a session of its own, and a failure of
\* its own is swallowed.
RecordFailure(j) ==
  /\ pc[j] = "recordFailure"
  /\ \/ row' = [row EXCEPT ![j] = IF project THEN "failed" ELSE @] /\ NoFault
     \/ UNCHANGED row /\ Fault
  /\ Goto(j, "leave")
  /\ UNCHANGED <<jobVars, uploads, data, layer, project, restarts>>

\* The exception leaves the service and get_session rolls back.
LeaveRequest(j) ==
  /\ pc[j] = "leave"
  /\ layer' = [layer EXCEPT ![j] = RolledBack(@)]
  /\ uploads' = uploads \ {j}
  /\ Goto(j, "done")
  /\ UNCHANGED <<jobVars, data, row, project, faults, restarts>>

-----------------------------------------------------------------------------
(***************************************************************************)
(* Writing the data and registering the layer                              *)
(***************************************************************************)

\* _write_frame on its own connection, _inspect_and_normalise, _write_vector.
Write(j) ==
  /\ pc[j] = "write"
  /\ data' = [data EXCEPT ![j] = "stored"]
  /\ Goto(j, IF kind[j] \in Exports THEN "checkFile" ELSE "register")
  /\ UNCHANGED <<jobVars, uploads, layer, row, project, faults, restarts>>

\* The write fails half-way: the table may be committed without its indexes,
\* the file may be there in part.  An export leaves it.
WriteFails(j) ==
  /\ pc[j] = "write"
  /\ \E part \in {"none", "stored"} : data' = [data EXCEPT ![j] = part]
  /\ Goto(j, IF kind[j] \in Exports THEN "fail" ELSE "cleanup")
  /\ UNCHANGED <<jobVars, uploads, layer, row, project, faults, restarts>>

\* A request records its success, an import task reports once more.
AfterRegister(j) ==
  IF kind[j] \in InRequest THEN "record"
  ELSE IF kind[j] = "task" THEN "publish" ELSE "finish"

\* create_layer and the update with extent and count, in the job's session.
Register(j) ==
  /\ pc[j] = "register"
  /\ project
  /\ layer' = [layer EXCEPT ![j] = "pending"]
  /\ Goto(j, AfterRegister(j))
  /\ UNCHANGED <<jobVars, uploads, data, row, project, faults, restarts>>

MutantRegisterFails(j) ==
  /\ pc[j] = "register"
  /\ Goto(j, IF kind[j] \in InRequest THEN "recordFailure" ELSE "fail")
  /\ UNCHANGED <<jobVars, uploads, data, layer, row, project, faults, restarts>>

\* The project is gone, the name is taken, the metadata cannot be read: the
\* layer row may be in the open transaction already.
RegisterFails(j) ==
  /\ pc[j] = "register"
  /\ \/ UNCHANGED layer
     \/ project /\ layer' = [layer EXCEPT ![j] = "pending"]
  /\ Goto(j, "undo")
  /\ UNCHANGED <<jobVars, uploads, data, row, project, faults, restarts>>

\* Where the exception goes on after a clean-up.  Of a request only an AppError
\* is recorded; a registration may fail by an error that rolls the session back.
AfterCleanup(j) ==
  IF kind[j] \in InRequest THEN {"recordFailure", "leave"}
  ELSE IF pc[j] = "undo" THEN {"fail", "lost"} ELSE {"fail"}

MutantCleanup(j) ==
  /\ pc[j] \in {"cleanup", "undo"}
  /\ data' = [data EXCEPT ![j] = "none"]
  /\ UNCHANGED layer
  /\ Goto(j, IF kind[j] \in InRequest THEN "record" ELSE "fail")
  /\ UNCHANGED <<jobVars, uploads, row, project, faults, restarts>>

\* _drop_table, target.unlink, or the analysis' rollback, DROP and commit.
Cleanup(j) ==
  /\ pc[j] \in {"cleanup", "undo"}
  /\ data' = [data EXCEPT ![j] = "none"]
  /\ layer' = [layer EXCEPT ![j] = IF kind[j] = "analysis" THEN RolledBack(@) ELSE @]
  /\ \E next \in AfterCleanup(j) : Goto(j, next)
  /\ UNCHANGED <<jobVars, uploads, row, project, faults, restarts>>

\* What the clean-up raises is no AppError.
CleanupFails(j) ==
  /\ pc[j] \in {"cleanup", "undo"}
  /\ Fault
  /\ \E next \in AfterCleanup(j) \ {"recordFailure"} : Goto(j, next)
  /\ UNCHANGED <<jobVars, uploads, data, layer, row, project, restarts>>

-----------------------------------------------------------------------------
(***************************************************************************)
(* Tasks                                                                   *)
(***************************************************************************)

\* The routes queue a task; an import keeps its upload for the handler.
Submit(j, k) ==
  /\ pc[j] = "idle"
  /\ project
  /\ kind' = [kind EXCEPT ![j] = k]
  /\ uploads' = IF k = "task" THEN uploads \cup {j} ELSE uploads
  /\ row' = [row EXCEPT ![j] = "queued"]
  /\ Goto(j, "queued")
  /\ UNCHANGED <<source, data, layer, worker, project, faults, restarts>>

\* The commit of the row fails: nobody will read the upload.
SubmitFails(j) ==
  /\ pc[j] = "idle"
  /\ project
  /\ Fault
  /\ kind' = [kind EXCEPT ![j] = "task"]
  /\ uploads' = uploads \cup {j}
  /\ Goto(j, "done")
  /\ UNCHANGED <<source, data, layer, row, worker, project, restarts>>

\* retry_task copies the parameters, the path of the upload among them.
Retry(j, original) ==
  /\ pc[j] = "idle"
  /\ kind[original] \in InWorker
  /\ row[original] \in {"failed", "cancelled"}
  /\ kind[original] = "task" => source[original] \in uploads
  /\ kind' = [kind EXCEPT ![j] = kind[original]]
  /\ source' = [source EXCEPT ![j] = source[original]]
  /\ row' = [row EXCEPT ![j] = "queued"]
  /\ Goto(j, "queued")
  /\ UNCHANGED <<uploads, data, layer, worker, project, faults, restarts>>

RequestCancel(j) ==
  /\ row[j] \in {"queued", "running"}
  /\ row' = [row EXCEPT ![j] = IF @ = "queued" THEN "cancelled" ELSE "cancelling"]
  /\ UNCHANGED <<jobVars, pc, uploads, data, layer, project, faults, restarts>>

Claim(j) ==
  /\ worker = NoJob
  /\ row[j] = "queued"
  /\ worker' = j
  /\ row' = [row EXCEPT ![j] = "running"]
  /\ Goto(j, "read")
  /\ UNCHANGED <<kind, source, uploads, data, layer, project, faults, restarts>>

\* The handler resolves its inputs (the upload, a layer), passes its first
\* checkpoint (the raster export has none) and reports.
ReadInputs(j) ==
  /\ pc[j] = "read"
  /\ Reports(j)
  /\ row[j] = "cancelling" => kind[j] = "rasterExport"
  /\ kind[j] = "task" => source[j] \in uploads
  /\ Goto(j, IF kind[j] = "analysis" THEN "ctas" ELSE "write")
  /\ UNCHANGED <<jobVars, uploads, data, layer, row, project, faults, restarts>>

ReadFails(j) ==
  /\ pc[j] = "read"
  /\ Goto(j, "fail")
  /\ UNCHANGED <<jobVars, uploads, data, layer, row, project, faults, restarts>>

\* check_cancelled raises at a checkpoint: after reading, after the analysis
\* ran, after the export's file was written.
CheckRaises(j) ==
  /\ pc[j] \in {"read", "checkCtas", "checkFile"}
  /\ row[j] = "cancelling"
  /\ kind[j] # "rasterExport"
  /\ Goto(j, "cancelled")
  /\ UNCHANGED <<jobVars, uploads, data, layer, row, project, faults, restarts>>

\* CREATE TABLE AS, in the transaction of the task's session.
RunAnalysis(j) ==
  /\ pc[j] = "ctas"
  /\ data' = [data EXCEPT ![j] = "pending"]
  /\ Goto(j, "checkCtas")
  /\ UNCHANGED <<jobVars, uploads, layer, row, project, faults, restarts>>

AnalysisFails(j) ==
  /\ pc[j] \in {"ctas", "checkCtas"}
  /\ Goto(j, "fail")
  /\ UNCHANGED <<jobVars, uploads, data, layer, row, project, faults, restarts>>

\* report(0.75) commits the session, and with it the table.
AnalysisReports(j) ==
  /\ pc[j] = "checkCtas"
  /\ row[j] = "running"
  /\ data' = [data EXCEPT ![j] = "stored"]
  /\ Goto(j, "register")
  /\ UNCHANGED <<jobVars, uploads, layer, row, project, faults, restarts>>

\* report(0.95) of an export.
ExportReports(j) ==
  /\ pc[j] = "checkFile"
  /\ Reports(j)
  /\ row[j] = "cancelling" => kind[j] = "rasterExport"
  /\ Goto(j, "finish")
  /\ UNCHANGED <<jobVars, uploads, data, layer, row, project, faults, restarts>>

MutantPublish(j) ==
  /\ pc[j] = "publish"
  /\ Goto(j, "unlink")
  /\ UNCHANGED <<jobVars, uploads, data, layer, row, project, faults, restarts>>

\* report(0.95) of an import commits the layer, before the task has ended.
Publish(j) ==
  /\ pc[j] = "publish"
  /\ layer' = [layer EXCEPT ![j] = "stored"]
  /\ Goto(j, "unlink")
  /\ UNCHANGED <<jobVars, uploads, data, row, project, faults, restarts>>

\* The upload is removed before the task's last commit.
UnlinkUpload(j) ==
  /\ pc[j] = "unlink"
  /\ uploads' = uploads \ {source[j]}
  /\ Goto(j, "finish")
  /\ UNCHANGED <<jobVars, data, layer, row, project, faults, restarts>>

\* A report whose commit fails rolled the session back; a file that cannot be
\* removed leaves it as it is.
StepFails(j) ==
  /\ pc[j] \in {"read", "ctas", "checkCtas", "publish", "unlink", "checkFile"}
  /\ Fault
  /\ Goto(j, IF pc[j] = "unlink" THEN "fail" ELSE "lost")
  /\ UNCHANGED <<jobVars, uploads, data, layer, row, project, restarts>>

\* A report on a row that was deleted with its project.
ReportMisses(j) ==
  /\ pc[j] \in {"checkCtas", "checkFile"}
  /\ ~Reports(j)
  /\ Goto(j, "lost")
  /\ UNCHANGED <<jobVars, uploads, data, layer, row, project, faults, restarts>>

EndOf(j) == CASE pc[j] = "finish"    -> "succeeded"
              [] pc[j] = "cancelled" -> "cancelled"
              [] pc[j] = "fail"      -> "failed"

MutantFinish(j) ==
  /\ pc[j] \in {"finish", "cancelled", "fail"}
  /\ Reports(j)
  /\ data' = [data EXCEPT ![j] = Committed(@)]
  /\ layer' = [layer EXCEPT ![j] = Committed(@)]
  /\ row' = [row EXCEPT ![j] = EndOf(j)]
  /\ worker' = NoJob
  /\ Goto(j, "done")
  /\ UNCHANGED <<kind, source, uploads, project, faults, restarts>>

\* The last commit of run_once commits whatever the session holds: the layer
\* of an analysis that succeeded, the table of one that was cancelled.  An
\* exception rolled the session back first.
Finish(j) ==
  /\ pc[j] \in {"finish", "cancelled", "fail"}
  /\ Reports(j)
  /\ LET outcome(value) == IF pc[j] = "fail" THEN RolledBack(value) ELSE Committed(value)
     IN  /\ data' = [data EXCEPT ![j] = outcome(@)]
         /\ layer' = [layer EXCEPT ![j] = outcome(@)]
  /\ row' = [row EXCEPT ![j] = EndOf(j)]
  /\ worker' = NoJob
  /\ Goto(j, "done")
  /\ UNCHANGED <<kind, source, uploads, project, faults, restarts>>

\* The refresh or the last commit fails (it must when the row is gone), or the
\* exception escaped: the worker goes on, the row stays as it is.
IterationFails(j) ==
  /\ pc[j] \in {"finish", "cancelled", "fail", "lost"}
  /\ IF Reports(j) /\ pc[j] # "lost" THEN Fault ELSE NoFault
  /\ data' = [data EXCEPT ![j] = RolledBack(@)]
  /\ layer' = [layer EXCEPT ![j] = RolledBack(@)]
  /\ worker' = NoJob
  /\ Goto(j, "done")
  /\ UNCHANGED <<kind, source, uploads, row, project, restarts>>

-----------------------------------------------------------------------------
(***************************************************************************)
(* Users and the environment                                               *)
(***************************************************************************)

\* DELETE /layers/{id} removes the row and leaves the data.
DeleteLayer(j) ==
  /\ layer[j] = "stored"
  /\ layer' = [layer EXCEPT ![j] = "deleted"]
  /\ UNCHANGED <<jobVars, pc, uploads, data, row, project, faults, restarts>>

\* DELETE /projects/{id} cascades to layers and tasks.  Inserted rows that are
\* not committed lock the project's row against it.
DeleteProject ==
  /\ project
  /\ \A j \in Jobs : layer[j] # "pending" /\ row[j] # "pending"
  /\ project' = FALSE
  /\ layer' = [j \in Jobs |-> IF layer[j] = "stored" THEN "deleted" ELSE layer[j]]
  /\ row' = [j \in Jobs |-> IF row[j] = "none" THEN "none" ELSE "gone"]
  /\ UNCHANGED <<jobVars, pc, uploads, data, faults, restarts>>

\* The backend dies with its transactions, and recover_interrupted runs before
\* it serves again.
Restart ==
  /\ restarts < MaxRestarts
  /\ restarts' = restarts + 1
  /\ pc' = [j \in Jobs |-> IF pc[j] \in {"idle", "queued"} THEN pc[j] ELSE "done"]
  /\ data' = [j \in Jobs |-> RolledBack(data[j])]
  /\ layer' = [j \in Jobs |-> RolledBack(layer[j])]
  /\ row' = [j \in Jobs |-> IF row[j] \in {"running", "cancelling"} THEN "failed"
                            ELSE RolledBack(row[j])]
  /\ worker' = NoJob
  /\ UNCHANGED <<kind, source, uploads, project, faults>>

-----------------------------------------------------------------------------
RequestStep(j) ==
  \/ \E k \in InRequest : StartRequest(j, k)
  \/ SaveUpload(j) \/ UploadFails(j) \/ InputRejected(j)
  \/ RecordFinished(j) \/ RecordFails(j) \/ RequestCommits(j) \/ CommitFails(j)
  \/ RecordFailure(j) \/ LeaveRequest(j)

DatasetStep(j) ==
  \/ Write(j) \/ WriteFails(j) \/ Register(j) \/ RegisterFails(j)
  \/ Cleanup(j) \/ CleanupFails(j)

TaskStep(j) ==
  \/ \E k \in InWorker : Submit(j, k)
  \/ SubmitFails(j)
  \/ \E original \in Jobs : Retry(j, original)
  \/ RequestCancel(j) \/ Claim(j)
  \/ ReadInputs(j) \/ ReadFails(j) \/ CheckRaises(j)
  \/ RunAnalysis(j) \/ AnalysisFails(j) \/ AnalysisReports(j)
  \/ ExportReports(j) \/ Publish(j) \/ UnlinkUpload(j)
  \/ StepFails(j) \/ ReportMisses(j)
  \/ Finish(j) \/ IterationFails(j)

Next ==
  \/ \E j \in Jobs : RequestStep(j) \/ DatasetStep(j) \/ TaskStep(j) \/ DeleteLayer(j)
  \/ DeleteProject
  \/ Restart

Spec == Init /\ [][Next]_vars

-----------------------------------------------------------------------------
(***************************************************************************)
(* Properties                                                              *)
(***************************************************************************)

HasLayer(j) == layer[j] \in {"stored", "deleted"}

\* Every layer a user can see has its data, whatever step fails and wherever
\* the backend dies: the data is durable before the layer's row is, and no
\* clean-up removes the data of a layer that gets committed after it.
LayerHasData ==
  \A j \in Jobs : layer[j] = "stored" => data[j] = "stored"

\* The history of an import in a request is atomic with its layer: there is
\* a succeeded entry exactly when the layer was stored.
HistoryIsAtomic ==
  \A j \in Jobs : kind[j] \in InRequest /\ row[j] # "gone" =>
    (row[j] = "succeeded" <=> HasLayer(j))

\* A finished import or analysis has data exactly if it has a layer, at
\* whatever step its input, its write or its registration failed.  It is stated
\* for runs in which no commit, clean-up or recording fails and the backend
\* stays up, and not for a cancelled analysis (whose row may be gone by now):
\* there the code leaves tables.
FailureLeavesNothing ==
  faults = 0 /\ restarts = 0 =>
    \A j \in Jobs :
      /\ pc[j] = "done"
      /\ kind[j] \notin Exports
      /\ kind[j] = "analysis" => row[j] \notin {"cancelled", "gone"}
      => (data[j] = "stored" <=> HasLayer(j)) /\ data[j] # "pending"

\* The upload of an import task is kept until some import of it, the task's own
\* or a retry's, has committed its layer: a failed import can be retried.
UploadKeptUntilImported ==
  \A j \in Jobs : kind[j] = "task" /\ source[j] \notin uploads =>
    \E k \in Jobs : source[k] = source[j] /\ HasLayer(k)

\* However often an import is retried, its upload is imported once: a second
\* retry finds no file.  A crash, or a step that fails after the layer's
\* commit, makes a second layer.
ImportedOnce ==
  faults = 0 /\ restarts = 0 =>
    \A j, k \in Jobs :
      kind[j] = "task" /\ source[j] = source[k] /\ HasLayer(j) /\ HasLayer(k) => j = k

(***************************************************************************)
(* What makes LayerHasData, HistoryIsAtomic and UploadKeptUntilImported    *)
(* inductive: which steps belong to which kind of job, that a retry has    *)
(* the kind of its original, where data is durable and a layer pending.    *)
(***************************************************************************)
StepsFitKind ==
  \A j \in Jobs :
    /\ kind[j] = "none" <=> pc[j] = "idle"
    /\ pc[j] \in {"upload", "record", "commit", "recordFailure", "leave"} => kind[j] \in InRequest
    /\ pc[j] \in {"queued", "read", "ctas", "checkCtas", "checkFile", "finish", "cancelled",
                  "fail", "lost"} => kind[j] \in InWorker
    /\ pc[j] \in {"publish", "unlink"} => kind[j] = "task"

SourceFitsKind ==
  \A j \in Jobs :
    /\ kind[j] = "none" => source[j] = j
    /\ kind[source[j]] = kind[j]

DataIsDurable ==
  \A j \in Jobs :
    pc[j] \in {"register", "record", "commit", "publish", "unlink", "checkFile", "finish"}
      => data[j] = "stored"

LayerFollowsData ==
  \A j \in Jobs :
    /\ HasLayer(j) => pc[j] \in {"unlink", "finish", "fail", "lost", "done"}
    /\ layer[j] = "pending" =>
         pc[j] \in {"undo", "record", "commit", "recordFailure", "leave", "publish", "finish",
                   "fail", "lost"}
    /\ pc[j] = "unlink" => HasLayer(j)

HistoryFitsStep ==
  \A j \in Jobs :
    /\ kind[j] = "none" => row[j] = "none"
    /\ kind[j] \in InRequest => row[j] \in {"none", "pending", "succeeded", "failed", "gone"}
    /\ row[j] = "pending" <=> pc[j] = "commit"
    /\ row[j] = "queued" => pc[j] = "queued"
    /\ kind[j] \in InRequest /\ pc[j] # "done" => row[j] # "succeeded"

JobInv ==
  /\ StepsFitKind
  /\ SourceFitsKind
  /\ DataIsDurable
  /\ LayerFollowsData
  /\ HistoryFitsStep
  /\ LayerHasData
  /\ HistoryIsAtomic
  /\ UploadKeptUntilImported

(***************************************************************************)
(* What makes FailureLeavesNothing and ImportedOnce inductive.  The second *)
(* and third part are about undisturbed runs: no commit, clean-up or       *)
(* recording fails and the backend stays up.                               *)
(***************************************************************************)
\* One task at a time is anywhere between its claim and its end.
WorkerIsExclusive ==
  \A j \in Jobs :
    kind[j] \in InWorker /\ pc[j] \notin {"idle", "queued", "done"} => worker = j

\* What a job owns at each of its steps.
OwnedAt(j) ==
  /\ pc[j] \in {"idle", "upload", "write", "queued", "read", "ctas"} =>
       data[j] = "none" /\ layer[j] = "none"
  /\ pc[j] \in {"recordFailure", "leave"} => data[j] = "none"
  /\ pc[j] \in {"ctas", "checkCtas"} => kind[j] = "analysis"
  /\ pc[j] = "checkFile" => kind[j] \in Exports
  /\ pc[j] \in {"checkCtas", "cancelled", "fail", "lost"} => data[j] # "stored" /\ ~HasLayer(j)
  /\ pc[j] = "cancelled" => kind[j] = "analysis" \/ data[j] = "none"
  /\ pc[j] = "cancelled" => layer[j] = "none"
  /\ pc[j] \in {"record", "commit", "publish"} => layer[j] = "pending"
  /\ pc[j] = "finish" => layer[j] = "pending" \/ HasLayer(j)
  /\ pc[j] = "finish" /\ kind[j] = "task" => HasLayer(j)

OwnedAtEachStep ==
  faults = 0 /\ restarts = 0 => \A j \in Jobs : kind[j] \in Exports \/ OwnedAt(j)

\* An import task has its upload until its layer is committed, and no task has
\* an upload that was imported.
UploadIsSpent ==
  faults = 0 /\ restarts = 0 =>
    \A j \in Jobs : kind[j] = "task" =>
      /\ pc[j] \in {"write", "register", "publish", "unlink"} => source[j] \in uploads
      /\ HasLayer(j) /\ pc[j] # "unlink" => source[j] \notin uploads

JobRest ==
  /\ WorkerIsExclusive
  /\ OwnedAtEachStep
  /\ FailureLeavesNothing
  /\ UploadIsSpent
  /\ ImportedOnce

\* "Any failure after the CTAS drops the table" (analysis_service.py:99-101):
\* an analysis that ended without success has no table.  A cancellation after
\* the CREATE TABLE AS commits it.
AnalysisLeavesNothing ==
  \A j \in Jobs :
    kind[j] = "analysis" /\ pc[j] = "done" /\ row[j] \in {"failed", "cancelled"}
      => data[j] = "none"
=============================================================================
