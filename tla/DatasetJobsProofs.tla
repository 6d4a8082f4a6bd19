-------------------------- MODULE DatasetJobsProofs --------------------------
(***************************************************************************)
(* What DatasetJobs guarantees for any number of jobs, failures and        *)
(* restarts.                                                               *)
(***************************************************************************)
EXTENDS DatasetJobs, TLAPS

-----------------------------------------------------------------------------
(***************************************************************************)
(* Types                                                                   *)
(***************************************************************************)
\* No job has started: every variable has its type.
LEMMA TypeInit == Init => TypeOK
  BY JobsAssumption DEF Init, TypeOK, Pcs, Rows

\* Every step keeps every variable in its type.
LEMMA TypeStep == TypeOK /\ [Next]_vars => TypeOK'
<1> SUFFICES ASSUME TypeOK, [Next]_vars PROVE TypeOK'
  OBVIOUS
<1> USE JobsAssumption DEF TypeOK, jobVars, Goto, Fault, NoFault
<1>1. ASSUME NEW j \in Jobs, RequestStep(j) PROVE TypeOK'
  <2>1. ASSUME NEW k \in InRequest, StartRequest(j, k) PROVE TypeOK'
    BY <2>1 DEF StartRequest, Pcs
  <2>2. CASE SaveUpload(j) \/ UploadFails(j) \/ InputRejected(j)
    BY <2>2 DEF SaveUpload, UploadFails, InputRejected, Pcs
  <2>3. CASE RecordFinished(j) \/ RecordFails(j)
    BY <2>3 DEF RecordFinished, RecordFails, Pcs, Rows
  <2>4. CASE RequestCommits(j) \/ CommitFails(j)
    BY <2>4 DEF RequestCommits, CommitFails, Pcs, Rows
  <2>5. CASE RecordFailure(j)
    BY <2>5 DEF RecordFailure, Pcs, Rows
  <2>6. CASE LeaveRequest(j)
    BY <2>6 DEF LeaveRequest, RolledBack, Pcs
  <2> QED BY <1>1, <2>1, <2>2, <2>3, <2>4, <2>5, <2>6 DEF RequestStep
<1>2. ASSUME NEW j \in Jobs, DatasetStep(j) PROVE TypeOK'
  <2>1. CASE Write(j) \/ WriteFails(j)
    BY <2>1 DEF Write, WriteFails, Pcs
  <2>2. CASE Register(j) \/ RegisterFails(j)
    BY <2>2 DEF Register, RegisterFails, AfterRegister, Pcs
  <2>3. CASE Cleanup(j) \/ CleanupFails(j)
    BY <2>3 DEF Cleanup, CleanupFails, AfterCleanup, RolledBack, Pcs
  <2> QED BY <1>2, <2>1, <2>2, <2>3 DEF DatasetStep
<1>3. ASSUME NEW j \in Jobs, TaskStep(j) PROVE TypeOK'
  <2>1. ASSUME NEW k \in InWorker, Submit(j, k) PROVE TypeOK'
    BY <2>1 DEF Submit, Pcs, Rows
  <2>2. ASSUME NEW original \in Jobs, Retry(j, original) PROVE TypeOK'
    BY <2>2 DEF Retry, Pcs, Rows
  <2>3. CASE SubmitFails(j) \/ RequestCancel(j) \/ Claim(j)
    BY <2>3 DEF SubmitFails, RequestCancel, Claim, InWorker, Pcs, Rows
  <2>4. CASE ReadInputs(j) \/ ReadFails(j) \/ CheckRaises(j) \/ RunAnalysis(j)
    BY <2>4 DEF ReadInputs, ReadFails, CheckRaises, RunAnalysis, Pcs
  <2>5. CASE AnalysisFails(j) \/ AnalysisReports(j) \/ ExportReports(j) \/ Publish(j)
    BY <2>5 DEF AnalysisFails, AnalysisReports, ExportReports, Publish, Pcs
  <2>6. CASE UnlinkUpload(j) \/ StepFails(j) \/ ReportMisses(j)
    BY <2>6 DEF UnlinkUpload, StepFails, ReportMisses, Pcs
  <2>7. CASE Finish(j)
    <3>1. EndOf(j) \in Rows
      BY <2>7 DEF Finish, EndOf, Rows
    <3> QED BY <2>7, <3>1 DEF Finish, Committed, RolledBack, Pcs
  <2>8. CASE IterationFails(j)
    BY <2>8 DEF IterationFails, RolledBack, Pcs
  <2> QED
    BY <1>3, <2>1, <2>2, <2>3, <2>4, <2>5, <2>6, <2>7, <2>8 DEF TaskStep
<1>4. ASSUME NEW j \in Jobs, DeleteLayer(j) PROVE TypeOK'
  BY <1>4 DEF DeleteLayer
<1>5. CASE DeleteProject
  BY <1>5 DEF DeleteProject, Rows
<1>6. CASE Restart
  BY <1>6 DEF Restart, RolledBack, Pcs, Rows
<1>7. CASE UNCHANGED vars
  BY <1>7 DEF vars
<1> QED BY <1>1, <1>2, <1>3, <1>4, <1>5, <1>6, <1>7 DEF Next

\* Every variable keeps its type.
THEOREM JobsTypeCorrect == Spec => []TypeOK
  BY TypeInit, TypeStep, PTL DEF Spec

-----------------------------------------------------------------------------
(***************************************************************************)
(* The inductive invariant                                                 *)
(***************************************************************************)
\* No job has started: there is no layer, no data and no history.
LEMMA InvInit == Init => JobInv
  BY DEF Init, JobInv, StepsFitKind, SourceFitsKind, DataIsDurable, LayerFollowsData,
         HistoryFitsStep, LayerHasData, HistoryIsAtomic, UploadKeptUntilImported, HasLayer,
         InRequest, InWorker, Exports

\* One step per action.  What matters is where a layer becomes durable and
\* where data or an upload goes.
LEMMA InvStep == TypeOK /\ JobInv /\ [Next]_vars => JobInv'
<1> SUFFICES ASSUME TypeOK, JobInv, [Next]_vars PROVE JobInv'
  OBVIOUS
<1> USE JobsAssumption DEF TypeOK, jobVars, Goto, Fault, NoFault, HasLayer, JobInv
<1>1. ASSUME NEW j \in Jobs, NEW k \in InRequest, StartRequest(j, k) PROVE JobInv'
  <2>1. StepsFitKind' /\ SourceFitsKind'
    BY <1>1 DEF StartRequest, StepsFitKind, SourceFitsKind, InRequest, InWorker, Exports
  <2>2. DataIsDurable' /\ LayerFollowsData' /\ LayerHasData'
    BY <1>1 DEF StartRequest, StepsFitKind, DataIsDurable, LayerFollowsData, LayerHasData
  <2>3. HistoryFitsStep' /\ HistoryIsAtomic'
    BY <1>1 DEF StartRequest, StepsFitKind, LayerFollowsData, HistoryFitsStep, HistoryIsAtomic,
        InRequest, InWorker, Exports
  <2>4. UploadKeptUntilImported'
    BY <1>1 DEF StartRequest, StepsFitKind, SourceFitsKind, LayerFollowsData,
        UploadKeptUntilImported, InRequest, InWorker, Exports
  <2> QED BY <2>1, <2>2, <2>3, <2>4
<1>2. ASSUME NEW j \in Jobs, SaveUpload(j) PROVE JobInv'
  <2>1. StepsFitKind' /\ SourceFitsKind'
    BY <1>2 DEF SaveUpload, StepsFitKind, SourceFitsKind, InRequest, InWorker, Exports
  <2>2. DataIsDurable' /\ LayerFollowsData' /\ LayerHasData'
    BY <1>2 DEF SaveUpload, StepsFitKind, DataIsDurable, LayerFollowsData, LayerHasData
  <2>3. HistoryFitsStep' /\ HistoryIsAtomic'
    BY <1>2 DEF SaveUpload, StepsFitKind, LayerFollowsData, HistoryFitsStep, HistoryIsAtomic,
        InRequest, InWorker, Exports
  <2>4. UploadKeptUntilImported'
    BY <1>2 DEF SaveUpload, StepsFitKind, SourceFitsKind, LayerFollowsData, UploadKeptUntilImported,
        InRequest, InWorker, Exports
  <2> QED BY <2>1, <2>2, <2>3, <2>4
<1>3. ASSUME NEW j \in Jobs, UploadFails(j) PROVE JobInv'
  <2>1. StepsFitKind' /\ SourceFitsKind'
    BY <1>3 DEF UploadFails, StepsFitKind, SourceFitsKind, InRequest, InWorker, Exports
  <2>2. DataIsDurable' /\ LayerFollowsData' /\ LayerHasData'
    BY <1>3 DEF UploadFails, StepsFitKind, DataIsDurable, LayerFollowsData, LayerHasData
  <2>3. HistoryFitsStep' /\ HistoryIsAtomic'
    BY <1>3 DEF UploadFails, StepsFitKind, LayerFollowsData, HistoryFitsStep, HistoryIsAtomic,
        InRequest, InWorker, Exports
  <2>4. UploadKeptUntilImported'
    BY <1>3 DEF UploadFails, StepsFitKind, SourceFitsKind, LayerFollowsData,
        UploadKeptUntilImported, InRequest, InWorker, Exports
  <2> QED BY <2>1, <2>2, <2>3, <2>4
<1>4. ASSUME NEW j \in Jobs, InputRejected(j) PROVE JobInv'
  <2>1. StepsFitKind' /\ SourceFitsKind'
    BY <1>4 DEF InputRejected, StepsFitKind, SourceFitsKind, InRequest, InWorker, Exports
  <2>2. DataIsDurable' /\ LayerFollowsData' /\ LayerHasData'
    BY <1>4 DEF InputRejected, StepsFitKind, DataIsDurable, LayerFollowsData, LayerHasData
  <2>3. HistoryFitsStep' /\ HistoryIsAtomic'
    BY <1>4 DEF InputRejected, StepsFitKind, LayerFollowsData, HistoryFitsStep, HistoryIsAtomic,
        InRequest, InWorker, Exports
  <2>4. UploadKeptUntilImported'
    BY <1>4 DEF InputRejected, StepsFitKind, SourceFitsKind, LayerFollowsData,
        UploadKeptUntilImported, InRequest, InWorker, Exports
  <2> QED BY <2>1, <2>2, <2>3, <2>4
<1>5. ASSUME NEW j \in Jobs, RecordFinished(j) PROVE JobInv'
  <2>1. StepsFitKind' /\ SourceFitsKind'
    BY <1>5 DEF RecordFinished, StepsFitKind, SourceFitsKind, InRequest, InWorker, Exports
  <2>2. DataIsDurable' /\ LayerFollowsData' /\ LayerHasData'
    BY <1>5 DEF RecordFinished, StepsFitKind, DataIsDurable, LayerFollowsData, LayerHasData
  <2>3. HistoryFitsStep' /\ HistoryIsAtomic'
    BY <1>5 DEF RecordFinished, StepsFitKind, LayerFollowsData, HistoryFitsStep, HistoryIsAtomic,
        InRequest, InWorker, Exports
  <2>4. UploadKeptUntilImported'
    BY <1>5 DEF RecordFinished, StepsFitKind, SourceFitsKind, LayerFollowsData,
        UploadKeptUntilImported, InRequest, InWorker, Exports
  <2> QED BY <2>1, <2>2, <2>3, <2>4
<1>6. ASSUME NEW j \in Jobs, RecordFails(j) PROVE JobInv'
  <2>1. StepsFitKind' /\ SourceFitsKind'
    BY <1>6 DEF RecordFails, StepsFitKind, SourceFitsKind, InRequest, InWorker, Exports
  <2>2. DataIsDurable' /\ LayerFollowsData' /\ LayerHasData'
    BY <1>6 DEF RecordFails, StepsFitKind, DataIsDurable, LayerFollowsData, LayerHasData
  <2>3. HistoryFitsStep' /\ HistoryIsAtomic'
    BY <1>6 DEF RecordFails, StepsFitKind, LayerFollowsData, HistoryFitsStep, HistoryIsAtomic,
        InRequest, InWorker, Exports
  <2>4. UploadKeptUntilImported'
    BY <1>6 DEF RecordFails, StepsFitKind, SourceFitsKind, LayerFollowsData,
        UploadKeptUntilImported, InRequest, InWorker, Exports
  <2> QED BY <2>1, <2>2, <2>3, <2>4
<1>7. ASSUME NEW j \in Jobs, RequestCommits(j) PROVE JobInv'
  <2>1. StepsFitKind' /\ SourceFitsKind'
    BY <1>7 DEF RequestCommits, StepsFitKind, SourceFitsKind, InRequest, InWorker, Exports
  <2>2. DataIsDurable' /\ LayerFollowsData' /\ LayerHasData'
    BY <1>7 DEF RequestCommits, StepsFitKind, DataIsDurable, LayerFollowsData, LayerHasData
  <2>3. HistoryFitsStep' /\ HistoryIsAtomic'
    BY <1>7 DEF RequestCommits, StepsFitKind, LayerFollowsData, HistoryFitsStep, HistoryIsAtomic,
        InRequest, InWorker, Exports
  <2>4. UploadKeptUntilImported'
    BY <1>7 DEF RequestCommits, StepsFitKind, SourceFitsKind, LayerFollowsData,
        UploadKeptUntilImported, InRequest, InWorker, Exports
  <2> QED BY <2>1, <2>2, <2>3, <2>4
<1>8. ASSUME NEW j \in Jobs, CommitFails(j) PROVE JobInv'
  <2>1. StepsFitKind' /\ SourceFitsKind'
    BY <1>8 DEF CommitFails, StepsFitKind, SourceFitsKind, InRequest, InWorker, Exports
  <2>2. DataIsDurable' /\ LayerFollowsData' /\ LayerHasData'
    BY <1>8 DEF CommitFails, StepsFitKind, DataIsDurable, LayerFollowsData, LayerHasData
  <2>3. HistoryFitsStep' /\ HistoryIsAtomic'
    BY <1>8 DEF CommitFails, StepsFitKind, LayerFollowsData, HistoryFitsStep, HistoryIsAtomic,
        InRequest, InWorker, Exports
  <2>4. UploadKeptUntilImported'
    BY <1>8 DEF CommitFails, StepsFitKind, SourceFitsKind, LayerFollowsData,
        UploadKeptUntilImported, InRequest, InWorker, Exports
  <2> QED BY <2>1, <2>2, <2>3, <2>4
<1>9. ASSUME NEW j \in Jobs, RecordFailure(j) PROVE JobInv'
  <2>1. StepsFitKind' /\ SourceFitsKind'
    BY <1>9 DEF RecordFailure, StepsFitKind, SourceFitsKind, InRequest, InWorker, Exports
  <2>2. DataIsDurable' /\ LayerFollowsData' /\ LayerHasData'
    BY <1>9 DEF RecordFailure, StepsFitKind, DataIsDurable, LayerFollowsData, LayerHasData
  <2>3. HistoryFitsStep' /\ HistoryIsAtomic'
    BY <1>9 DEF RecordFailure, StepsFitKind, LayerFollowsData, HistoryFitsStep, HistoryIsAtomic,
        InRequest, InWorker, Exports
  <2>4. UploadKeptUntilImported'
    BY <1>9 DEF RecordFailure, StepsFitKind, SourceFitsKind, LayerFollowsData,
        UploadKeptUntilImported, InRequest, InWorker, Exports
  <2> QED BY <2>1, <2>2, <2>3, <2>4
<1>10. ASSUME NEW j \in Jobs, LeaveRequest(j) PROVE JobInv'
  <2>1. StepsFitKind' /\ SourceFitsKind'
    BY <1>10 DEF LeaveRequest, StepsFitKind, SourceFitsKind, InRequest, InWorker, Exports,
        RolledBack
  <2>2. DataIsDurable' /\ LayerFollowsData' /\ LayerHasData'
    BY <1>10 DEF LeaveRequest, StepsFitKind, DataIsDurable, LayerFollowsData, LayerHasData,
        RolledBack
  <2>3. HistoryFitsStep' /\ HistoryIsAtomic'
    BY <1>10 DEF LeaveRequest, StepsFitKind, LayerFollowsData, HistoryFitsStep, HistoryIsAtomic,
        InRequest, InWorker, Exports, RolledBack
  <2>4. UploadKeptUntilImported'
    BY <1>10 DEF LeaveRequest, StepsFitKind, SourceFitsKind, LayerFollowsData,
        UploadKeptUntilImported, InRequest, InWorker, Exports, RolledBack
  <2> QED BY <2>1, <2>2, <2>3, <2>4
<1>11. ASSUME NEW j \in Jobs, Write(j) PROVE JobInv'
  <2>1. StepsFitKind' /\ SourceFitsKind'
    BY <1>11 DEF Write, StepsFitKind, SourceFitsKind, InRequest, InWorker, Exports
  <2>2. DataIsDurable' /\ LayerFollowsData' /\ LayerHasData'
    BY <1>11 DEF Write, StepsFitKind, DataIsDurable, LayerFollowsData, LayerHasData
  <2>3. HistoryFitsStep' /\ HistoryIsAtomic'
    BY <1>11 DEF Write, StepsFitKind, LayerFollowsData, HistoryFitsStep, HistoryIsAtomic,
        InRequest, InWorker, Exports
  <2>4. UploadKeptUntilImported'
    BY <1>11 DEF Write, StepsFitKind, SourceFitsKind, LayerFollowsData, UploadKeptUntilImported,
        InRequest, InWorker, Exports
  <2> QED BY <2>1, <2>2, <2>3, <2>4
<1>12. ASSUME NEW j \in Jobs, WriteFails(j) PROVE JobInv'
  <2>1. StepsFitKind' /\ SourceFitsKind'
    BY <1>12 DEF WriteFails, StepsFitKind, SourceFitsKind, InRequest, InWorker, Exports
  <2>2. DataIsDurable' /\ LayerFollowsData' /\ LayerHasData'
    BY <1>12 DEF WriteFails, StepsFitKind, DataIsDurable, LayerFollowsData, LayerHasData
  <2>3. HistoryFitsStep' /\ HistoryIsAtomic'
    BY <1>12 DEF WriteFails, StepsFitKind, LayerFollowsData, HistoryFitsStep, HistoryIsAtomic,
        InRequest, InWorker, Exports
  <2>4. UploadKeptUntilImported'
    BY <1>12 DEF WriteFails, StepsFitKind, SourceFitsKind, LayerFollowsData,
        UploadKeptUntilImported, InRequest, InWorker, Exports
  <2> QED BY <2>1, <2>2, <2>3, <2>4
<1>13. ASSUME NEW j \in Jobs, Register(j) PROVE JobInv'
  <2>1. StepsFitKind' /\ SourceFitsKind'
    BY <1>13 DEF Register, StepsFitKind, SourceFitsKind, InRequest, InWorker, Exports, AfterRegister
  <2>2. DataIsDurable' /\ LayerFollowsData' /\ LayerHasData'
    BY <1>13 DEF Register, StepsFitKind, DataIsDurable, LayerFollowsData, LayerHasData,
        AfterRegister
  <2>3. HistoryFitsStep' /\ HistoryIsAtomic'
    BY <1>13 DEF Register, StepsFitKind, LayerFollowsData, HistoryFitsStep, HistoryIsAtomic,
        InRequest, InWorker, Exports, AfterRegister
  <2>4. UploadKeptUntilImported'
    BY <1>13 DEF Register, StepsFitKind, SourceFitsKind, LayerFollowsData, UploadKeptUntilImported,
        InRequest, InWorker, Exports, AfterRegister
  <2> QED BY <2>1, <2>2, <2>3, <2>4
<1>14. ASSUME NEW j \in Jobs, RegisterFails(j) PROVE JobInv'
  <2>1. StepsFitKind' /\ SourceFitsKind'
    BY <1>14 DEF RegisterFails, StepsFitKind, SourceFitsKind, InRequest, InWorker, Exports
  <2>2. DataIsDurable' /\ LayerFollowsData' /\ LayerHasData'
    BY <1>14 DEF RegisterFails, StepsFitKind, DataIsDurable, LayerFollowsData, LayerHasData
  <2>3. HistoryFitsStep' /\ HistoryIsAtomic'
    BY <1>14 DEF RegisterFails, StepsFitKind, LayerFollowsData, HistoryFitsStep, HistoryIsAtomic,
        InRequest, InWorker, Exports
  <2>4. UploadKeptUntilImported'
    BY <1>14 DEF RegisterFails, StepsFitKind, SourceFitsKind, LayerFollowsData,
        UploadKeptUntilImported, InRequest, InWorker, Exports
  <2> QED BY <2>1, <2>2, <2>3, <2>4
<1>15. ASSUME NEW j \in Jobs, Cleanup(j) PROVE JobInv'
  <2>1. StepsFitKind' /\ SourceFitsKind'
    BY <1>15 DEF Cleanup, StepsFitKind, SourceFitsKind, InRequest, InWorker, Exports, AfterCleanup,
        RolledBack
  <2>2. DataIsDurable' /\ LayerFollowsData' /\ LayerHasData'
    BY <1>15 DEF Cleanup, StepsFitKind, DataIsDurable, LayerFollowsData, LayerHasData,
        AfterCleanup, RolledBack
  <2>3. HistoryFitsStep' /\ HistoryIsAtomic'
    BY <1>15 DEF Cleanup, StepsFitKind, LayerFollowsData, HistoryFitsStep, HistoryIsAtomic,
        InRequest, InWorker, Exports, AfterCleanup, RolledBack
  <2>4. UploadKeptUntilImported'
    BY <1>15 DEF Cleanup, StepsFitKind, SourceFitsKind, LayerFollowsData, UploadKeptUntilImported,
        InRequest, InWorker, Exports, AfterCleanup, RolledBack
  <2> QED BY <2>1, <2>2, <2>3, <2>4
<1>16. ASSUME NEW j \in Jobs, CleanupFails(j) PROVE JobInv'
  <2>1. StepsFitKind' /\ SourceFitsKind'
    BY <1>16 DEF CleanupFails, StepsFitKind, SourceFitsKind, InRequest, InWorker, Exports,
        AfterCleanup
  <2>2. DataIsDurable' /\ LayerFollowsData' /\ LayerHasData'
    BY <1>16 DEF CleanupFails, StepsFitKind, DataIsDurable, LayerFollowsData, LayerHasData,
        AfterCleanup
  <2>3. HistoryFitsStep' /\ HistoryIsAtomic'
    BY <1>16 DEF CleanupFails, StepsFitKind, LayerFollowsData, HistoryFitsStep, HistoryIsAtomic,
        InRequest, InWorker, Exports, AfterCleanup
  <2>4. UploadKeptUntilImported'
    BY <1>16 DEF CleanupFails, StepsFitKind, SourceFitsKind, LayerFollowsData,
        UploadKeptUntilImported, InRequest, InWorker, Exports, AfterCleanup
  <2> QED BY <2>1, <2>2, <2>3, <2>4
<1>17. ASSUME NEW j \in Jobs, NEW k \in InWorker, Submit(j, k) PROVE JobInv'
  <2>1. StepsFitKind' /\ SourceFitsKind'
    BY <1>17 DEF Submit, StepsFitKind, SourceFitsKind, InRequest, InWorker, Exports
  <2>2. DataIsDurable' /\ LayerFollowsData' /\ LayerHasData'
    BY <1>17 DEF Submit, StepsFitKind, DataIsDurable, LayerFollowsData, LayerHasData
  <2>3. HistoryFitsStep' /\ HistoryIsAtomic'
    BY <1>17 DEF Submit, StepsFitKind, LayerFollowsData, HistoryFitsStep, HistoryIsAtomic,
        InRequest, InWorker, Exports
  <2>4. UploadKeptUntilImported'
    BY <1>17 DEF Submit, StepsFitKind, SourceFitsKind, LayerFollowsData, UploadKeptUntilImported,
        InRequest, InWorker, Exports
  <2> QED BY <2>1, <2>2, <2>3, <2>4
<1>18. ASSUME NEW j \in Jobs, SubmitFails(j) PROVE JobInv'
  <2>1. StepsFitKind' /\ SourceFitsKind'
    BY <1>18 DEF SubmitFails, StepsFitKind, SourceFitsKind, InRequest, InWorker, Exports
  <2>2. DataIsDurable' /\ LayerFollowsData' /\ LayerHasData'
    BY <1>18 DEF SubmitFails, StepsFitKind, DataIsDurable, LayerFollowsData, LayerHasData
  <2>3. HistoryFitsStep' /\ HistoryIsAtomic'
    BY <1>18 DEF SubmitFails, StepsFitKind, LayerFollowsData, HistoryFitsStep, HistoryIsAtomic,
        InRequest, InWorker, Exports
  <2>4. UploadKeptUntilImported'
    BY <1>18 DEF SubmitFails, StepsFitKind, SourceFitsKind, LayerFollowsData,
        UploadKeptUntilImported, InRequest, InWorker, Exports
  <2> QED BY <2>1, <2>2, <2>3, <2>4
<1>19. ASSUME NEW j \in Jobs, NEW o \in Jobs, Retry(j, o) PROVE JobInv'
  <2>1. StepsFitKind' /\ SourceFitsKind'
    BY <1>19 DEF Retry, StepsFitKind, SourceFitsKind, InRequest, InWorker, Exports
  <2>2. DataIsDurable' /\ LayerFollowsData' /\ LayerHasData'
    BY <1>19 DEF Retry, StepsFitKind, DataIsDurable, LayerFollowsData, LayerHasData
  <2>3. HistoryFitsStep' /\ HistoryIsAtomic'
    BY <1>19 DEF Retry, StepsFitKind, LayerFollowsData, HistoryFitsStep, HistoryIsAtomic,
        InRequest, InWorker, Exports
  <2>4. UploadKeptUntilImported'
    BY <1>19 DEF Retry, StepsFitKind, SourceFitsKind, LayerFollowsData, UploadKeptUntilImported,
        InRequest, InWorker, Exports
  <2> QED BY <2>1, <2>2, <2>3, <2>4
<1>20. ASSUME NEW j \in Jobs, RequestCancel(j) PROVE JobInv'
  <2>1. StepsFitKind' /\ SourceFitsKind'
    BY <1>20 DEF RequestCancel, StepsFitKind, SourceFitsKind, InRequest, InWorker, Exports
  <2>2. DataIsDurable' /\ LayerFollowsData' /\ LayerHasData'
    BY <1>20 DEF RequestCancel, StepsFitKind, DataIsDurable, LayerFollowsData, LayerHasData
  <2>3. HistoryFitsStep' /\ HistoryIsAtomic'
    BY <1>20 DEF RequestCancel, StepsFitKind, LayerFollowsData, HistoryFitsStep, HistoryIsAtomic,
        InRequest, InWorker, Exports
  <2>4. UploadKeptUntilImported'
    BY <1>20 DEF RequestCancel, StepsFitKind, SourceFitsKind, LayerFollowsData,
        UploadKeptUntilImported, InRequest, InWorker, Exports
  <2> QED BY <2>1, <2>2, <2>3, <2>4
<1>21. ASSUME NEW j \in Jobs, Claim(j) PROVE JobInv'
  <2>1. StepsFitKind' /\ SourceFitsKind'
    BY <1>21 DEF Claim, HistoryFitsStep, StepsFitKind, SourceFitsKind, InRequest, InWorker, Exports
  <2>2. DataIsDurable' /\ LayerFollowsData' /\ LayerHasData'
    BY <1>21 DEF Claim, HistoryFitsStep, StepsFitKind, DataIsDurable, LayerFollowsData,
        LayerHasData
  <2>3. HistoryFitsStep' /\ HistoryIsAtomic'
    BY <1>21 DEF Claim, HistoryFitsStep, StepsFitKind, LayerFollowsData, HistoryIsAtomic,
        InRequest, InWorker, Exports
  <2>4. UploadKeptUntilImported'
    BY <1>21 DEF Claim, HistoryFitsStep, StepsFitKind, SourceFitsKind, LayerFollowsData,
        UploadKeptUntilImported,
        InRequest, InWorker, Exports
  <2> QED BY <2>1, <2>2, <2>3, <2>4
<1>22. ASSUME NEW j \in Jobs, ReadInputs(j) PROVE JobInv'
  <2>1. StepsFitKind' /\ SourceFitsKind'
    BY <1>22 DEF ReadInputs, StepsFitKind, SourceFitsKind, InRequest, InWorker, Exports
  <2>2. DataIsDurable' /\ LayerFollowsData' /\ LayerHasData'
    BY <1>22 DEF ReadInputs, StepsFitKind, DataIsDurable, LayerFollowsData, LayerHasData
  <2>3. HistoryFitsStep' /\ HistoryIsAtomic'
    BY <1>22 DEF ReadInputs, StepsFitKind, LayerFollowsData, HistoryFitsStep, HistoryIsAtomic,
        InRequest, InWorker, Exports
  <2>4. UploadKeptUntilImported'
    BY <1>22 DEF ReadInputs, StepsFitKind, SourceFitsKind, LayerFollowsData,
        UploadKeptUntilImported, InRequest, InWorker, Exports
  <2> QED BY <2>1, <2>2, <2>3, <2>4
<1>23. ASSUME NEW j \in Jobs, ReadFails(j) PROVE JobInv'
  <2>1. StepsFitKind' /\ SourceFitsKind'
    BY <1>23 DEF ReadFails, StepsFitKind, SourceFitsKind, InRequest, InWorker, Exports
  <2>2. DataIsDurable' /\ LayerFollowsData' /\ LayerHasData'
    BY <1>23 DEF ReadFails, StepsFitKind, DataIsDurable, LayerFollowsData, LayerHasData
  <2>3. HistoryFitsStep' /\ HistoryIsAtomic'
    BY <1>23 DEF ReadFails, StepsFitKind, LayerFollowsData, HistoryFitsStep, HistoryIsAtomic,
        InRequest, InWorker, Exports
  <2>4. UploadKeptUntilImported'
    BY <1>23 DEF ReadFails, StepsFitKind, SourceFitsKind, LayerFollowsData, UploadKeptUntilImported,
        InRequest, InWorker, Exports
  <2> QED BY <2>1, <2>2, <2>3, <2>4
<1>24. ASSUME NEW j \in Jobs, CheckRaises(j) PROVE JobInv'
  <2>1. StepsFitKind' /\ SourceFitsKind'
    BY <1>24 DEF CheckRaises, StepsFitKind, SourceFitsKind, InRequest, InWorker, Exports
  <2>2. DataIsDurable' /\ LayerFollowsData' /\ LayerHasData'
    BY <1>24 DEF CheckRaises, StepsFitKind, DataIsDurable, LayerFollowsData, LayerHasData
  <2>3. HistoryFitsStep' /\ HistoryIsAtomic'
    BY <1>24 DEF CheckRaises, StepsFitKind, LayerFollowsData, HistoryFitsStep, HistoryIsAtomic,
        InRequest, InWorker, Exports
  <2>4. UploadKeptUntilImported'
    BY <1>24 DEF CheckRaises, StepsFitKind, SourceFitsKind, LayerFollowsData,
        UploadKeptUntilImported, InRequest, InWorker, Exports
  <2> QED BY <2>1, <2>2, <2>3, <2>4
<1>25. ASSUME NEW j \in Jobs, RunAnalysis(j) PROVE JobInv'
  <2>1. StepsFitKind' /\ SourceFitsKind'
    BY <1>25 DEF RunAnalysis, StepsFitKind, SourceFitsKind, InRequest, InWorker, Exports
  <2>2. DataIsDurable' /\ LayerFollowsData' /\ LayerHasData'
    BY <1>25 DEF RunAnalysis, StepsFitKind, DataIsDurable, LayerFollowsData, LayerHasData
  <2>3. HistoryFitsStep' /\ HistoryIsAtomic'
    BY <1>25 DEF RunAnalysis, StepsFitKind, LayerFollowsData, HistoryFitsStep, HistoryIsAtomic,
        InRequest, InWorker, Exports
  <2>4. UploadKeptUntilImported'
    BY <1>25 DEF RunAnalysis, StepsFitKind, SourceFitsKind, LayerFollowsData,
        UploadKeptUntilImported, InRequest, InWorker, Exports
  <2> QED BY <2>1, <2>2, <2>3, <2>4
<1>26. ASSUME NEW j \in Jobs, AnalysisFails(j) PROVE JobInv'
  <2>1. StepsFitKind' /\ SourceFitsKind'
    BY <1>26 DEF AnalysisFails, StepsFitKind, SourceFitsKind, InRequest, InWorker, Exports
  <2>2. DataIsDurable' /\ LayerFollowsData' /\ LayerHasData'
    BY <1>26 DEF AnalysisFails, StepsFitKind, DataIsDurable, LayerFollowsData, LayerHasData
  <2>3. HistoryFitsStep' /\ HistoryIsAtomic'
    BY <1>26 DEF AnalysisFails, StepsFitKind, LayerFollowsData, HistoryFitsStep, HistoryIsAtomic,
        InRequest, InWorker, Exports
  <2>4. UploadKeptUntilImported'
    BY <1>26 DEF AnalysisFails, StepsFitKind, SourceFitsKind, LayerFollowsData,
        UploadKeptUntilImported, InRequest, InWorker, Exports
  <2> QED BY <2>1, <2>2, <2>3, <2>4
<1>27. ASSUME NEW j \in Jobs, AnalysisReports(j) PROVE JobInv'
  <2>1. StepsFitKind' /\ SourceFitsKind'
    BY <1>27 DEF AnalysisReports, StepsFitKind, SourceFitsKind, InRequest, InWorker, Exports
  <2>2. DataIsDurable' /\ LayerFollowsData' /\ LayerHasData'
    BY <1>27 DEF AnalysisReports, StepsFitKind, DataIsDurable, LayerFollowsData, LayerHasData
  <2>3. HistoryFitsStep' /\ HistoryIsAtomic'
    BY <1>27 DEF AnalysisReports, StepsFitKind, LayerFollowsData, HistoryFitsStep,
        HistoryIsAtomic, InRequest, InWorker, Exports
  <2>4. UploadKeptUntilImported'
    BY <1>27 DEF AnalysisReports, StepsFitKind, SourceFitsKind, LayerFollowsData,
        UploadKeptUntilImported, InRequest, InWorker, Exports
  <2> QED BY <2>1, <2>2, <2>3, <2>4
<1>28. ASSUME NEW j \in Jobs, ExportReports(j) PROVE JobInv'
  <2>1. StepsFitKind' /\ SourceFitsKind'
    BY <1>28 DEF ExportReports, StepsFitKind, SourceFitsKind, InRequest, InWorker, Exports
  <2>2. DataIsDurable' /\ LayerFollowsData' /\ LayerHasData'
    BY <1>28 DEF ExportReports, StepsFitKind, DataIsDurable, LayerFollowsData, LayerHasData
  <2>3. HistoryFitsStep' /\ HistoryIsAtomic'
    BY <1>28 DEF ExportReports, StepsFitKind, LayerFollowsData, HistoryFitsStep, HistoryIsAtomic,
        InRequest, InWorker, Exports
  <2>4. UploadKeptUntilImported'
    BY <1>28 DEF ExportReports, StepsFitKind, SourceFitsKind, LayerFollowsData,
        UploadKeptUntilImported, InRequest, InWorker, Exports
  <2> QED BY <2>1, <2>2, <2>3, <2>4
<1>29. ASSUME NEW j \in Jobs, Publish(j) PROVE JobInv'
  <2>1. StepsFitKind' /\ SourceFitsKind'
    BY <1>29 DEF Publish, StepsFitKind, SourceFitsKind, InRequest, InWorker, Exports
  <2>2. DataIsDurable' /\ LayerFollowsData' /\ LayerHasData'
    BY <1>29 DEF Publish, StepsFitKind, DataIsDurable, LayerFollowsData, LayerHasData
  <2>3. HistoryFitsStep' /\ HistoryIsAtomic'
    BY <1>29 DEF Publish, StepsFitKind, LayerFollowsData, HistoryFitsStep, HistoryIsAtomic,
        InRequest, InWorker, Exports
  <2>4. UploadKeptUntilImported'
    BY <1>29 DEF Publish, StepsFitKind, SourceFitsKind, LayerFollowsData, UploadKeptUntilImported,
        InRequest, InWorker, Exports
  <2> QED BY <2>1, <2>2, <2>3, <2>4
<1>30. ASSUME NEW j \in Jobs, UnlinkUpload(j) PROVE JobInv'
  <2>1. StepsFitKind' /\ SourceFitsKind'
    BY <1>30 DEF UnlinkUpload, StepsFitKind, SourceFitsKind, InRequest, InWorker, Exports
  <2>2. DataIsDurable' /\ LayerFollowsData' /\ LayerHasData'
    BY <1>30 DEF UnlinkUpload, StepsFitKind, DataIsDurable, LayerFollowsData, LayerHasData
  <2>3. HistoryFitsStep' /\ HistoryIsAtomic'
    BY <1>30 DEF UnlinkUpload, StepsFitKind, LayerFollowsData, HistoryFitsStep, HistoryIsAtomic,
        InRequest, InWorker, Exports
  <2>4. UploadKeptUntilImported'
    BY <1>30 DEF UnlinkUpload, StepsFitKind, SourceFitsKind, LayerFollowsData,
        UploadKeptUntilImported, InRequest, InWorker, Exports
  <2> QED BY <2>1, <2>2, <2>3, <2>4
<1>31. ASSUME NEW j \in Jobs, StepFails(j) PROVE JobInv'
  <2>1. StepsFitKind' /\ SourceFitsKind'
    BY <1>31 DEF StepFails, StepsFitKind, SourceFitsKind, InRequest, InWorker, Exports
  <2>2. DataIsDurable' /\ LayerFollowsData' /\ LayerHasData'
    BY <1>31 DEF StepFails, StepsFitKind, DataIsDurable, LayerFollowsData, LayerHasData
  <2>3. HistoryFitsStep' /\ HistoryIsAtomic'
    BY <1>31 DEF StepFails, StepsFitKind, LayerFollowsData, HistoryFitsStep, HistoryIsAtomic,
        InRequest, InWorker, Exports
  <2>4. UploadKeptUntilImported'
    BY <1>31 DEF StepFails, StepsFitKind, SourceFitsKind, LayerFollowsData, UploadKeptUntilImported,
        InRequest, InWorker, Exports
  <2> QED BY <2>1, <2>2, <2>3, <2>4
<1>32. ASSUME NEW j \in Jobs, ReportMisses(j) PROVE JobInv'
  <2>1. StepsFitKind' /\ SourceFitsKind'
    BY <1>32 DEF ReportMisses, StepsFitKind, SourceFitsKind, InRequest, InWorker, Exports
  <2>2. DataIsDurable' /\ LayerFollowsData' /\ LayerHasData'
    BY <1>32 DEF ReportMisses, StepsFitKind, DataIsDurable, LayerFollowsData, LayerHasData
  <2>3. HistoryFitsStep' /\ HistoryIsAtomic'
    BY <1>32 DEF ReportMisses, StepsFitKind, LayerFollowsData, HistoryFitsStep, HistoryIsAtomic,
        InRequest, InWorker, Exports
  <2>4. UploadKeptUntilImported'
    BY <1>32 DEF ReportMisses, StepsFitKind, SourceFitsKind, LayerFollowsData,
        UploadKeptUntilImported, InRequest, InWorker, Exports
  <2> QED BY <2>1, <2>2, <2>3, <2>4
<1>33. ASSUME NEW j \in Jobs, Finish(j) PROVE JobInv'
  <2>1. StepsFitKind' /\ SourceFitsKind'
    BY <1>33 DEF Finish, StepsFitKind, SourceFitsKind, InRequest, InWorker, Exports, Committed,
        RolledBack, EndOf, Reports
  <2>2. DataIsDurable' /\ LayerFollowsData' /\ LayerHasData'
    BY <1>33 DEF Finish, StepsFitKind, DataIsDurable, LayerFollowsData, LayerHasData, Committed,
        RolledBack, EndOf, Reports
  <2>3. HistoryFitsStep' /\ HistoryIsAtomic'
    BY <1>33 DEF Finish, StepsFitKind, LayerFollowsData, HistoryFitsStep, HistoryIsAtomic,
        InRequest, InWorker, Exports, Committed, RolledBack, EndOf, Reports
  <2>4. UploadKeptUntilImported'
    BY <1>33 DEF Finish, StepsFitKind, SourceFitsKind, LayerFollowsData, UploadKeptUntilImported,
        InRequest, InWorker, Exports, Committed, RolledBack, EndOf, Reports
  <2> QED BY <2>1, <2>2, <2>3, <2>4
<1>34. ASSUME NEW j \in Jobs, IterationFails(j) PROVE JobInv'
  <2>1. StepsFitKind' /\ SourceFitsKind'
    BY <1>34 DEF IterationFails, StepsFitKind, SourceFitsKind, InRequest, InWorker, Exports,
        RolledBack, Reports
  <2>2. DataIsDurable' /\ LayerFollowsData' /\ LayerHasData'
    BY <1>34 DEF IterationFails, StepsFitKind, DataIsDurable, LayerFollowsData, LayerHasData,
        RolledBack, Reports
  <2>3. HistoryFitsStep' /\ HistoryIsAtomic'
    BY <1>34 DEF IterationFails, StepsFitKind, LayerFollowsData, HistoryFitsStep, HistoryIsAtomic,
        InRequest, InWorker, Exports, RolledBack, Reports
  <2>4. UploadKeptUntilImported'
    BY <1>34 DEF IterationFails, StepsFitKind, SourceFitsKind, LayerFollowsData,
        UploadKeptUntilImported, InRequest, InWorker, Exports, RolledBack, Reports
  <2> QED BY <2>1, <2>2, <2>3, <2>4
<1>35. ASSUME NEW j \in Jobs, DeleteLayer(j) PROVE JobInv'
  <2>1. StepsFitKind' /\ SourceFitsKind'
    BY <1>35 DEF DeleteLayer, StepsFitKind, SourceFitsKind, InRequest, InWorker, Exports
  <2>2. DataIsDurable' /\ LayerFollowsData' /\ LayerHasData'
    BY <1>35 DEF DeleteLayer, StepsFitKind, DataIsDurable, LayerFollowsData, LayerHasData
  <2>3. HistoryFitsStep' /\ HistoryIsAtomic'
    BY <1>35 DEF DeleteLayer, StepsFitKind, LayerFollowsData, HistoryFitsStep, HistoryIsAtomic,
        InRequest, InWorker, Exports
  <2>4. UploadKeptUntilImported'
    BY <1>35 DEF DeleteLayer, StepsFitKind, SourceFitsKind, LayerFollowsData,
        UploadKeptUntilImported, InRequest, InWorker, Exports
  <2> QED BY <2>1, <2>2, <2>3, <2>4
<1>36. CASE DeleteProject
  BY <1>36 DEF DeleteProject, StepsFitKind, SourceFitsKind, DataIsDurable, LayerFollowsData,
      LayerHasData, HistoryFitsStep, HistoryIsAtomic, UploadKeptUntilImported, InRequest,
      InWorker, Exports
<1>37. CASE Restart
  BY <1>37 DEF Restart, RolledBack, StepsFitKind, SourceFitsKind, DataIsDurable, LayerFollowsData,
      LayerHasData, HistoryFitsStep, HistoryIsAtomic, UploadKeptUntilImported, InRequest,
      InWorker, Exports
<1>38. CASE UNCHANGED vars
  BY <1>38 DEF vars, StepsFitKind, SourceFitsKind, DataIsDurable, LayerFollowsData, LayerHasData,
      HistoryFitsStep, HistoryIsAtomic, UploadKeptUntilImported, InRequest, InWorker, Exports
<1> QED BY <1>1, <1>2, <1>3, <1>4, <1>5, <1>6, <1>7, <1>8, <1>9, <1>10, <1>11, <1>12, <1>13,
    <1>14, <1>15, <1>16, <1>17, <1>18, <1>19, <1>20, <1>21, <1>22, <1>23, <1>24, <1>25, <1>26,
    <1>27, <1>28, <1>29, <1>30, <1>31, <1>32, <1>33, <1>34, <1>35, <1>36, <1>37, <1>38
     DEF Next, RequestStep, DatasetStep, TaskStep

\* The inductive invariant holds in every reachable state.
THEOREM JobsInvariance == Spec => []JobInv
  BY TypeInit, TypeStep, InvInit, InvStep, PTL DEF Spec

\* A stored layer has its data, whatever failed or crashed.
THEOREM LayerHasDataHolds == Spec => []LayerHasData
  BY JobsInvariance, PTL DEF JobInv

\* An import in a request has a succeeded history entry exactly if its layer
\* was stored.
THEOREM HistoryIsAtomicHolds == Spec => []HistoryIsAtomic
  BY JobsInvariance, PTL DEF JobInv

\* The upload of an import task is there until one of its imports has a layer.
THEOREM UploadKeptUntilImportedHolds == Spec => []UploadKeptUntilImported
  BY JobsInvariance, PTL DEF JobInv

-----------------------------------------------------------------------------
(***************************************************************************)
(* Undisturbed runs: no commit, clean-up or recording fails and the        *)
(* backend stays up                                                        *)
(***************************************************************************)
\* Only a claim puts a task into the worker, and only when it is free.
LEMMA WorkerStep ==
  ASSUME TypeOK, JobInv, WorkerIsExclusive, [Next]_vars
  PROVE  WorkerIsExclusive'
<1> USE JobsAssumption DEF TypeOK, jobVars, Goto, JobInv, StepsFitKind, WorkerIsExclusive,
        InRequest, InWorker, Exports
<1>1. ASSUME NEW j \in Jobs, RequestStep(j) PROVE WorkerIsExclusive'
  BY <1>1 DEF RequestStep, StartRequest, SaveUpload, UploadFails, InputRejected, RecordFinished,
     RecordFails, RequestCommits, CommitFails, RecordFailure, LeaveRequest
<1>2. ASSUME NEW j \in Jobs, DatasetStep(j) PROVE WorkerIsExclusive'
  BY <1>2 DEF DatasetStep, Write, WriteFails, Register, RegisterFails, Cleanup, CleanupFails
<1>3. ASSUME NEW j \in Jobs, NEW k \in InWorker, Submit(j, k) PROVE WorkerIsExclusive'
  BY <1>3 DEF Submit
<1>4. ASSUME NEW j \in Jobs, NEW o \in Jobs, SubmitFails(j) \/ Retry(j, o)
      PROVE  WorkerIsExclusive'
  BY <1>4 DEF SubmitFails, Retry
<1>5. ASSUME NEW j \in Jobs, RequestCancel(j) PROVE WorkerIsExclusive'
  BY <1>5 DEF RequestCancel
<1>6. ASSUME NEW j \in Jobs, Claim(j) PROVE WorkerIsExclusive'
  BY <1>6 DEF Claim
<1>7. ASSUME NEW j \in Jobs,
             \/ ReadInputs(j) \/ ReadFails(j) \/ CheckRaises(j) \/ RunAnalysis(j)
             \/ AnalysisFails(j) \/ AnalysisReports(j) \/ ExportReports(j) \/ Publish(j)
             \/ UnlinkUpload(j) \/ StepFails(j) \/ ReportMisses(j)
      PROVE  WorkerIsExclusive'
  BY <1>7 DEF ReadInputs, ReadFails, CheckRaises, RunAnalysis, AnalysisFails, AnalysisReports,
     ExportReports, Publish, UnlinkUpload, StepFails, ReportMisses
<1>8. ASSUME NEW j \in Jobs, Finish(j) \/ IterationFails(j) PROVE WorkerIsExclusive'
  BY <1>8 DEF Finish, IterationFails
<1>9. ASSUME NEW j \in Jobs, DeleteLayer(j) PROVE WorkerIsExclusive'
  BY <1>9 DEF DeleteLayer
<1>10. CASE DeleteProject \/ UNCHANGED vars
  BY <1>10 DEF DeleteProject, vars
<1>11. CASE Restart
  BY <1>11 DEF Restart
<1> QED BY <1>1, <1>2, <1>3, <1>4, <1>5, <1>6, <1>7, <1>8, <1>9, <1>10, <1>11
        DEF Next, TaskStep

FaultStep(j) ==
  RecordFails(j) \/ CommitFails(j) \/ CleanupFails(j) \/ SubmitFails(j) \/ StepFails(j)

\* Faults and restarts are only ever counted up: where there is none now there
\* was none before.
LEMMA BeforeFault ==
  ASSUME TypeOK, [Next]_vars, faults' = 0, restarts' = 0
  PROVE  faults = 0 /\ restarts = 0 /\ ~Restart /\ \A j \in Jobs : ~FaultStep(j)
<1>0. faults \in Nat /\ restarts \in Nat
  BY JobsAssumption DEF TypeOK
<1>1. ASSUME NEW j \in Jobs, FaultStep(j) PROVE FALSE
  BY <1>0, <1>1 DEF FaultStep, RecordFails, CommitFails, CleanupFails, SubmitFails, StepFails,
     Fault
<1>2. ASSUME Restart PROVE FALSE
  BY <1>0, <1>2 DEF Restart
<1>3. ASSUME NEW j \in Jobs, RequestStep(j) PROVE faults = 0 /\ restarts = 0
  BY <1>0, <1>1, <1>3 DEF FaultStep, RequestStep, StartRequest, SaveUpload, UploadFails,
     InputRejected, RecordFinished, RequestCommits, RecordFailure, LeaveRequest, Fault, NoFault
<1>4. ASSUME NEW j \in Jobs, DatasetStep(j) \/ DeleteLayer(j) PROVE faults = 0 /\ restarts = 0
  BY <1>0, <1>1, <1>4 DEF FaultStep, DatasetStep, Write, WriteFails, Register, RegisterFails,
     Cleanup, DeleteLayer
<1>5. ASSUME NEW j \in Jobs, TaskStep(j) PROVE faults = 0 /\ restarts = 0
  <2>1. ASSUME NEW k \in InWorker, Submit(j, k) PROVE faults = 0 /\ restarts = 0
    BY <2>1 DEF Submit
  <2>2. ASSUME NEW o \in Jobs, Retry(j, o) PROVE faults = 0 /\ restarts = 0
    BY <2>2 DEF Retry
  <2>3. CASE RequestCancel(j) \/ Claim(j) \/ Finish(j)
    BY <2>3 DEF RequestCancel, Claim, Finish
  <2>4. CASE \/ ReadInputs(j) \/ ReadFails(j) \/ CheckRaises(j) \/ RunAnalysis(j)
             \/ AnalysisFails(j) \/ AnalysisReports(j) \/ ExportReports(j) \/ Publish(j)
             \/ UnlinkUpload(j) \/ ReportMisses(j)
    BY <2>4 DEF ReadInputs, ReadFails, CheckRaises, RunAnalysis, AnalysisFails, AnalysisReports,
       ExportReports, Publish, UnlinkUpload, ReportMisses
  <2>5. CASE IterationFails(j)
    BY <1>0, <2>5 DEF IterationFails, Fault, NoFault
  <2> QED BY <1>1, <1>5, <2>1, <2>2, <2>3, <2>4, <2>5 DEF FaultStep, TaskStep
<1>6. CASE DeleteProject \/ UNCHANGED vars
  BY <1>1, <1>2, <1>6 DEF DeleteProject, vars
<1> QED BY <1>1, <1>2, <1>3, <1>4, <1>5, <1>6 DEF Next

\* Each job owns at each step what the step says: a failed write or registration
\* is undone, an unfinished transaction is rolled back.
LEMMA OwnedStep ==
  ASSUME TypeOK, JobInv, OwnedAtEachStep, [Next]_vars
  PROVE  OwnedAtEachStep'
<1> SUFFICES ASSUME faults' = 0, restarts' = 0 PROVE OwnedAtEachStep'
  BY DEF OwnedAtEachStep
<1>0. faults = 0 /\ restarts = 0 /\ ~Restart /\ \A j \in Jobs : ~FaultStep(j)
  BY BeforeFault
<1> USE DEF TypeOK, jobVars, Goto, Fault, NoFault, HasLayer, JobInv, StepsFitKind,
        DataIsDurable, LayerFollowsData, HistoryFitsStep, OwnedAtEachStep, OwnedAt, InRequest,
        InWorker, Exports
<1>1. ASSUME NEW j \in Jobs, NEW k \in InRequest, StartRequest(j, k) PROVE OwnedAtEachStep'
  BY <1>0, <1>1 DEF StartRequest
<1>2. ASSUME NEW j \in Jobs, SaveUpload(j) PROVE OwnedAtEachStep'
  BY <1>0, <1>2 DEF SaveUpload
<1>3. ASSUME NEW j \in Jobs, UploadFails(j) PROVE OwnedAtEachStep'
  BY <1>0, <1>3 DEF UploadFails
<1>4. ASSUME NEW j \in Jobs, InputRejected(j) PROVE OwnedAtEachStep'
  BY <1>0, <1>4 DEF InputRejected
<1>5. ASSUME NEW j \in Jobs, RecordFinished(j) PROVE OwnedAtEachStep'
  BY <1>0, <1>5 DEF RecordFinished
<1>6. ASSUME NEW j \in Jobs, RequestCommits(j) PROVE OwnedAtEachStep'
  BY <1>0, <1>6 DEF RequestCommits
<1>7. ASSUME NEW j \in Jobs, RecordFailure(j) PROVE OwnedAtEachStep'
  BY <1>0, <1>7 DEF RecordFailure
<1>8. ASSUME NEW j \in Jobs, LeaveRequest(j) PROVE OwnedAtEachStep'
  BY <1>0, <1>8 DEF LeaveRequest, RolledBack
<1>9. ASSUME NEW j \in Jobs, Write(j) PROVE OwnedAtEachStep'
  BY <1>0, <1>9 DEF Write
<1>10. ASSUME NEW j \in Jobs, WriteFails(j) PROVE OwnedAtEachStep'
  BY <1>0, <1>10 DEF WriteFails
<1>11. ASSUME NEW j \in Jobs, Register(j) PROVE OwnedAtEachStep'
  BY <1>0, <1>11 DEF Register, AfterRegister
<1>12. ASSUME NEW j \in Jobs, RegisterFails(j) PROVE OwnedAtEachStep'
  BY <1>0, <1>12 DEF RegisterFails
<1>13. ASSUME NEW j \in Jobs, Cleanup(j) PROVE OwnedAtEachStep'
  BY <1>0, <1>13 DEF Cleanup, AfterCleanup, RolledBack
<1>14. ASSUME NEW j \in Jobs, NEW k \in InWorker, Submit(j, k) PROVE OwnedAtEachStep'
  BY <1>0, <1>14 DEF Submit
<1>15. ASSUME NEW j \in Jobs, NEW o \in Jobs, Retry(j, o) PROVE OwnedAtEachStep'
  BY <1>0, <1>15 DEF Retry
<1>16. ASSUME NEW j \in Jobs, RequestCancel(j) PROVE OwnedAtEachStep'
  BY <1>0, <1>16 DEF RequestCancel
<1>17. ASSUME NEW j \in Jobs, Claim(j) PROVE OwnedAtEachStep'
  BY <1>0, <1>17 DEF Claim
<1>18. ASSUME NEW j \in Jobs, ReadInputs(j) PROVE OwnedAtEachStep'
  BY <1>0, <1>18 DEF ReadInputs
<1>19. ASSUME NEW j \in Jobs, ReadFails(j) PROVE OwnedAtEachStep'
  BY <1>0, <1>19 DEF ReadFails
<1>20. ASSUME NEW j \in Jobs, CheckRaises(j) PROVE OwnedAtEachStep'
  BY <1>0, <1>20 DEF CheckRaises
<1>21. ASSUME NEW j \in Jobs, RunAnalysis(j) PROVE OwnedAtEachStep'
  BY <1>0, <1>21 DEF RunAnalysis
<1>22. ASSUME NEW j \in Jobs, AnalysisFails(j) PROVE OwnedAtEachStep'
  BY <1>0, <1>22 DEF AnalysisFails
<1>23. ASSUME NEW j \in Jobs, AnalysisReports(j) PROVE OwnedAtEachStep'
  BY <1>0, <1>23 DEF AnalysisReports
<1>24. ASSUME NEW j \in Jobs, ExportReports(j) PROVE OwnedAtEachStep'
  BY <1>0, <1>24 DEF ExportReports
<1>25. ASSUME NEW j \in Jobs, Publish(j) PROVE OwnedAtEachStep'
  BY <1>0, <1>25 DEF Publish
<1>26. ASSUME NEW j \in Jobs, UnlinkUpload(j) PROVE OwnedAtEachStep'
  BY <1>0, <1>26 DEF UnlinkUpload
<1>27. ASSUME NEW j \in Jobs, ReportMisses(j) PROVE OwnedAtEachStep'
  BY <1>0, <1>27 DEF ReportMisses
<1>28. ASSUME NEW j \in Jobs, Finish(j) PROVE OwnedAtEachStep'
  BY <1>0, <1>28 DEF Finish, Committed, RolledBack, EndOf, Reports
<1>29. ASSUME NEW j \in Jobs, IterationFails(j) PROVE OwnedAtEachStep'
  BY <1>0, <1>29 DEF IterationFails, RolledBack, Reports
<1>30. ASSUME NEW j \in Jobs, DeleteLayer(j) PROVE OwnedAtEachStep'
  BY <1>0, <1>30 DEF DeleteLayer
<1>31. CASE DeleteProject
  BY <1>0, <1>31 DEF DeleteProject
<1>32. CASE UNCHANGED vars
  BY <1>0, <1>32 DEF vars
<1> HIDE DEF TypeOK, jobVars, Goto, Fault, NoFault, HasLayer, JobInv, StepsFitKind,
         DataIsDurable, LayerFollowsData, HistoryFitsStep, OwnedAtEachStep, OwnedAt, InRequest,
         InWorker, Exports
<1> QED BY <1>0, <1>1, <1>2, <1>3, <1>4, <1>5, <1>6, <1>7, <1>8, <1>9, <1>10, <1>11, <1>12,
   <1>13, <1>14, <1>15, <1>16, <1>17, <1>18, <1>19, <1>20, <1>21, <1>22, <1>23, <1>24, <1>25,
   <1>26, <1>27, <1>28, <1>29, <1>30, <1>31, <1>32
   DEF Next, RequestStep, DatasetStep, TaskStep, FaultStep

\* A job that ends has both its data and its layer, or neither.
LEMMA LeavesStep ==
  ASSUME TypeOK, JobInv, OwnedAtEachStep, FailureLeavesNothing, [Next]_vars
  PROVE  FailureLeavesNothing'
<1> SUFFICES ASSUME faults' = 0, restarts' = 0 PROVE FailureLeavesNothing'
  BY DEF FailureLeavesNothing
<1>0. faults = 0 /\ restarts = 0 /\ ~Restart /\ \A j \in Jobs : ~FaultStep(j)
  BY BeforeFault
<1> USE DEF TypeOK, jobVars, Goto, Fault, NoFault, HasLayer, JobInv, StepsFitKind,
        DataIsDurable, LayerFollowsData, HistoryFitsStep, OwnedAtEachStep, OwnedAt,
        FailureLeavesNothing, InRequest, InWorker, Exports
<1>1. ASSUME NEW j \in Jobs, NEW k \in InRequest, StartRequest(j, k) PROVE FailureLeavesNothing'
  BY <1>0, <1>1 DEF StartRequest
<1>2. ASSUME NEW j \in Jobs, SaveUpload(j) PROVE FailureLeavesNothing'
  BY <1>0, <1>2 DEF SaveUpload
<1>3. ASSUME NEW j \in Jobs, UploadFails(j) PROVE FailureLeavesNothing'
  BY <1>0, <1>3 DEF UploadFails
<1>4. ASSUME NEW j \in Jobs, InputRejected(j) PROVE FailureLeavesNothing'
  BY <1>0, <1>4 DEF InputRejected
<1>5. ASSUME NEW j \in Jobs, RecordFinished(j) PROVE FailureLeavesNothing'
  BY <1>0, <1>5 DEF RecordFinished
<1>6. ASSUME NEW j \in Jobs, RequestCommits(j) PROVE FailureLeavesNothing'
  BY <1>0, <1>6 DEF RequestCommits
<1>7. ASSUME NEW j \in Jobs, RecordFailure(j) PROVE FailureLeavesNothing'
  BY <1>0, <1>7 DEF RecordFailure
<1>8. ASSUME NEW j \in Jobs, LeaveRequest(j) PROVE FailureLeavesNothing'
  BY <1>0, <1>8 DEF LeaveRequest, RolledBack
<1>9. ASSUME NEW j \in Jobs, Write(j) PROVE FailureLeavesNothing'
  BY <1>0, <1>9 DEF Write
<1>10. ASSUME NEW j \in Jobs, WriteFails(j) PROVE FailureLeavesNothing'
  BY <1>0, <1>10 DEF WriteFails
<1>11. ASSUME NEW j \in Jobs, Register(j) PROVE FailureLeavesNothing'
  BY <1>0, <1>11 DEF Register, AfterRegister
<1>12. ASSUME NEW j \in Jobs, RegisterFails(j) PROVE FailureLeavesNothing'
  BY <1>0, <1>12 DEF RegisterFails
<1>13. ASSUME NEW j \in Jobs, Cleanup(j) PROVE FailureLeavesNothing'
  BY <1>0, <1>13 DEF Cleanup, AfterCleanup, RolledBack
<1>14. ASSUME NEW j \in Jobs, NEW k \in InWorker, Submit(j, k) PROVE FailureLeavesNothing'
  BY <1>0, <1>14 DEF Submit
<1>15. ASSUME NEW j \in Jobs, NEW o \in Jobs, Retry(j, o) PROVE FailureLeavesNothing'
  BY <1>0, <1>15 DEF Retry
<1>16. ASSUME NEW j \in Jobs, RequestCancel(j) PROVE FailureLeavesNothing'
  BY <1>0, <1>16 DEF RequestCancel
<1>17. ASSUME NEW j \in Jobs, Claim(j) PROVE FailureLeavesNothing'
  BY <1>0, <1>17 DEF Claim
<1>18. ASSUME NEW j \in Jobs, ReadInputs(j) PROVE FailureLeavesNothing'
  BY <1>0, <1>18 DEF ReadInputs
<1>19. ASSUME NEW j \in Jobs, ReadFails(j) PROVE FailureLeavesNothing'
  BY <1>0, <1>19 DEF ReadFails
<1>20. ASSUME NEW j \in Jobs, CheckRaises(j) PROVE FailureLeavesNothing'
  BY <1>0, <1>20 DEF CheckRaises
<1>21. ASSUME NEW j \in Jobs, RunAnalysis(j) PROVE FailureLeavesNothing'
  BY <1>0, <1>21 DEF RunAnalysis
<1>22. ASSUME NEW j \in Jobs, AnalysisFails(j) PROVE FailureLeavesNothing'
  BY <1>0, <1>22 DEF AnalysisFails
<1>23. ASSUME NEW j \in Jobs, AnalysisReports(j) PROVE FailureLeavesNothing'
  BY <1>0, <1>23 DEF AnalysisReports
<1>24. ASSUME NEW j \in Jobs, ExportReports(j) PROVE FailureLeavesNothing'
  BY <1>0, <1>24 DEF ExportReports
<1>25. ASSUME NEW j \in Jobs, Publish(j) PROVE FailureLeavesNothing'
  BY <1>0, <1>25 DEF Publish
<1>26. ASSUME NEW j \in Jobs, UnlinkUpload(j) PROVE FailureLeavesNothing'
  BY <1>0, <1>26 DEF UnlinkUpload
<1>27. ASSUME NEW j \in Jobs, ReportMisses(j) PROVE FailureLeavesNothing'
  BY <1>0, <1>27 DEF ReportMisses
<1>28. ASSUME NEW j \in Jobs, Finish(j) PROVE FailureLeavesNothing'
  BY <1>0, <1>28 DEF Finish, Committed, RolledBack, EndOf, Reports
<1>29. ASSUME NEW j \in Jobs, IterationFails(j) PROVE FailureLeavesNothing'
  BY <1>0, <1>29 DEF IterationFails, RolledBack, Reports
<1>30. ASSUME NEW j \in Jobs, DeleteLayer(j) PROVE FailureLeavesNothing'
  BY <1>0, <1>30 DEF DeleteLayer
<1>31. CASE DeleteProject
  BY <1>0, <1>31 DEF DeleteProject
<1>32. CASE UNCHANGED vars
  BY <1>0, <1>32 DEF vars
<1> HIDE DEF TypeOK, jobVars, Goto, Fault, NoFault, HasLayer, JobInv, StepsFitKind,
         DataIsDurable, LayerFollowsData, HistoryFitsStep, OwnedAtEachStep, OwnedAt,
         FailureLeavesNothing, InRequest, InWorker, Exports
<1> QED BY <1>0, <1>1, <1>2, <1>3, <1>4, <1>5, <1>6, <1>7, <1>8, <1>9, <1>10, <1>11, <1>12,
   <1>13, <1>14, <1>15, <1>16, <1>17, <1>18, <1>19, <1>20, <1>21, <1>22, <1>23, <1>24, <1>25,
   <1>26, <1>27, <1>28, <1>29, <1>30, <1>31, <1>32
   DEF Next, RequestStep, DatasetStep, TaskStep, FaultStep

\* An upload is removed when it is imported, and never saved again.
LEMMA SpentStep ==
  ASSUME TypeOK, JobInv, WorkerIsExclusive, OwnedAtEachStep, UploadIsSpent, ImportedOnce,
         [Next]_vars
  PROVE  UploadIsSpent'
<1> SUFFICES ASSUME faults' = 0, restarts' = 0 PROVE UploadIsSpent'
  BY DEF UploadIsSpent
<1>0. faults = 0 /\ restarts = 0 /\ ~Restart /\ \A j \in Jobs : ~FaultStep(j)
  BY BeforeFault
<1> USE DEF TypeOK, jobVars, Goto, Fault, NoFault, HasLayer, JobInv, StepsFitKind,
        SourceFitsKind, LayerFollowsData, HistoryFitsStep, WorkerIsExclusive, OwnedAtEachStep,
        OwnedAt, UploadIsSpent, ImportedOnce, InRequest, InWorker, Exports
<1>1. ASSUME NEW j \in Jobs, NEW k \in InRequest, StartRequest(j, k) PROVE UploadIsSpent'
  BY <1>0, <1>1 DEF StartRequest
<1>2. ASSUME NEW j \in Jobs, SaveUpload(j) PROVE UploadIsSpent'
  BY <1>0, <1>2 DEF SaveUpload
<1>3. ASSUME NEW j \in Jobs, UploadFails(j) PROVE UploadIsSpent'
  BY <1>0, <1>3 DEF UploadFails
<1>4. ASSUME NEW j \in Jobs, InputRejected(j) PROVE UploadIsSpent'
  BY <1>0, <1>4 DEF InputRejected
<1>5. ASSUME NEW j \in Jobs, RecordFinished(j) PROVE UploadIsSpent'
  BY <1>0, <1>5 DEF RecordFinished
<1>6. ASSUME NEW j \in Jobs, RequestCommits(j) PROVE UploadIsSpent'
  BY <1>0, <1>6 DEF RequestCommits
<1>7. ASSUME NEW j \in Jobs, RecordFailure(j) PROVE UploadIsSpent'
  BY <1>0, <1>7 DEF RecordFailure
<1>8. ASSUME NEW j \in Jobs, LeaveRequest(j) PROVE UploadIsSpent'
  BY <1>0, <1>8 DEF LeaveRequest, RolledBack
<1>9. ASSUME NEW j \in Jobs, Write(j) PROVE UploadIsSpent'
  BY <1>0, <1>9 DEF Write
<1>10. ASSUME NEW j \in Jobs, WriteFails(j) PROVE UploadIsSpent'
  BY <1>0, <1>10 DEF WriteFails
<1>11. ASSUME NEW j \in Jobs, Register(j) PROVE UploadIsSpent'
  BY <1>0, <1>11 DEF Register, AfterRegister
<1>12. ASSUME NEW j \in Jobs, RegisterFails(j) PROVE UploadIsSpent'
  BY <1>0, <1>12 DEF RegisterFails
<1>13. ASSUME NEW j \in Jobs, Cleanup(j) PROVE UploadIsSpent'
  BY <1>0, <1>13 DEF Cleanup, AfterCleanup, RolledBack
<1>14. ASSUME NEW j \in Jobs, NEW k \in InWorker, Submit(j, k) PROVE UploadIsSpent'
  BY <1>0, <1>14 DEF Submit
<1>15. ASSUME NEW j \in Jobs, NEW o \in Jobs, Retry(j, o) PROVE UploadIsSpent'
  BY <1>0, <1>15 DEF Retry
<1>16. ASSUME NEW j \in Jobs, RequestCancel(j) PROVE UploadIsSpent'
  BY <1>0, <1>16 DEF RequestCancel
<1>17. ASSUME NEW j \in Jobs, Claim(j) PROVE UploadIsSpent'
  BY <1>0, <1>17 DEF Claim
<1>18. ASSUME NEW j \in Jobs, ReadInputs(j) PROVE UploadIsSpent'
  BY <1>0, <1>18 DEF ReadInputs
<1>19. ASSUME NEW j \in Jobs, ReadFails(j) PROVE UploadIsSpent'
  BY <1>0, <1>19 DEF ReadFails
<1>20. ASSUME NEW j \in Jobs, CheckRaises(j) PROVE UploadIsSpent'
  BY <1>0, <1>20 DEF CheckRaises
<1>21. ASSUME NEW j \in Jobs, RunAnalysis(j) PROVE UploadIsSpent'
  BY <1>0, <1>21 DEF RunAnalysis
<1>22. ASSUME NEW j \in Jobs, AnalysisFails(j) PROVE UploadIsSpent'
  BY <1>0, <1>22 DEF AnalysisFails
<1>23. ASSUME NEW j \in Jobs, AnalysisReports(j) PROVE UploadIsSpent'
  BY <1>0, <1>23 DEF AnalysisReports
<1>24. ASSUME NEW j \in Jobs, ExportReports(j) PROVE UploadIsSpent'
  BY <1>0, <1>24 DEF ExportReports
<1>25. ASSUME NEW j \in Jobs, Publish(j) PROVE UploadIsSpent'
  BY <1>0, <1>25 DEF Publish
<1>26. ASSUME NEW j \in Jobs, UnlinkUpload(j) PROVE UploadIsSpent'
  BY <1>0, <1>26 DEF UnlinkUpload
<1>27. ASSUME NEW j \in Jobs, ReportMisses(j) PROVE UploadIsSpent'
  BY <1>0, <1>27 DEF ReportMisses
<1>28. ASSUME NEW j \in Jobs, Finish(j) PROVE UploadIsSpent'
  BY <1>0, <1>28 DEF Finish, Committed, RolledBack, EndOf, Reports
<1>29. ASSUME NEW j \in Jobs, IterationFails(j) PROVE UploadIsSpent'
  BY <1>0, <1>29 DEF IterationFails, RolledBack, Reports
<1>30. ASSUME NEW j \in Jobs, DeleteLayer(j) PROVE UploadIsSpent'
  BY <1>0, <1>30 DEF DeleteLayer
<1>31. CASE DeleteProject
  BY <1>0, <1>31 DEF DeleteProject
<1>32. CASE UNCHANGED vars
  BY <1>0, <1>32 DEF vars
<1> HIDE DEF TypeOK, jobVars, Goto, Fault, NoFault, HasLayer, JobInv, StepsFitKind,
         SourceFitsKind, LayerFollowsData, HistoryFitsStep, WorkerIsExclusive, OwnedAtEachStep,
         OwnedAt, UploadIsSpent, ImportedOnce, InRequest, InWorker, Exports
<1> QED BY <1>0, <1>1, <1>2, <1>3, <1>4, <1>5, <1>6, <1>7, <1>8, <1>9, <1>10, <1>11, <1>12,
   <1>13, <1>14, <1>15, <1>16, <1>17, <1>18, <1>19, <1>20, <1>21, <1>22, <1>23, <1>24, <1>25,
   <1>26, <1>27, <1>28, <1>29, <1>30, <1>31, <1>32
   DEF Next, RequestStep, DatasetStep, TaskStep, FaultStep

\* A task that publishes its layer still has its upload, so nobody else imported
\* it.
LEMMA OnceStep ==
  ASSUME TypeOK, JobInv, WorkerIsExclusive, OwnedAtEachStep, UploadIsSpent, ImportedOnce,
         [Next]_vars
  PROVE  ImportedOnce'
<1> SUFFICES ASSUME faults' = 0, restarts' = 0 PROVE ImportedOnce'
  BY DEF ImportedOnce
<1>0. faults = 0 /\ restarts = 0 /\ ~Restart /\ \A j \in Jobs : ~FaultStep(j)
  BY BeforeFault
<1> USE DEF TypeOK, jobVars, Goto, Fault, NoFault, HasLayer, JobInv, StepsFitKind,
        SourceFitsKind, LayerFollowsData, HistoryFitsStep, WorkerIsExclusive, OwnedAtEachStep,
        OwnedAt, UploadIsSpent, ImportedOnce, InRequest, InWorker, Exports
<1>a. \A i, k \in Jobs : kind[i] = "task" /\ source[i] = source[k] => kind[k] = "task"
  BY DEF TypeOK
<1>1. ASSUME NEW j \in Jobs, NEW k \in InRequest, StartRequest(j, k) PROVE ImportedOnce'
  BY <1>0, <1>1 DEF StartRequest
<1>2. ASSUME NEW j \in Jobs, SaveUpload(j) PROVE ImportedOnce'
  BY <1>0, <1>2 DEF SaveUpload
<1>3. ASSUME NEW j \in Jobs, UploadFails(j) PROVE ImportedOnce'
  BY <1>0, <1>3 DEF UploadFails
<1>4. ASSUME NEW j \in Jobs, InputRejected(j) PROVE ImportedOnce'
  BY <1>0, <1>4 DEF InputRejected
<1>5. ASSUME NEW j \in Jobs, RecordFinished(j) PROVE ImportedOnce'
  BY <1>0, <1>5 DEF RecordFinished
<1>6. ASSUME NEW j \in Jobs, RequestCommits(j) PROVE ImportedOnce'
  <2>1. kind[j] # "task"
    BY <1>6 DEF RequestCommits
  <2>2. \A i \in Jobs : kind[i] = "task" => layer'[i] = layer[i]
    BY <1>6, <2>1 DEF RequestCommits
  <2>3. kind' = kind /\ source' = source
    BY <1>6 DEF RequestCommits
  <2> HIDE DEF TypeOK, JobInv, StepsFitKind, SourceFitsKind, LayerFollowsData, HistoryFitsStep,
           WorkerIsExclusive, OwnedAtEachStep, OwnedAt, UploadIsSpent
  <2> QED BY <1>0, <1>a, <2>2, <2>3
<1>7. ASSUME NEW j \in Jobs, RecordFailure(j) PROVE ImportedOnce'
  BY <1>0, <1>7 DEF RecordFailure
<1>8. ASSUME NEW j \in Jobs, LeaveRequest(j) PROVE ImportedOnce'
  BY <1>0, <1>8 DEF LeaveRequest, RolledBack
<1>9. ASSUME NEW j \in Jobs, Write(j) PROVE ImportedOnce'
  BY <1>0, <1>9 DEF Write
<1>10. ASSUME NEW j \in Jobs, WriteFails(j) PROVE ImportedOnce'
  BY <1>0, <1>10 DEF WriteFails
<1>11. ASSUME NEW j \in Jobs, Register(j) PROVE ImportedOnce'
  BY <1>0, <1>11 DEF Register, AfterRegister
<1>12. ASSUME NEW j \in Jobs, RegisterFails(j) PROVE ImportedOnce'
  BY <1>0, <1>12 DEF RegisterFails
<1>13. ASSUME NEW j \in Jobs, Cleanup(j) PROVE ImportedOnce'
  BY <1>0, <1>13 DEF Cleanup, AfterCleanup, RolledBack
<1>14. ASSUME NEW j \in Jobs, NEW k \in InWorker, Submit(j, k) PROVE ImportedOnce'
  BY <1>0, <1>14 DEF Submit
<1>15. ASSUME NEW j \in Jobs, NEW o \in Jobs, Retry(j, o) PROVE ImportedOnce'
  BY <1>0, <1>15 DEF Retry
<1>16. ASSUME NEW j \in Jobs, RequestCancel(j) PROVE ImportedOnce'
  BY <1>0, <1>16 DEF RequestCancel
<1>17. ASSUME NEW j \in Jobs, Claim(j) PROVE ImportedOnce'
  BY <1>0, <1>17 DEF Claim
<1>18. ASSUME NEW j \in Jobs, ReadInputs(j) PROVE ImportedOnce'
  BY <1>0, <1>18 DEF ReadInputs
<1>19. ASSUME NEW j \in Jobs, ReadFails(j) PROVE ImportedOnce'
  BY <1>0, <1>19 DEF ReadFails
<1>20. ASSUME NEW j \in Jobs, CheckRaises(j) PROVE ImportedOnce'
  BY <1>0, <1>20 DEF CheckRaises
<1>21. ASSUME NEW j \in Jobs, RunAnalysis(j) PROVE ImportedOnce'
  BY <1>0, <1>21 DEF RunAnalysis
<1>22. ASSUME NEW j \in Jobs, AnalysisFails(j) PROVE ImportedOnce'
  BY <1>0, <1>22 DEF AnalysisFails
<1>23. ASSUME NEW j \in Jobs, AnalysisReports(j) PROVE ImportedOnce'
  BY <1>0, <1>23 DEF AnalysisReports
<1>24. ASSUME NEW j \in Jobs, ExportReports(j) PROVE ImportedOnce'
  BY <1>0, <1>24 DEF ExportReports
<1>25. ASSUME NEW j \in Jobs, Publish(j) PROVE ImportedOnce'
  <2>1. kind[j] = "task" /\ worker = j /\ source[j] \in uploads
    BY <1>0, <1>25 DEF Publish
  <2>2. \A i \in Jobs \ {j} : kind[i] = "task" /\ HasLayer(i) => source[i] \notin uploads
    BY <1>0, <2>1
  <2>3. \A i \in Jobs \ {j} : layer'[i] = layer[i]
    BY <1>25 DEF Publish
  <2>4. kind' = kind /\ source' = source
    BY <1>25 DEF Publish
  <2> HIDE DEF TypeOK, JobInv, StepsFitKind, SourceFitsKind, LayerFollowsData, HistoryFitsStep,
           WorkerIsExclusive, OwnedAtEachStep, OwnedAt, UploadIsSpent
  <2> QED BY <1>0, <1>a, <2>1, <2>2, <2>3, <2>4
<1>26. ASSUME NEW j \in Jobs, UnlinkUpload(j) PROVE ImportedOnce'
  BY <1>0, <1>26 DEF UnlinkUpload
<1>27. ASSUME NEW j \in Jobs, ReportMisses(j) PROVE ImportedOnce'
  BY <1>0, <1>27 DEF ReportMisses
<1>28. ASSUME NEW j \in Jobs, Finish(j) PROVE ImportedOnce'
  <2>1. kind[j] = "task" /\ HasLayer(j)' => HasLayer(j)
    BY <1>0, <1>28 DEF Finish, Committed, RolledBack
  <2>2. kind' = kind /\ source' = source /\ \A i \in Jobs \ {j} : layer'[i] = layer[i]
    BY <1>28 DEF Finish
  <2> HIDE DEF TypeOK, JobInv, StepsFitKind, SourceFitsKind, LayerFollowsData, HistoryFitsStep,
           WorkerIsExclusive, OwnedAtEachStep, OwnedAt, UploadIsSpent
  <2> QED BY <1>0, <1>a, <2>1, <2>2
<1>29. ASSUME NEW j \in Jobs, IterationFails(j) PROVE ImportedOnce'
  BY <1>0, <1>29 DEF IterationFails, RolledBack, Reports
<1>30. ASSUME NEW j \in Jobs, DeleteLayer(j) PROVE ImportedOnce'
  BY <1>0, <1>30 DEF DeleteLayer
<1>31. CASE DeleteProject
  BY <1>0, <1>31 DEF DeleteProject
<1>32. CASE UNCHANGED vars
  BY <1>0, <1>32 DEF vars
<1> HIDE DEF TypeOK, jobVars, Goto, Fault, NoFault, HasLayer, JobInv, StepsFitKind,
         SourceFitsKind, LayerFollowsData, HistoryFitsStep, WorkerIsExclusive, OwnedAtEachStep,
         OwnedAt, UploadIsSpent, ImportedOnce, InRequest, InWorker, Exports
<1> QED BY <1>0, <1>1, <1>2, <1>3, <1>4, <1>5, <1>6, <1>7, <1>8, <1>9, <1>10, <1>11, <1>12,
   <1>13, <1>14, <1>15, <1>16, <1>17, <1>18, <1>19, <1>20, <1>21, <1>22, <1>23, <1>24, <1>25,
   <1>26, <1>27, <1>28, <1>29, <1>30, <1>31, <1>32
   DEF Next, RequestStep, DatasetStep, TaskStep, FaultStep

\* No job has started: nothing is owned and nothing was imported.
LEMMA JobRestInit == Init => JobRest
  BY DEF Init, JobRest, WorkerIsExclusive, OwnedAtEachStep, OwnedAt, FailureLeavesNothing,
     UploadIsSpent, ImportedOnce, HasLayer, InRequest, InWorker, Exports

\* The rest of the invariant holds in every reachable state.
THEOREM JobRestInvariance == Spec => []JobRest
<1>1. TypeOK /\ JobInv /\ JobRest /\ [Next]_vars => JobRest'
  BY WorkerStep, OwnedStep, LeavesStep, SpentStep, OnceStep DEF JobRest
<1> QED BY <1>1, JobRestInit, JobsTypeCorrect, JobsInvariance, PTL DEF Spec

\* A finished import or analysis has its data exactly if it has its layer, in
\* an undisturbed run.
THEOREM FailureLeavesNothingHolds == Spec => []FailureLeavesNothing
  BY JobRestInvariance, PTL DEF JobRest

\* An upload is imported once however often the import is retried, in an
\* undisturbed run.
THEOREM ImportedOnceHolds == Spec => []ImportedOnce
  BY JobRestInvariance, PTL DEF JobRest
=============================================================================
