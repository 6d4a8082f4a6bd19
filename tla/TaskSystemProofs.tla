-------------------------- MODULE TaskSystemProofs --------------------------
(***************************************************************************)
(* What TaskSystem guarantees for any number of processes, clients, tasks, *)
(* restarts and failing statements.                                        *)
(***************************************************************************)
EXTENDS TaskSystem, TLAPS

\* The empty table, the idle clients and the stopped processes are well typed.
LEMMA TypeInit == Init => TypeOK
  BY BoundsAssumption
     DEF Init, TypeOK, IdleReq, Reqs, IdleWorker, Workers, NoTask, Tasks

\* A worker has a task exactly while it is busy.
LEMMA BusyWorker ==
  ASSUME TypeOK, NEW p \in Procs
  PROVE  /\ worker[p].pc \in Busy =>
              worker[p] \in [pc : Busy, task : Tasks, seen : States \cup {"absent"}]
         /\ worker[p].pc \notin Busy => worker[p] = IdleWorker(worker[p].pc)
         /\ worker[p].pc \in Busy <=> Doing(p) # NoTask
  BY DEF TypeOK, Workers, IdleWorker, Busy, Ending, Doing, Tasks, NoTask

\* Every step keeps every variable in its type.
LEMMA TypeStep == TypeOK /\ [Next]_vars => TypeOK'
<1> SUFFICES ASSUME TypeOK, [Next]_vars PROVE TypeOK'
  OBVIOUS
<1> USE DEF TypeOK, rowVars
<1>1. ASSUME NEW c \in Clients, NEW p \in Procs, NEW o \in Tasks \cup {NoTask},
             FlushInsert(c, p, o)
      PROVE  TypeOK'
  BY <1>1, BoundsAssumption DEF FlushInsert, Reqs, Tasks
<1>2. ASSUME NEW c \in Clients, InsertCommit(c) PROVE TypeOK'
  BY <1>2, BoundsAssumption DEF InsertCommit, Reqs, IdleReq, States
<1>3. ASSUME NEW c \in Clients, NEW p \in Procs, NEW t \in Tasks, CancelRead(c, p, t)
      PROVE  TypeOK'
  BY <1>3 DEF CancelRead, Reqs, States
<1>4. ASSUME NEW c \in Clients, CancelFlush(c) PROVE TypeOK'
  <2>1. [req[c] EXCEPT !.pc = "cancelFlushed"] \in Reqs
    BY DEF Reqs
  <2>2. req' \in [Clients -> Reqs]
    BY <1>4, <2>1 DEF CancelFlush
  <2> QED BY <1>4, <2>2 DEF CancelFlush
<1>5. ASSUME NEW c \in Clients, CancelCommit(c) PROVE TypeOK'
  BY <1>5, BoundsAssumption DEF CancelCommit, CancelTarget, Reqs, IdleReq, States
<1>6. ASSUME NEW c \in Clients, RequestFails(c) PROVE TypeOK'
  BY <1>6, BoundsAssumption DEF RequestFails, Reqs, IdleReq
<1>7. ASSUME NEW p \in Procs, NEW t \in Tasks, Claim(p, t) PROVE TypeOK'
  BY <1>7 DEF Claim, Claimable, Workers, Busy, States
<1>8. ASSUME NEW p \in Procs, ClaimNothing(p) PROVE TypeOK'
  BY <1>8 DEF ClaimNothing, Workers, IdleWorker
<1>9. ASSUME NEW p \in Procs, NEW pc \in Busy, worker' = Refreshed(p, pc), worker[p].pc \in Busy,
             UNCHANGED <<rowVars, nextId, req, wake, stop, starts, faults>>
      PROVE  TypeOK'
  <2>1. worker[p] \in [pc : Busy, task : Tasks, seen : States \cup {"absent"}]
    BY <1>9, BusyWorker
  <2>2. state[Doing(p)] \in States \cup {"absent"}
    BY <2>1 DEF Doing
  <2>3. worker'[p] \in [pc : Busy, task : Tasks, seen : States \cup {"absent"}]
    BY <1>9, <2>1, <2>2 DEF Refreshed
  <2>4. worker' \in [Procs -> Workers]
    BY <1>9, <2>3 DEF Refreshed, Workers
  <2> QED BY <1>9, <2>4
<1>10. ASSUME NEW p \in Procs, Finish(p) PROVE TypeOK'
  <2>1. state' \in [Tasks -> States \cup {"absent"}]
    BY <1>10 DEF Finish, EndState, Ending, States
  <2>2. result' \in [Tasks -> BOOLEAN]
    BY <1>10 DEF Finish
  <2>3. worker' \in [Procs -> Workers]
    BY <1>10 DEF Finish, Workers
  <2> QED BY <1>10, <2>1, <2>2, <2>3 DEF Finish
<1>11. ASSUME NEW p \in Procs, IterationFails(p) \/ HandlerErrorEscapes(p) PROVE TypeOK'
  BY <1>11 DEF IterationFails, HandlerErrorEscapes, Workers, IdleWorker
<1>12. ASSUME NEW p \in Procs, EndWait(p) PROVE TypeOK'
  BY <1>12 DEF EndWait, Workers, IdleWorker
<1>13. ASSUME NEW p \in Procs, Start(p) PROVE TypeOK'
  BY <1>13 DEF Start, RecoveredState, States, Workers, IdleWorker
<1>14. ASSUME NEW p \in Procs, Crash(p) PROVE TypeOK'
  BY <1>14, BoundsAssumption DEF Crash, Workers, IdleWorker, Reqs, IdleReq
<1>15. ASSUME NEW p \in Procs, Shutdown(p) PROVE TypeOK'
  BY <1>15 DEF Shutdown
<1>16. ASSUME NEW p \in Procs, WorkerStops(p) PROVE TypeOK'
  BY <1>16 DEF WorkerStops, Workers, IdleWorker
<1>17. CASE UNCHANGED vars
  BY <1>17 DEF vars
<1> QED
  BY <1>1, <1>2, <1>3, <1>4, <1>5, <1>6, <1>7, <1>8, <1>9, <1>10, <1>11, <1>12,
     <1>13, <1>14, <1>15, <1>16, <1>17
     DEF Next, CancelRequest, InsertRequest, WorkerStep, HandlerStep, ProcessStep,
         Submit, Retry, Begin, Report, CheckRaises, HandlerReturns, HandlerRaises,
         Notified, PollTimeout, Busy, Ending

\* The table, the requests and the workers stay well typed.
THEOREM TypeCorrect == Spec => []TypeOK
  BY TypeInit, TypeStep, PTL DEF Spec

-----------------------------------------------------------------------------
(***************************************************************************)
(* The inductive invariant                                                 *)
(***************************************************************************)

\* Nothing is in the table, no request is open and no process runs at first.
LEMMA InvInit == Init => TaskInv
  BY BoundsAssumption
     DEF Init, TaskInv, CleanUntilTaken, IdsAreFresh, InsertOwnsItsId, CancelsCommittedRow,
         WorkerStartedItsTask, ExclusiveExecution, CancelSticks, SuccessHasResult,
         RetryOfAttempted, IdleReq, IdleWorker, Doing, NoTask, Tasks

\* One step per action.  FlushInsert, Claim, the commits and Start are where
\* the invariant is at stake; the other steps move a worker or a request on.
LEMMA InvStep == TypeOK /\ TaskInv /\ [Next]_vars => TaskInv'
<1> SUFFICES ASSUME TypeOK, TaskInv, [Next]_vars PROVE TaskInv'
  OBVIOUS
<1> USE DEF TaskInv, rowVars
<1>t. TypeOK'
  BY TypeStep
<1>a. \A p \in Procs : /\ worker[p].pc \in Busy <=> Doing(p) # NoTask
                       /\ Doing(p) # NoTask => Doing(p) \in Tasks
  BY BusyWorker DEF Doing, IdleWorker
<1>1. ASSUME NEW c \in Clients, NEW p \in Procs, NEW o \in Tasks \cup {NoTask},
             o # NoTask => state[o] \in Retryable, FlushInsert(c, p, o)
      PROVE  TaskInv'
  <2>1. CleanUntilTaken' /\ CancelSticks' /\ SuccessHasResult'
    BY <1>1 DEF FlushInsert, CleanUntilTaken, CancelSticks, SuccessHasResult
  <2>2. IdsAreFresh'
    BY <1>1 DEF FlushInsert, IdsAreFresh, TypeOK, Tasks
  <2>3. InsertOwnsItsId'
    BY <1>1 DEF FlushInsert, InsertOwnsItsId, IdsAreFresh, TypeOK, Tasks, Reqs
  <2>4. CancelsCommittedRow'
    BY <1>1 DEF FlushInsert, CancelsCommittedRow, TypeOK
  <2>5. WorkerStartedItsTask' /\ ExclusiveExecution'
    BY <1>1 DEF FlushInsert, WorkerStartedItsTask, ExclusiveExecution, Doing
  <2>6. RetryOfAttempted'
    BY <1>1 DEF FlushInsert, RetryOfAttempted, IdsAreFresh, Retryable, TypeOK, Tasks, NoTask
  <2> QED BY <2>1, <2>2, <2>3, <2>4, <2>5, <2>6
<1>2. ASSUME NEW c \in Clients, InsertCommit(c) PROVE TaskInv'
  <2> DEFINE i == req[c].task
  <2>1. i \in Tasks /\ i < nextId /\ state[i] = "absent" /\ ~cancelRequested[i] /\ ~startedAt[i]
    BY <1>2 DEF InsertCommit, InsertOwnsItsId, CleanUntilTaken
  <2>2. CleanUntilTaken' /\ CancelSticks' /\ SuccessHasResult' /\ IdsAreFresh'
    BY <1>2, <2>1 DEF InsertCommit, CleanUntilTaken, CancelSticks, SuccessHasResult, IdsAreFresh,
                      TypeOK, Tasks
  <2>3. InsertOwnsItsId'
    BY <1>2, <2>1 DEF InsertCommit, InsertOwnsItsId, TypeOK, IdleReq
  <2>4. CancelsCommittedRow'
    BY <1>2, <2>1 DEF InsertCommit, CancelsCommittedRow, TypeOK, IdleReq
  <2>5. WorkerStartedItsTask' /\ ExclusiveExecution'
    BY <1>2 DEF InsertCommit, WorkerStartedItsTask, ExclusiveExecution, Doing
  <2>6. RetryOfAttempted'
    BY <1>2, <2>1 DEF InsertCommit, RetryOfAttempted, TypeOK, Tasks, NoTask
  <2> QED BY <2>2, <2>3, <2>4, <2>5, <2>6
<1>3. ASSUME NEW c \in Clients, NEW p \in Procs, NEW t \in Tasks, CancelRead(c, p, t)
      PROVE  TaskInv'
  BY <1>3 DEF CancelRead, CleanUntilTaken, IdsAreFresh, InsertOwnsItsId, CancelsCommittedRow,
      WorkerStartedItsTask, ExclusiveExecution, CancelSticks, SuccessHasResult, RetryOfAttempted,
      Doing, TypeOK
<1>4. ASSUME NEW c \in Clients, CancelFlush(c) PROVE TaskInv'
  BY <1>4 DEF CancelFlush, CleanUntilTaken, IdsAreFresh, InsertOwnsItsId, CancelsCommittedRow,
      WorkerStartedItsTask, ExclusiveExecution, CancelSticks, SuccessHasResult, RetryOfAttempted,
      Doing, TypeOK, Reqs
<1>5. ASSUME NEW c \in Clients, CancelCommit(c) PROVE TaskInv'
  <2>1. /\ req[c].task \in Tasks /\ state[req[c].task] # "absent"
        /\ CancelTarget(req[c].seen) \in {"cancelled", "cancelling"}
    BY <1>5 DEF CancelCommit, CancelsCommittedRow, CancelTarget
  <2>2. CleanUntilTaken' /\ CancelSticks' /\ SuccessHasResult' /\ IdsAreFresh'
    BY <1>5, <2>1 DEF CancelCommit, CleanUntilTaken, CancelSticks, SuccessHasResult, IdsAreFresh,
                      TypeOK, Tasks
  <2>3. InsertOwnsItsId' /\ CancelsCommittedRow'
    BY <1>5, <2>1 DEF CancelCommit, InsertOwnsItsId, CancelsCommittedRow, TypeOK, IdleReq
  <2>4. WorkerStartedItsTask' /\ ExclusiveExecution'
    BY <1>5 DEF CancelCommit, WorkerStartedItsTask, ExclusiveExecution, Doing
  <2>5. RetryOfAttempted'
    BY <1>5, <2>1 DEF CancelCommit, RetryOfAttempted, TypeOK, Tasks, NoTask
  <2> QED BY <2>2, <2>3, <2>4, <2>5
<1>6. ASSUME NEW c \in Clients, RequestFails(c) PROVE TaskInv'
  BY <1>6 DEF RequestFails, CleanUntilTaken, IdsAreFresh, InsertOwnsItsId, CancelsCommittedRow,
      WorkerStartedItsTask, ExclusiveExecution, CancelSticks, SuccessHasResult, RetryOfAttempted,
      Doing, TypeOK, IdleReq
<1>7. ASSUME NEW p \in Procs, NEW t \in Tasks, Claim(p, t) PROVE TaskInv'
  <2>1. state[t] = "queued" /\ ~cancelRequested[t] /\ ~startedAt[t]
    BY <1>7 DEF Claim, Claimable, CleanUntilTaken
  <2>2. CleanUntilTaken' /\ CancelSticks' /\ SuccessHasResult' /\ IdsAreFresh'
    BY <1>7, <2>1 DEF Claim, CleanUntilTaken, CancelSticks, SuccessHasResult, IdsAreFresh,
                      TypeOK, Tasks
  <2>3. InsertOwnsItsId' /\ CancelsCommittedRow'
    BY <1>7, <2>1 DEF Claim, InsertOwnsItsId, CancelsCommittedRow, TypeOK
  <2>4. WorkerStartedItsTask' /\ ExclusiveExecution'
    BY <1>7, <2>1, <1>a DEF Claim, WorkerStartedItsTask, ExclusiveExecution, Doing, TypeOK
  <2>5. RetryOfAttempted'
    BY <1>7, <2>1 DEF Claim, RetryOfAttempted, TypeOK, Tasks, NoTask
  <2> QED BY <2>2, <2>3, <2>4, <2>5
<1>8. ASSUME NEW p \in Procs, UNCHANGED <<rowVars, nextId>>,
             \A c \in Clients : req'[c] = req[c] \/ req'[c] = IdleReq,
             \A q \in Procs : Doing(q)' = Doing(q) \/ Doing(q)' = NoTask
      PROVE  TaskInv'
  <2>0. \A c \in Clients : req'[c] = req[c] \/ req'[c].pc = "idle"
    <3>1. IdleReq.pc = "idle"
      BY DEF IdleReq
    <3> QED BY <1>8, <3>1
  <2>1. InsertOwnsItsId' /\ CancelsCommittedRow'
    <3>1. InsertOwnsItsId'
      BY <1>8, <2>0 DEF InsertOwnsItsId
    <3>2. CancelsCommittedRow'
      BY <1>8, <2>0 DEF CancelsCommittedRow
    <3> QED BY <3>1, <3>2
  <2>2. WorkerStartedItsTask' /\ ExclusiveExecution'
    BY <1>8 DEF WorkerStartedItsTask, ExclusiveExecution
  <2> QED
    BY <1>8, <2>1, <2>2 DEF CleanUntilTaken, IdsAreFresh, CancelSticks, SuccessHasResult,
                            RetryOfAttempted
<1>9. ASSUME NEW p \in Procs, Finish(p) PROVE TaskInv'
  <2> DEFINE t == Doing(p)
  <2>1. /\ t \in Tasks /\ startedAt[t] /\ state[t] \notin {"absent", "queued"}
        /\ EndState(worker[p].pc) \in TerminalStates
        /\ EndState(worker[p].pc) = "succeeded" => worker[p].pc = "finishing"
    BY <1>9, <1>a DEF Finish, WorkerStartedItsTask, CleanUntilTaken, EndState, Ending, Busy,
                      TerminalStates
  <2>2. \A u \in Tasks :
          \/ state'[u] = state[u]
          \/ u = t /\ state'[u] = EndState(worker[p].pc)
    BY <1>9, <2>1 DEF Finish, TypeOK
  <2>3. \A u \in Tasks : result'[u] = result[u] \/ result'[u] = TRUE
    BY <1>9 DEF Finish, TypeOK
  <2>4. SuccessHasResult'
    <3> SUFFICES ASSUME NEW u \in Tasks, state'[u] = "succeeded"
                 PROVE  startedAt'[u] /\ result'[u]
      BY DEF SuccessHasResult
    <3>1. CASE state[u] = "succeeded"
      BY <1>9, <2>3, <3>1 DEF Finish, SuccessHasResult
    <3>2. CASE u = t /\ EndState(worker[p].pc) = "succeeded"
      BY <1>9, <2>1, <3>2 DEF Finish, TypeOK
    <3> QED BY <2>2, <3>1, <3>2
  <2>5. CleanUntilTaken' /\ CancelSticks' /\ IdsAreFresh'
    BY <1>9, <2>1, <2>2 DEF Finish, CleanUntilTaken, CancelSticks, IdsAreFresh, TerminalStates
  <2>6. InsertOwnsItsId' /\ CancelsCommittedRow'
    BY <1>9, <2>1, <2>2 DEF Finish, InsertOwnsItsId, CancelsCommittedRow, TerminalStates
  <2>7. WorkerStartedItsTask' /\ ExclusiveExecution'
    BY <1>9 DEF Finish, WorkerStartedItsTask, ExclusiveExecution, Doing, TypeOK, IdleWorker
  <2>8. RetryOfAttempted'
    <3> SUFFICES ASSUME NEW u \in Tasks, retryOf[u] # NoTask
                 PROVE  /\ retryOf[u] < u
                        /\ state'[retryOf[u]] \notin {"absent", "queued"}
      BY <1>9 DEF Finish, RetryOfAttempted
    <3>1. /\ retryOf[u] \in Tasks /\ retryOf[u] < u
          /\ state[retryOf[u]] \notin {"absent", "queued"}
      BY DEF RetryOfAttempted, TypeOK
    <3> QED BY <3>1, <2>1, <2>2 DEF TerminalStates
  <2> QED BY <2>4, <2>5, <2>6, <2>7, <2>8
<1>10. ASSUME NEW p \in Procs, Start(p) PROVE TaskInv'
  <2>1. \A u \in Tasks :
          state'[u] = IF state[u] \in {"running", "cancelling"} THEN "failed" ELSE state[u]
    BY <1>10 DEF Start, Interrupted, RecoveredState
  <2>2. CleanUntilTaken' /\ CancelSticks' /\ IdsAreFresh' /\ SuccessHasResult'
    BY <1>10, <2>1 DEF Start, CleanUntilTaken, CancelSticks, IdsAreFresh, SuccessHasResult
  <2>3. InsertOwnsItsId' /\ CancelsCommittedRow'
    BY <1>10, <2>1 DEF Start, InsertOwnsItsId, CancelsCommittedRow
  <2>4. WorkerStartedItsTask' /\ ExclusiveExecution'
    BY <1>10 DEF Start, WorkerStartedItsTask, ExclusiveExecution, Doing, TypeOK, IdleWorker
  <2>5. RetryOfAttempted'
    BY <1>10, <2>1 DEF Start, RetryOfAttempted, TypeOK, NoTask
  <2> QED BY <2>2, <2>3, <2>4, <2>5
<1>11. ASSUME NEW p \in Procs, NEW pc \in Busy, worker' = Refreshed(p, pc),
              UNCHANGED <<rowVars, nextId, req>>
       PROVE  TaskInv'
  <2>1. \A q \in Procs : Doing(q)' = Doing(q)
    BY <1>11 DEF Refreshed, Doing, TypeOK
  <2> QED BY <1>8, <1>11, <2>1
<1>12. ASSUME NEW p \in Procs, NEW pc \in {"down", "loop", "sleep"},
              worker' = [worker EXCEPT ![p] = IdleWorker(pc)], UNCHANGED <<rowVars, nextId>>,
              \A c \in Clients : req'[c] = req[c] \/ req'[c] = IdleReq
       PROVE  TaskInv'
  <2>1. \A q \in Procs : Doing(q)' = Doing(q) \/ Doing(q)' = NoTask
    BY <1>12 DEF Doing, IdleWorker, TypeOK
  <2> QED BY <1>8, <1>12, <2>1
<1>13. ASSUME NEW p \in Procs, Begin(p) \/ HandlerStep(p) PROVE TaskInv'
  BY <1>13, <1>11 DEF Begin, HandlerStep, Report, CheckRaises, HandlerReturns, HandlerRaises,
                      Busy, Ending
<1>14. ASSUME NEW p \in Procs,
              \/ ClaimNothing(p) \/ IterationFails(p) \/ HandlerErrorEscapes(p)
              \/ EndWait(p) \/ Crash(p) \/ WorkerStops(p)
       PROVE  TaskInv'
  BY <1>14, <1>12 DEF ClaimNothing, IterationFails, HandlerErrorEscapes, EndWait, Crash,
                      WorkerStops
<1>15. ASSUME NEW p \in Procs, Shutdown(p) \/ UNCHANGED vars PROVE TaskInv'
  BY <1>15, <1>8 DEF Shutdown, vars, Doing
<1>16. ASSUME NEW c \in Clients, CancelRequest(c) \/ InsertRequest(c) \/ RequestFails(c)
       PROVE  TaskInv'
  BY <1>16, <1>1, <1>2, <1>3, <1>4, <1>5, <1>6, BoundsAssumption
     DEF CancelRequest, InsertRequest, Submit, Retry, NoTask, Tasks
<1>17. ASSUME NEW p \in Procs, WorkerStep(p) \/ ProcessStep(p) PROVE TaskInv'
  BY <1>17, <1>7, <1>9, <1>10, <1>13, <1>14, <1>15
     DEF WorkerStep, ProcessStep, Notified, PollTimeout
<1> QED
  BY <1>15, <1>16, <1>17, BoundsAssumption DEF Next, vars

\* The inductive invariant holds in every reachable state.
THEOREM Invariance == Spec => []TaskInv
  BY TypeInit, TypeStep, InvInit, InvStep, PTL DEF Spec

-----------------------------------------------------------------------------
(***************************************************************************)
(* What the invariant gives                                                *)
(***************************************************************************)

\* Two workers never execute the same task, for any number of processes.
THEOREM ExclusiveExecutionHolds == Spec => []ExclusiveExecution
  BY Invariance, PTL DEF TaskInv

\* An accepted cancellation is never followed by a `queued` or `running` row.
THEOREM CancelSticksHolds == Spec => []CancelSticks
  BY Invariance, PTL DEF TaskInv

\* A row shown as succeeded was claimed and carries its handler's result.
THEOREM SuccessHasResultHolds == Spec => []SuccessHasResult
  BY Invariance, PTL DEF TaskInv

\* A retry copies a task that left the queue.
THEOREM RetryOfAttemptedHolds == Spec => []RetryOfAttempted
  BY Invariance, PTL DEF TaskInv

\* The only step that makes a row `queued` commits an INSERT, and its row was
\* absent; so no step puts a task back in the queue.
LEMMA NeverRequeuedStep ==
  TypeOK /\ TaskInv /\ [Next]_vars =>
    \A t \in Tasks : state[t] \notin {"absent", "queued"} => state'[t] # "queued"
<1> SUFFICES ASSUME TypeOK, TaskInv, [Next]_vars, NEW t \in Tasks,
                    state[t] \notin {"absent", "queued"}
             PROVE  state'[t] # "queued"
  OBVIOUS
<1>1. ASSUME NEW c \in Clients, InsertCommit(c) PROVE state'[t] # "queued"
  BY <1>1 DEF InsertCommit, TaskInv, InsertOwnsItsId, TypeOK
<1>2. ASSUME NEW c \in Clients, CancelCommit(c) PROVE state'[t] # "queued"
  BY <1>2 DEF CancelCommit, CancelTarget, TypeOK
<1>3. ASSUME NEW p \in Procs, NEW u \in Tasks, Claim(p, u) PROVE state'[t] # "queued"
  BY <1>3 DEF Claim, TypeOK
<1>4. ASSUME NEW p \in Procs, Finish(p) PROVE state'[t] # "queued"
  BY <1>4 DEF Finish, EndState, Ending, TypeOK
<1>5. ASSUME NEW p \in Procs, Start(p) PROVE state'[t] # "queued"
  BY <1>5 DEF Start, RecoveredState
<1>6. CASE UNCHANGED state
  BY <1>6
<1> QED
  BY <1>1, <1>2, <1>3, <1>4, <1>5, <1>6
     DEF Next, CancelRequest, InsertRequest, WorkerStep, HandlerStep, ProcessStep, FlushInsert,
         Submit, Retry, CancelRead, CancelFlush, RequestFails, ClaimNothing, Begin, Report,
         CheckRaises, HandlerReturns, HandlerRaises, IterationFails, HandlerErrorEscapes, EndWait,
         Notified, PollTimeout, Crash, Shutdown, WorkerStops, vars, rowVars

\* A task that left the queue never enters it again, crashes included.
THEOREM NeverRequeuedHolds == Spec => NeverRequeued
  BY TypeCorrect, Invariance, NeverRequeuedStep, PTL DEF Spec, NeverRequeued

-----------------------------------------------------------------------------
\* With one process, nobody but its worker ends a task that is being executed:
\* recovery runs while the only worker is down, cancels never write success or
\* failure.
LEMMA EndedByItsWorkerStep ==
  ASSUME \A p, q \in Procs : p = q, TypeOK, TaskInv, [Next]_vars,
         NEW p \in Procs, Doing(p) # NoTask,
         state'[Doing(p)] # state[Doing(p)], state'[Doing(p)] \in {"succeeded", "failed"}
  PROVE  Doing(p)' # Doing(p)
<1> DEFINE t == Doing(p)
<1>t. t \in Tasks /\ worker[p].pc \in Busy
  BY BusyWorker DEF Doing
<1>1. ASSUME NEW c \in Clients, InsertCommit(c) PROVE FALSE
  BY <1>1, <1>t DEF InsertCommit, TypeOK
<1>2. ASSUME NEW c \in Clients, CancelCommit(c) PROVE FALSE
  BY <1>2, <1>t DEF CancelCommit, CancelTarget, TypeOK
<1>3. ASSUME NEW q \in Procs, NEW u \in Tasks, Claim(q, u) PROVE FALSE
  BY <1>3, <1>t DEF Claim, TypeOK
<1>4. ASSUME NEW q \in Procs, Finish(q) PROVE Doing(p)' # Doing(p)
  BY <1>4, <1>t DEF Finish, Doing, IdleWorker, TypeOK
<1>5. ASSUME NEW q \in Procs, Start(q) PROVE FALSE
  <2>1. worker[p].pc = "down"
    BY <1>5 DEF Start
  <2> QED BY <2>1, <1>t DEF Busy, Ending
<1>6. CASE UNCHANGED state
  BY <1>6
<1> QED
  BY <1>1, <1>2, <1>3, <1>4, <1>5, <1>6
     DEF Next, CancelRequest, InsertRequest, WorkerStep, HandlerStep, ProcessStep, FlushInsert,
         Submit, Retry, CancelRead, CancelFlush, RequestFails, ClaimNothing, Begin, Report,
         CheckRaises, HandlerReturns, HandlerRaises, IterationFails, HandlerErrorEscapes, EndWait,
         Notified, PollTimeout, Crash, Shutdown, WorkerStops, vars, rowVars

\* With one process a task being executed is ended by the worker executing it.
THEOREM EndedByItsWorkerHolds ==
  ASSUME \A p, q \in Procs : p = q
  PROVE  Spec => EndedByItsWorker
<1>1. TypeOK /\ TaskInv /\ [Next]_vars =>
        \A p \in Procs : LET t == Doing(p) IN
          t # NoTask /\ state'[t] # state[t] /\ state'[t] \in {"succeeded", "failed"}
            => Doing(p)' # t
  BY EndedByItsWorkerStep
<1> QED
  BY <1>1, TypeCorrect, Invariance, PTL DEF Spec, EndedByItsWorker

-----------------------------------------------------------------------------
(***************************************************************************)
(* The task table and its workers implement JobQueue.                      *)
(***************************************************************************)
\* Every job is unborn and no worker has one.
LEMMA QueueInit == Init => Queue!Init
  BY DEF Init, Queue!Init, QueuePhase, Doing, IdleWorker

\* A step that leaves the phases and every worker's task alone is a stutter.
LEMMA QueueStutter ==
  ASSUME TypeOK, \A t \in Tasks : QueuePhase'[t] = QueuePhase[t],
         \A p \in Procs : Doing(p)' = Doing(p)
  PROVE  UNCHANGED Queue!queueVars
  BY DEF Queue!queueVars, QueuePhase

\* A worker that lets its task go, or had none, drops it or stutters.
LEMMA QueueDrop ==
  ASSUME TypeOK, NEW p \in Procs, NEW pc \in {"down", "loop", "sleep"},
         worker' = [worker EXCEPT ![p] = IdleWorker(pc)],
         \A t \in Tasks : QueuePhase'[t] = QueuePhase[t]
  PROVE  [Queue!Next]_(Queue!queueVars)
<1>1. QueuePhase' = QueuePhase
  BY DEF QueuePhase
<1>2. [q \in Procs |-> Doing(q)]' = [[q \in Procs |-> Doing(q)] EXCEPT ![p] = NoTask]
  BY DEF Doing, IdleWorker, TypeOK
<1>3. CASE Doing(p) = NoTask
  BY <1>1, <1>2, <1>3 DEF Queue!queueVars
<1>4. CASE Doing(p) # NoTask
  BY <1>1, <1>2, <1>4 DEF Queue!Next, Queue!Drop
<1> QED BY <1>3, <1>4

\* Only InsertCommit, a cancel of a waiting row and Claim change a phase.
LEMMA QueueStep ==
  ASSUME TypeOK, TaskInv, [Next]_vars
  PROVE  [Queue!Next]_(Queue!queueVars)
<1> USE DEF rowVars
<1>1. ASSUME NEW c \in Clients, InsertCommit(c) PROVE Queue!Next
  <2> DEFINE i == req[c].task
  <2>1. i \in Tasks /\ state[i] = "absent" /\ ~startedAt[i]
    BY <1>1 DEF InsertCommit, TaskInv, InsertOwnsItsId, CleanUntilTaken
  <2>2. QueuePhase[i] = "unborn"
    BY <2>1 DEF QueuePhase
  <2>3. QueuePhase' = [QueuePhase EXCEPT ![i] = "pending"]
    BY <1>1, <2>1 DEF InsertCommit, QueuePhase, TypeOK
  <2>4. UNCHANGED [p \in Procs |-> Doing(p)]
    BY <1>1 DEF InsertCommit, Doing
  <2> QED BY <2>1, <2>2, <2>3, <2>4 DEF Queue!Next, Queue!Accept
<1>2. ASSUME NEW c \in Clients, CancelCommit(c) PROVE [Queue!Next]_(Queue!queueVars)
  <2> DEFINE i == req[c].task
  <2>1. /\ i \in Tasks /\ state[i] # "absent"
        /\ state' = [state EXCEPT ![i] = CancelTarget(req[c].seen)]
        /\ CancelTarget(req[c].seen) \in {"cancelled", "cancelling"}
        /\ UNCHANGED <<startedAt, worker>>
    BY <1>2 DEF CancelCommit, TaskInv, CancelsCommittedRow, CancelTarget
  <2>2. CASE state[i] = "queued"
    <3>1. ~startedAt[i]
      BY <2>1, <2>2 DEF TaskInv, CleanUntilTaken
    <3>2. QueuePhase[i] = "pending"
      BY <2>1, <2>2, <3>1 DEF QueuePhase
    <3>3. QueuePhase' = [QueuePhase EXCEPT ![i] = "withdrawn"]
      BY <2>1, <3>1 DEF QueuePhase, TypeOK
    <3>4. UNCHANGED [p \in Procs |-> Doing(p)]
      BY <2>1 DEF Doing
    <3> QED BY <2>1, <3>2, <3>3, <3>4 DEF Queue!Next, Queue!Withdraw
  <2>3. CASE state[i] # "queued"
    <3>1. \A t \in Tasks : QueuePhase'[t] = QueuePhase[t]
      BY <2>1, <2>3 DEF QueuePhase, TypeOK
    <3> QED BY <2>1, <3>1, QueueStutter DEF Doing
  <2> QED BY <2>2, <2>3
<1>3. ASSUME NEW p \in Procs, NEW t \in Tasks, Claim(p, t) PROVE Queue!Next
  <2>1. state[t] = "queued" /\ ~startedAt[t]
    BY <1>3 DEF Claim, Claimable, TaskInv, CleanUntilTaken
  <2>2. QueuePhase[t] = "pending" /\ Doing(p) = NoTask
    BY <1>3, <2>1, BusyWorker DEF QueuePhase, Claim, Busy, Ending
  <2>3. QueuePhase' = [QueuePhase EXCEPT ![t] = "taken"]
    BY <1>3, <2>1 DEF Claim, QueuePhase, TypeOK
  <2>4. [q \in Procs |-> Doing(q)]' = [[q \in Procs |-> Doing(q)] EXCEPT ![p] = t]
    BY <1>3 DEF Claim, Doing, TypeOK
  <2> QED BY <2>2, <2>3, <2>4 DEF Queue!Next, Queue!Take
<1>4. ASSUME NEW p \in Procs, Finish(p) PROVE [Queue!Next]_(Queue!queueVars)
  <2>1. Doing(p) \in Tasks /\ startedAt[Doing(p)]
    BY <1>4, BusyWorker DEF Finish, Busy, Doing, TaskInv, WorkerStartedItsTask
  <2>2. \A t \in Tasks : QueuePhase'[t] = QueuePhase[t]
    BY <1>4, <2>1 DEF Finish, QueuePhase, TypeOK
  <2> QED BY <1>4, <2>2, QueueDrop DEF Finish
<1>5. ASSUME NEW p \in Procs, Start(p) PROVE [Queue!Next]_(Queue!queueVars)
  <2>1. \A t \in Tasks : QueuePhase'[t] = QueuePhase[t]
    BY <1>5 DEF Start, Interrupted, RecoveredState, QueuePhase, TypeOK
  <2> QED BY <1>5, <2>1, QueueDrop DEF Start
<1>6. ASSUME NEW p \in Procs,
             \/ ClaimNothing(p) \/ IterationFails(p) \/ HandlerErrorEscapes(p)
             \/ EndWait(p) \/ Crash(p) \/ WorkerStops(p)
      PROVE  [Queue!Next]_(Queue!queueVars)
  <2>1. UNCHANGED rowVars
    BY <1>6 DEF ClaimNothing, IterationFails, HandlerErrorEscapes, EndWait, Crash, WorkerStops
  <2>2. \A t \in Tasks : QueuePhase'[t] = QueuePhase[t]
    BY <2>1 DEF QueuePhase
  <2> QED
    BY <1>6, <2>2, QueueDrop
       DEF ClaimNothing, IterationFails, HandlerErrorEscapes, EndWait, Crash, WorkerStops
<1>7. ASSUME UNCHANGED <<state, startedAt>>, \A p \in Procs : Doing(p)' = Doing(p)
      PROVE  [Queue!Next]_(Queue!queueVars)
  <2>1. \A t \in Tasks : QueuePhase'[t] = QueuePhase[t]
    BY <1>7 DEF QueuePhase
  <2> QED BY <1>7, <2>1, QueueStutter
<1>8. ASSUME NEW p \in Procs, Begin(p) \/ HandlerStep(p) PROVE [Queue!Next]_(Queue!queueVars)
  <2>1. UNCHANGED <<state, startedAt>> /\ \E pc \in Busy : worker' = Refreshed(p, pc)
    BY <1>8 DEF Begin, HandlerStep, Report, CheckRaises, HandlerReturns, HandlerRaises, Busy, Ending
  <2>2. \A q \in Procs : Doing(q)' = Doing(q)
    BY <2>1 DEF Refreshed, Doing, TypeOK
  <2> QED BY <1>7, <2>1, <2>2
<1>9. ASSUME UNCHANGED <<state, startedAt, worker>> PROVE [Queue!Next]_(Queue!queueVars)
  BY <1>7, <1>9 DEF Doing
<1> QED
  BY <1>1, <1>2, <1>3, <1>4, <1>5, <1>6, <1>8, <1>9
     DEF Next, CancelRequest, InsertRequest, WorkerStep, ProcessStep, FlushInsert, Submit, Retry,
         CancelRead, CancelFlush, RequestFails, Notified, PollTimeout, Shutdown, vars

\* Every accepted task is taken at most once, by one worker, and a withdrawn
\* one never.
THEOREM ImplementsJobQueue == Spec => QueueSpec
<1>1. TypeOK /\ TaskInv /\ [Next]_vars => [Queue!Next]_(Queue!queueVars)
  BY QueueStep
<1> QED
  BY <1>1, QueueInit, TypeCorrect, Invariance, PTL DEF Spec, QueueSpec, Queue!Spec
=============================================================================
