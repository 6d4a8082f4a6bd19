----------------------------- MODULE TaskSystem -----------------------------
(***************************************************************************)
(* The background-task system of the backend: the rows of the task table,  *)
(* the HTTP requests that submit, cancel and retry tasks, each in a        *)
(* database session of its own, and the worker loop of every backend       *)
(* process with its startup recovery and its graceful shutdown.            *)
(*                                                                         *)
(* A step is what happens between two awaits: a request reads the row in   *)
(* one step and its UPDATE commits in a later one, and other sessions run  *)
(* in between.  PostgreSQL runs at READ COMMITTED: a read sees the last    *)
(* committed row and takes no lock; an UPDATE locks the row until its      *)
(* transaction ends.  The ORM writes only the columns whose value changed. *)
(***************************************************************************)
EXTENDS Naturals, FiniteSets

CONSTANTS
  Procs,      \* backend processes (the deployment has one)
  Clients,    \* concurrent HTTP requests
  MaxTasks,   \* bound: task rows ever inserted
  MaxStarts,  \* bound: process starts, the first ones included
  MaxFaults   \* bound: statements of the database that fail

ASSUME BoundsAssumption ==
  /\ Procs # {}
  /\ MaxTasks \in Nat \ {0}
  /\ MaxStarts \in Nat
  /\ MaxFaults \in Nat

NoTask == 0

\* Task ids in insertion order: the order of (created_at, id).
Tasks == 1 .. MaxTasks

States == {"queued", "running", "succeeded", "failed", "cancelling", "cancelled"}

TerminalStates == {"succeeded", "failed", "cancelled"}

Retryable == {"failed", "cancelled"}

MutantInterrupted == {"running"}

\* What the startup recovery looks for, and what it makes of it.
Interrupted == {"running", "cancelling"}

RecoveredState == "failed"

VARIABLES
  \* columns of the task table; "absent" is a row that was not committed
  state, cancelRequested, startedAt, result, retryOf,
  nextId,   \* ids handed out by flushed INSERTs, committed or not, plus one
  req,      \* req[c]: the request client c has in flight
  worker,   \* worker[p]: where the worker loop of process p is
  wake,     \* wake[p]: the asyncio event _wake
  stop,     \* stop[p]: the asyncio event worker_stop
  starts, faults

rowVars == <<state, cancelRequested, startedAt, result, retryOf>>
vars == <<rowVars, nextId, req, worker, wake, stop, starts, faults>>

(***************************************************************************)
(* The legal moves the code asserts before a cancel (TRANSITIONS).         *)
(***************************************************************************)
Follows(s) ==
  CASE s = "queued"     -> {"running", "cancelled"}
    [] s = "running"    -> {"succeeded", "failed", "cancelling"}
    [] s = "cancelling" -> {"cancelled", "failed", "succeeded"}
    [] OTHER            -> {}

(***************************************************************************)
(* Requests.  "insert": the row of `task` is flushed, not committed.       *)
(* "cancelRead": request_cancel has read `seen` and not written yet.       *)
(* "cancelFlushed": its UPDATE is flushed and holds the row lock.          *)
(***************************************************************************)
IdleReq == [pc |-> "idle", task |-> NoTask, seen |-> "absent", proc |-> CHOOSE p \in Procs : TRUE]

Reqs == [pc : {"idle", "insert", "cancelRead", "cancelFlushed"},
         task : Tasks \cup {NoTask}, seen : States \cup {"absent"}, proc : Procs]

IdleWorker(pc) == [pc |-> pc, task |-> NoTask, seen |-> "absent"]

\* Between claiming a task and the last commit of run_once.
Ending == {"finishing", "failing", "cancelled"}
Busy == {"claimed", "handling"} \cup Ending

Workers ==
  {IdleWorker(pc) : pc \in {"down", "loop", "sleep"}}
    \cup [pc : Busy, task : Tasks, seen : States \cup {"absent"}]

\* A row an open transaction has updated: other UPDATEs wait for it, and a
\* claim with SKIP LOCKED passes over it.
Locked(t) == \E c \in Clients : req[c].pc = "cancelFlushed" /\ req[c].task = t

\* Process p answers requests: after its startup, until its shutdown begins.
Serving(p) == worker[p].pc # "down" /\ ~stop[p]

TypeOK ==
  /\ state \in [Tasks -> States \cup {"absent"}]
  /\ cancelRequested \in [Tasks -> BOOLEAN]
  /\ startedAt \in [Tasks -> BOOLEAN]
  /\ result \in [Tasks -> BOOLEAN]
  /\ retryOf \in [Tasks -> Tasks \cup {NoTask}]
  /\ nextId \in 1 .. MaxTasks + 1
  /\ req \in [Clients -> Reqs]
  /\ worker \in [Procs -> Workers]
  /\ wake \in [Procs -> BOOLEAN]
  /\ stop \in [Procs -> BOOLEAN]
  /\ starts \in Nat
  /\ faults \in Nat

Init ==
  /\ state = [t \in Tasks |-> "absent"]
  /\ cancelRequested = [t \in Tasks |-> FALSE]
  /\ startedAt = [t \in Tasks |-> FALSE]
  /\ result = [t \in Tasks |-> FALSE]
  /\ retryOf = [t \in Tasks |-> NoTask]
  /\ nextId = 1
  /\ req = [c \in Clients |-> IdleReq]
  /\ worker = [p \in Procs |-> IdleWorker("down")]
  /\ wake = [p \in Procs |-> FALSE]
  /\ stop = [p \in Procs |-> FALSE]
  /\ starts = 0
  /\ faults = 0

-----------------------------------------------------------------------------
(***************************************************************************)
(* HTTP requests                                                           *)
(***************************************************************************)

\* create_task flushes the INSERT of a row that retries `original` (NoTask: a
\* new submission), and the route calls notify() before the commit.
FlushInsert(c, p, original) ==
  /\ req[c].pc = "idle"
  /\ Serving(p)
  /\ nextId \in Tasks
  /\ retryOf' = [retryOf EXCEPT ![nextId] = original]
  /\ req' = [req EXCEPT ![c] = [pc |-> "insert", task |-> nextId,
                                seen |-> "absent", proc |-> p]]
  /\ nextId' = nextId + 1
  /\ wake' = [wake EXCEPT ![p] = TRUE]
  /\ UNCHANGED <<state, cancelRequested, startedAt, result, worker, stop, starts, faults>>

Submit(c, p) == FlushInsert(c, p, NoTask)

\* The original is read in the same transaction; any other state is a 409.
Retry(c, p, original) ==
  /\ state[original] \in Retryable
  /\ FlushInsert(c, p, original)

\* get_session commits at the end of the request.
InsertCommit(c) ==
  /\ req[c].pc = "insert"
  /\ state' = [state EXCEPT ![req[c].task] = "queued"]
  /\ req' = [req EXCEPT ![c] = IdleReq]
  /\ UNCHANGED <<cancelRequested, startedAt, result, retryOf, nextId, worker,
                 wake, stop, starts, faults>>

\* request_cancel loads the row.  A cancelling row is answered as it is and a
\* terminal one with a 409: neither changes anything.
CancelRead(c, p, t) ==
  /\ req[c].pc = "idle"
  /\ Serving(p)
  /\ state[t] \in {"queued", "running"}
  /\ req' = [req EXCEPT ![c] = [pc |-> "cancelRead", task |-> t,
                                seen |-> state[t], proc |-> p]]
  /\ UNCHANGED <<rowVars, nextId, worker, wake, stop, starts, faults>>

MutantCancelTargetFails(seen) == IF seen = "queued" THEN "cancelled" ELSE "failed"

\* The state the cancel writes is chosen from the row as it was read.
CancelTarget(seen) == IF seen = "queued" THEN "cancelled" ELSE "cancelling"

\* session.flush(): the UPDATE waits for the row lock and takes it.
CancelFlush(c) ==
  /\ req[c].pc = "cancelRead"
  /\ ~Locked(req[c].task)
  /\ CancelTarget(req[c].seen) \in Follows(req[c].seen)
  /\ req' = [req EXCEPT ![c].pc = "cancelFlushed"]
  /\ UNCHANGED <<rowVars, nextId, worker, wake, stop, starts, faults>>

CancelCommit(c) ==
  /\ req[c].pc = "cancelFlushed"
  /\ state' = [state EXCEPT ![req[c].task] = CancelTarget(req[c].seen)]
  /\ cancelRequested' = [cancelRequested EXCEPT ![req[c].task] = TRUE]
  /\ req' = [req EXCEPT ![c] = IdleReq]
  /\ UNCHANGED <<startedAt, result, retryOf, nextId, worker, wake, stop, starts, faults>>

\* A request that fails before its commit is rolled back.
RequestFails(c) ==
  /\ req[c].pc # "idle"
  /\ faults < MaxFaults
  /\ faults' = faults + 1
  /\ req' = [req EXCEPT ![c] = IdleReq]
  /\ UNCHANGED <<rowVars, nextId, worker, wake, stop, starts>>

-----------------------------------------------------------------------------
(***************************************************************************)
(* The worker loop (run_worker, run_once) and the TaskContext handlers use *)
(***************************************************************************)
Doing(p) == worker[p].task

\* The worker moves to `pc`, with the state it reads from its task's row now.
Refreshed(p, pc) == [worker EXCEPT ![p].pc = pc, ![p].seen = state[Doing(p)]]

MutantClaimableRunning == {t \in Tasks : state[t] \in {"queued", "running"} /\ ~Locked(t)}

MutantClaimableCancelled == {t \in Tasks : state[t] \in {"queued", "cancelled"} /\ ~Locked(t)}

Claimable == {t \in Tasks : state[t] = "queued" /\ ~Locked(t)}

\* _claim: SELECT ... FOR UPDATE SKIP LOCKED, UPDATE and commit.
Claim(p, t) ==
  /\ worker[p].pc = "loop"
  /\ ~stop[p]
  /\ t \in Claimable
  /\ \A u \in Claimable : t <= u
  /\ state' = [state EXCEPT ![t] = "running"]
  /\ startedAt' = [startedAt EXCEPT ![t] = TRUE]
  /\ worker' = [worker EXCEPT ![p] = [pc |-> "claimed", task |-> t, seen |-> "running"]]
  /\ UNCHANGED <<cancelRequested, result, retryOf, nextId, req, wake, stop, starts, faults>>

MutantClaimNothing(p) ==
  /\ worker[p].pc = "loop"
  /\ Claimable = {}
  /\ worker' = [worker EXCEPT ![p] = IdleWorker("sleep")]
  /\ UNCHANGED <<rowVars, nextId, req, wake, stop, starts, faults>>

\* Nothing to claim: run_once returns False and the loop waits for _wake.
ClaimNothing(p) ==
  /\ worker[p].pc = "loop"
  /\ ~stop[p]
  /\ Claimable = {}
  /\ worker' = [worker EXCEPT ![p] = IdleWorker("sleep")]
  /\ UNCHANGED <<rowVars, nextId, req, wake, stop, starts, faults>>

\* _claim ends by refreshing the task; then the handler runs.
Begin(p) ==
  /\ worker[p].pc = "claimed"
  /\ worker' = Refreshed(p, "handling")
  /\ UNCHANGED <<rowVars, nextId, req, wake, stop, starts, faults>>

MutantReport(p) ==
  /\ worker[p].pc = "handling"
  /\ ~Locked(Doing(p))
  /\ state' = [state EXCEPT ![Doing(p)] = worker[p].seen]
  /\ worker' = [worker EXCEPT ![p].pc = "handling"]
  /\ UNCHANGED <<cancelRequested, startedAt, result, retryOf, nextId, req, wake, stop, starts, faults>>

\* TaskContext.report commits progress, stage and logs - not the state, whose
\* attribute did not change - and refreshes the task.
Report(p) ==
  /\ worker[p].pc = "handling"
  /\ ~Locked(Doing(p))
  /\ worker' = Refreshed(p, "handling")
  /\ UNCHANGED <<rowVars, nextId, req, wake, stop, starts, faults>>

\* TaskContext.check_cancelled raises: run_once refreshes the task.
CheckRaises(p) ==
  /\ worker[p].pc = "handling"
  /\ cancelRequested[Doing(p)]
  /\ worker' = Refreshed(p, "cancelled")
  /\ UNCHANGED <<rowVars, nextId, req, wake, stop, starts, faults>>

\* The handler returns its result; run_once refreshes the state.
HandlerReturns(p) ==
  /\ worker[p].pc = "handling"
  /\ worker' = Refreshed(p, "finishing")
  /\ UNCHANGED <<rowVars, nextId, req, wake, stop, starts, faults>>

\* The handler raises, or there is none for the kind: _mark_failed rolls back
\* and refreshes the task.
HandlerRaises(p) ==
  /\ worker[p].pc = "handling"
  /\ worker' = Refreshed(p, "failing")
  /\ UNCHANGED <<rowVars, nextId, req, wake, stop, starts, faults>>

EndState(pc) == CASE pc = "finishing" -> "succeeded"
                  [] pc = "failing"   -> "failed"
                  [] pc = "cancelled" -> "cancelled"

MutantFinish(p) ==
  /\ worker[p].pc \in Ending
  /\ ~Locked(Doing(p))
  /\ EndState(worker[p].pc) \in Follows(state[Doing(p)])
  /\ state' = [state EXCEPT ![Doing(p)] = EndState(worker[p].pc)]
  /\ result' = IF worker[p].pc = "finishing"
               THEN [result EXCEPT ![Doing(p)] = TRUE] ELSE result
  /\ worker' = [worker EXCEPT ![p] = IdleWorker("loop")]
  /\ UNCHANGED <<cancelRequested, startedAt, retryOf, nextId, req, wake, stop, starts, faults>>

\* The last commit of run_once.  A state equal to the one the refresh read is
\* not part of the UPDATE.
Finish(p) ==
  /\ worker[p].pc \in Ending
  /\ ~Locked(Doing(p))
  /\ LET end == EndState(worker[p].pc) IN
       state' = IF worker[p].seen = end THEN state
                ELSE [state EXCEPT ![Doing(p)] = end]
  /\ result' = IF worker[p].pc = "finishing"
               THEN [result EXCEPT ![Doing(p)] = TRUE] ELSE result
  /\ worker' = [worker EXCEPT ![p] = IdleWorker("loop")]
  /\ UNCHANGED <<cancelRequested, startedAt, retryOf, nextId, req, wake, stop, starts, faults>>

\* A statement of run_once outside the handler fails: the exception reaches
\* run_worker, which logs it and goes on; the session is closed.
IterationFails(p) ==
  /\ worker[p].pc \in {"claimed"} \cup Ending
  /\ faults < MaxFaults
  /\ faults' = faults + 1
  /\ worker' = [worker EXCEPT ![p] = IdleWorker("sleep")]
  /\ UNCHANGED <<rowVars, nextId, req, wake, stop, starts>>

\* The handler raises after its session was rolled back: by a failed flush or
\* commit, or by the handler itself.  The rollback expired the row's columns,
\* run_once reads task.id for its log message, and what that raises leaves
\* run_once before _mark_failed: the row stays as it is.
HandlerErrorEscapes(p) ==
  /\ worker[p].pc = "handling"
  /\ worker' = [worker EXCEPT ![p] = IdleWorker("sleep")]
  /\ UNCHANGED <<rowVars, nextId, req, wake, stop, starts, faults>>

\* wait_for(_wake.wait(), poll_seconds) ends by the event or by the timeout,
\* and the loop clears the event.
EndWait(p) ==
  /\ worker[p].pc = "sleep"
  /\ worker' = [worker EXCEPT ![p] = IdleWorker("loop")]
  /\ wake' = [wake EXCEPT ![p] = FALSE]
  /\ UNCHANGED <<rowVars, nextId, req, stop, starts, faults>>

Notified(p) == wake[p] /\ EndWait(p)

MutantPollTimeout(p) == FALSE /\ EndWait(p)

PollTimeout(p) == ~wake[p] /\ EndWait(p)

-----------------------------------------------------------------------------
(***************************************************************************)
(* Process lifecycle (lifespan)                                            *)
(***************************************************************************)

\* recover_interrupted: one UPDATE fails every row that was mid-flight; it
\* waits for rows other sessions have locked.  Then the loop starts.
Start(p) ==
  /\ worker[p].pc = "down"
  /\ starts < MaxStarts
  /\ \A t \in Tasks : state[t] \in Interrupted => ~Locked(t)
  /\ state' = [t \in Tasks |-> IF state[t] \in Interrupted THEN RecoveredState ELSE state[t]]
  /\ worker' = [worker EXCEPT ![p] = IdleWorker("loop")]
  /\ starts' = starts + 1
  /\ UNCHANGED <<cancelRequested, startedAt, result, retryOf, nextId, req, wake, stop, faults>>

\* The process and its open transactions die.  It is only allowed to while a
\* start is left (MaxStarts).
Crash(p) ==
  /\ worker[p].pc # "down"
  /\ starts < MaxStarts
  /\ worker' = [worker EXCEPT ![p] = IdleWorker("down")]
  /\ req' = [c \in Clients |-> IF req[c].proc = p THEN IdleReq ELSE req[c]]
  /\ wake' = [wake EXCEPT ![p] = FALSE]
  /\ stop' = [stop EXCEPT ![p] = FALSE]
  /\ UNCHANGED <<rowVars, nextId, starts, faults>>

\* The server has drained its requests; lifespan sets the stop event and
\* wakes the worker, then awaits it.
Shutdown(p) ==
  /\ Serving(p)
  /\ starts < MaxStarts
  /\ \A c \in Clients : req[c].pc # "idle" => req[c].proc # p
  /\ stop' = [stop EXCEPT ![p] = TRUE]
  /\ wake' = [wake EXCEPT ![p] = TRUE]
  /\ UNCHANGED <<rowVars, nextId, req, worker, starts, faults>>

\* The loop sees the stop event: the process exits.
WorkerStops(p) ==
  /\ worker[p].pc = "loop"
  /\ stop[p]
  /\ worker' = [worker EXCEPT ![p] = IdleWorker("down")]
  /\ stop' = [stop EXCEPT ![p] = FALSE]
  /\ wake' = [wake EXCEPT ![p] = FALSE]
  /\ UNCHANGED <<rowVars, nextId, req, starts, faults>>

-----------------------------------------------------------------------------
CancelRequest(c) ==
  \/ \E p \in Procs, t \in Tasks : CancelRead(c, p, t)
  \/ CancelFlush(c)
  \/ CancelCommit(c)

InsertRequest(c) ==
  \/ \E p \in Procs : Submit(c, p)
  \/ \E p \in Procs, t \in Tasks : Retry(c, p, t)
  \/ InsertCommit(c)

HandlerStep(p) == Report(p) \/ CheckRaises(p) \/ HandlerReturns(p) \/ HandlerRaises(p)

WorkerStep(p) ==
  \/ \E t \in Tasks : Claim(p, t)
  \/ ClaimNothing(p)
  \/ Begin(p)
  \/ HandlerStep(p)
  \/ Finish(p)
  \/ IterationFails(p)
  \/ HandlerErrorEscapes(p)
  \/ Notified(p)
  \/ PollTimeout(p)

ProcessStep(p) == Start(p) \/ Crash(p) \/ Shutdown(p) \/ WorkerStops(p)

Next ==
  \/ \E c \in Clients : CancelRequest(c) \/ InsertRequest(c) \/ RequestFails(c)
  \/ \E p \in Procs : WorkerStep(p) \/ ProcessStep(p)

Spec == Init /\ [][Next]_vars

(***************************************************************************)
(* Fairness: PostgreSQL answers, so an open request goes on; the event     *)
(* loop runs the worker; every handler returns or raises; whoever operates *)
(* the backend starts it again after it went down.  The poll timeout is    *)
(* fair by itself: nothing promises that the event is ever set.            *)
(***************************************************************************)
Fairness ==
  /\ \A c \in Clients : WF_vars(CancelFlush(c) \/ CancelCommit(c) \/ InsertCommit(c))
  /\ \A p \in Procs :
       /\ WF_vars(\/ \E t \in Tasks : Claim(p, t)
                  \/ ClaimNothing(p) \/ Begin(p) \/ Finish(p) \/ WorkerStops(p))
       /\ WF_vars(HandlerReturns(p) \/ HandlerRaises(p) \/ HandlerErrorEscapes(p))
       /\ WF_vars(Notified(p))
       /\ WF_vars(PollTimeout(p))
       /\ WF_vars(Start(p))

FairSpec == Spec /\ Fairness

-----------------------------------------------------------------------------
(***************************************************************************)
(* Properties                                                              *)
(***************************************************************************)

\* Two workers never execute the same task: what FOR UPDATE SKIP LOCKED and
\* the commit of `running` inside the claim are for.
ExclusiveExecution ==
  \A p, q \in Procs : Doing(p) # NoTask /\ Doing(p) = Doing(q) => p = q

\* A task whose cancellation was accepted is neither waiting nor reported as
\* running: neither the claim nor the commits the handler makes through its own
\* copy of the row bring back a state from before the cancel.
CancelSticks ==
  \A t \in Tasks : cancelRequested[t] => state[t] \notin {"absent", "queued", "running"}

\* A task shown as succeeded was claimed and carries the result its handler
\* returned, whatever cancels, failures and restarts it met.
SuccessHasResult ==
  \A t \in Tasks : state[t] = "succeeded" => startedAt[t] /\ result[t]

\* No step makes a task wait again once it left the queue: with
\* ExclusiveExecution, a handler runs at most once per task, crashes included.
NeverRequeued ==
  [][\A t \in Tasks : state[t] \notin {"absent", "queued"} => state'[t] # "queued"]_vars

\* As long as a worker executes a task nobody else ends it with success or
\* failure; the startup recovery only fails work that nobody does any more.
EndedByItsWorker ==
  [][\A p \in Procs : LET t == Doing(p) IN
       t # NoTask /\ state'[t] # state[t] /\ state'[t] \in {"succeeded", "failed"}
         => Doing(p)' # t]_vars

\* A retry copies a task that left the queue and never one that is still
\* waiting, so a lineage of retries has one waiting task per retry asked for.
RetryOfAttempted ==
  \A t \in Tasks : retryOf[t] # NoTask =>
    /\ retryOf[t] < t
    /\ state[retryOf[t]] \notin {"absent", "queued"}

\* The table and its workers are an at-most-once job queue.
QueuePhase ==
  [t \in Tasks |-> CASE startedAt[t] -> "taken"
                     [] ~startedAt[t] /\ state[t] = "absent" -> "unborn"
                     [] ~startedAt[t] /\ state[t] = "queued" -> "pending"
                     [] OTHER -> "withdrawn"]

Queue == INSTANCE JobQueue WITH
  Jobs <- Tasks, Workers <- Procs, NoJob <- NoTask,
  phase <- QueuePhase, doing <- [p \in Procs |-> Doing(p)]

QueueSpec == Queue!Spec

\* A queued task is claimed or cancelled in the end, although notify() runs
\* before the commit of the row and the worker may then find nothing and sleep.
QueuedIsTaken ==
  \A t \in Tasks : state[t] = "queued" ~> state[t] # "queued"

\* Work that was mid-flight when its process died does not stay so: a later
\* start fails it.
InterruptedIsEnded ==
  \A t \in Tasks :
    (state[t] \in {"running", "cancelling"} /\ \A p \in Procs : worker[p].pc = "down")
      ~> state[t] \in TerminalStates

\* A worker is done with every task it claims: no lock and no failing
\* statement holds it for good.
WorkerIsFreed ==
  \A p \in Procs : worker[p].pc \in Busy ~> worker[p].pc \notin Busy

\* A graceful shutdown ends: the loop sees the stop event although the event
\* that wakes it may have been cleared.
ShutdownEnds ==
  \A p \in Procs : stop[p] ~> worker[p].pc = "down"

(***************************************************************************)
(* What makes the safety properties inductive: a row nobody has started or *)
(* cancelled is clean, every id belongs to one INSERT and one transaction, *)
(* a cancel works on a committed row, and a worker on a row it started.    *)
(***************************************************************************)
CleanUntilTaken ==
  \A t \in Tasks : state[t] \in {"absent", "queued"} =>
    ~cancelRequested[t] /\ ~startedAt[t]

IdsAreFresh ==
  \A t \in Tasks : t >= nextId => state[t] = "absent"

InsertOwnsItsId ==
  \A c \in Clients : req[c].pc = "insert" =>
    /\ req[c].task \in Tasks
    /\ req[c].task < nextId
    /\ state[req[c].task] = "absent"
    /\ \A d \in Clients : req[d].pc = "insert" /\ req[d].task = req[c].task => d = c

CancelsCommittedRow ==
  \A c \in Clients : req[c].pc \in {"cancelRead", "cancelFlushed"} =>
    req[c].task \in Tasks /\ state[req[c].task] # "absent"

WorkerStartedItsTask ==
  \A p \in Procs : Doing(p) # NoTask => startedAt[Doing(p)]

TaskInv ==
  /\ CleanUntilTaken
  /\ IdsAreFresh
  /\ InsertOwnsItsId
  /\ CancelsCommittedRow
  /\ WorkerStartedItsTask
  /\ ExclusiveExecution
  /\ CancelSticks
  /\ SuccessHasResult
  /\ RetryOfAttempted

\* "A terminal state is final", as the lifecycle module and the tests state it
\* (task_lifecycle.py:3-5, tests/test_tasks.py:151-152).  The code does not
\* keep it: request_cancel decides on a state that is stale when it writes.
TerminalIsFinal ==
  [][\A t \in Tasks : state[t] \in TerminalStates => state'[t] = state[t]]_vars
=============================================================================
