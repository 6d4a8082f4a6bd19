------------------------------ MODULE JobQueue ------------------------------
(***************************************************************************)
(* What the task table and its workers promise together, whatever happens  *)
(* between them: a job that was accepted is taken by at most one worker,   *)
(* at most once in its life, and a job withdrawn before it was taken is    *)
(* never taken.  Nothing is promised about how a taken job ends: that is   *)
(* the lifecycle of TaskSystem, which implements this module.              *)
(***************************************************************************)
CONSTANTS Jobs, Workers, NoJob

VARIABLES
  phase,  \* phase[j]: has the job been accepted, withdrawn, taken?
  doing   \* doing[w]: the job worker w is executing, or NoJob

queueVars == <<phase, doing>>

Phases == {"unborn", "pending", "withdrawn", "taken"}

Init ==
  /\ phase = [j \in Jobs |-> "unborn"]
  /\ doing = [w \in Workers |-> NoJob]

\* A job enters the queue.
Accept(j) ==
  /\ phase[j] = "unborn"
  /\ phase' = [phase EXCEPT ![j] = "pending"]
  /\ UNCHANGED doing

\* A pending job is cancelled before any worker saw it.
Withdraw(j) ==
  /\ phase[j] = "pending"
  /\ phase' = [phase EXCEPT ![j] = "withdrawn"]
  /\ UNCHANGED doing

\* An idle worker takes a pending job.
Take(w, j) ==
  /\ doing[w] = NoJob
  /\ phase[j] = "pending"
  /\ phase' = [phase EXCEPT ![j] = "taken"]
  /\ doing' = [doing EXCEPT ![w] = j]

\* A worker is done with its job, or died with it: the job is not requeued.
Drop(w) ==
  /\ doing[w] # NoJob
  /\ doing' = [doing EXCEPT ![w] = NoJob]
  /\ UNCHANGED phase

Next ==
  \/ \E j \in Jobs : Accept(j) \/ Withdraw(j)
  \/ \E w \in Workers, j \in Jobs : Take(w, j)
  \/ \E w \in Workers : Drop(w)

Spec == Init /\ [][Next]_queueVars
=============================================================================
