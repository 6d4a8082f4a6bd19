---------------------------- MODULE ParseWorker ----------------------------
(***************************************************************************)
(* Reading a file off the main thread: the effect of ImportPreview that    *)
(* starts a read, useParseWorker's calls, the worker that may answer,      *)
(* report an error or die without a word, the watchdog of each call.       *)
(*                                                                         *)
(* A call is [live, at, good]: whether the effect run that made it is      *)
(* still the current one, how far it is, whether the text parses.  Calls   *)
(* nobody listens to differ in nothing but these.                          *)
(***************************************************************************)
EXTENDS Naturals, FiniteSets

VARIABLES
  worker,   \* workerRef: "unmade", "up", "null" (parse inline); "dead" is up, for all the hook knows
  calls,
  parsed,   \* the parse result is in the preview's state
  failed    \* its parseFailure

workerVars == <<worker, calls, parsed, failed>>

WorkerInit == worker = "unmade" /\ calls = {} /\ parsed = FALSE /\ failed = FALSE

\* A preview that mounts has a hook of its own; one that unmounts terminates
\* its worker, and what its calls still do reaches nothing.
Unmounted == worker' = "unmade" /\ calls' = {} /\ parsed' = FALSE /\ failed' = FALSE

Cancelled == {[c EXCEPT !.live = FALSE] : c \in calls}

\* The effect: `read` when there are limits and the file fits them.
EffectRuns(read, good) ==
  /\ calls' = Cancelled \cup (IF read THEN {[live |-> TRUE, at |-> "text", good |-> good]} ELSE {})
  /\ UNCHANGED <<worker, parsed, failed>>

\* The promises of S settle; only the current run's reaches the state.
Settled(S, legible) ==
  /\ parsed' = (parsed \/ \E c \in S : c.live /\ c.good /\ legible)
  /\ failed' = (failed \/ \E c \in S : c.live /\ ~(c.good /\ legible))

\* file.text() fulfils: the call goes to the worker, made on the first call,
\* or is parsed inline when none can be made.
TextRead(c) ==
  /\ c.at = "text"
  /\ worker' \in IF worker = "unmade" THEN {"up", "null"} ELSE {worker}
  /\ calls' = (calls \ {c}) \cup {[c EXCEPT !.at = IF worker' = "null" THEN "inline" ELSE "worker"]}
  /\ UNCHANGED <<parsed, failed>>

\* The file changed or went away since it was chosen.
TextFails(c) ==
  /\ c.at = "text" /\ Settled({c}, FALSE)
  /\ calls' = calls \ {c} /\ UNCHANGED worker

ParsedInline(c) ==
  /\ c.at = "inline" /\ Settled({c}, TRUE)
  /\ calls' = calls \ {c} /\ UNCHANGED worker

WorkerAnswers(c) ==
  /\ worker = "up" /\ c.at = "worker" /\ Settled({c}, TRUE)
  /\ calls' = calls \ {c} /\ UNCHANGED worker

WorkerDies ==
  /\ worker = "up" /\ worker' = "dead" /\ UNCHANGED <<calls, parsed, failed>>

Posted == {c \in calls : c.at = "worker"}

\* Terminate the worker for good, parse here.
FallBack(S) ==
  /\ S # {} /\ worker' = "null" /\ calls' = calls \ S /\ Settled(S, TRUE)

\* An error or an answer that cannot be delivered: every waiting call hears it.
WorkerErrors == worker = "up" /\ FallBack(Posted)

MutantOverdue(c) == c \in Posted /\ worker = "dead"
\* Half a minute without an answer: the worker may be dead, terminated by
\* another call's fallback, or only slow.
Overdue(c) == c \in Posted
Watchdog(c) == Overdue(c) /\ FallBack({c})

\* What is bound to happen: a read ends, the event loop parses, a timer fires.
WorkerProgress ==
  \E c \in calls : TextRead(c) \/ TextFails(c) \/ ParsedInline(c) \/ Watchdog(c)

\* What the worker does of itself.
WorkerActs == WorkerDies \/ WorkerErrors \/ \E c \in calls : WorkerAnswers(c)
=============================================================================
