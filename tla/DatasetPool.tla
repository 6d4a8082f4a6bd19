----------------------------- MODULE DatasetPool -----------------------------
(***************************************************************************)
(* The LRU pool of raster handles (DatasetPool): requests that check a     *)
(* handle out, read through it and give it back, the threads that open and *)
(* close handles, eviction, the clean-up of cancelled opens, and close_all *)
(* at shutdown.                                                            *)
(*                                                                         *)
(* The pool runs on one event loop: a step is what runs between two awaits *)
(* and the `_guard` lock is held across the awaits inside it.  A handle is *)
(* named after the request that opened it, and stands for its _Entry too.  *)
(* A cancellation is delivered at any await, also while the request deals  *)
(* with an earlier one.  close() never fails: the pool swallows its errors *)
(* and forgets the handle either way.                                      *)
(***************************************************************************)
EXTENDS Naturals, FiniteSets

CONSTANTS
  Keys,        \* paths of raster files
  Requests,    \* acquire() calls; each one runs once
  MaxOpen,     \* max_open
  MaxCancels,  \* bound: cancelled requests
  Sweeper,     \* evict_idle or close_all, as holder of _guard
  None         \* no request, no handle, no key

ASSUME PoolAssumption ==
  /\ IsFiniteSet(Requests)
  /\ Sweeper \notin Requests
  /\ None \notin Requests \cup Keys \cup {Sweeper}
  /\ MaxOpen \in Nat \ {0}
  /\ MaxCancels \in Nat

VARIABLES
  entry,    \* entry[k]: the handle of key k's entry, or None
  older,    \* <<j, k>>: j comes before k in the order of _entries
  inUse,    \* inUse[h]: in_use of the entry of handle h
  handle,   \* handle[h]: what became of the handle request h opens
  guard,    \* holder of _guard
  closes,   \* closes[x]: the key whose entry holder x is closing, or None
  sweep,    \* keys evict_idle or close_all has still to close
  pc, key, got,  \* of each request: where it is, its key, the handle it got
  orphans,  \* handles left to _finish_cancelled_open
  dropped,  \* history: handles whose close was awaited when a cancellation came
  cancels, closed

reqVars == <<pc, key, got>>
poolVars == <<entry, older, inUse, guard, closes, sweep>>
vars == <<poolVars, handle, reqVars, orphans, dropped, cancels, closed>>

Handles == Requests

Holders == Requests \cup {Sweeper}

Pcs == {"idle", "checkout", "opening", "commit", "closeLoser", "evictNew", "lock",
        "reading", "release", "evictOld", "closeOwn", "done"}

\* pc at which the request's claim is counted in in_use.
Claiming == {"closeLoser", "evictNew", "lock", "reading", "release"}

TypeOK ==
  /\ entry \in [Keys -> Handles \cup {None}]
  /\ older \subseteq Keys \X Keys
  /\ inUse \in [Handles -> Nat]
  /\ handle \in [Handles -> {"none", "opening", "open", "closing", "closed"}]
  /\ guard \in Holders \cup {None}
  /\ closes \in [Holders -> Keys \cup {None}]
  /\ sweep \subseteq Keys
  /\ pc \in [Requests -> Pcs]
  /\ key \in [Requests -> Keys \cup {None}]
  /\ got \in [Requests -> Handles \cup {None}]
  /\ orphans \subseteq Handles
  /\ dropped \subseteq Handles
  /\ cancels \in 0 .. MaxCancels
  /\ closed \in BOOLEAN

Init ==
  /\ entry = [k \in Keys |-> None]
  /\ older = {}
  /\ inUse = [h \in Handles |-> 0]
  /\ handle = [h \in Handles |-> "none"]
  /\ guard = None
  /\ closes = [x \in Holders |-> None]
  /\ sweep = {}
  /\ pc = [r \in Requests |-> "idle"]
  /\ key = [r \in Requests |-> None]
  /\ got = [r \in Requests |-> None]
  /\ orphans = {}
  /\ dropped = {}
  /\ cancels = 0
  /\ closed = FALSE

-----------------------------------------------------------------------------
Pooled(e) == {k \in Keys : e[k] # None}

\* Keys of entries nobody has claimed, given _entries and its in_use counts.
Idle(e, use) == {k \in Pooled(e) : use[e[k]] = 0}

\* The first keys of `candidates` in the order of _entries.
Oldest(order, candidates) ==
  {k \in candidates : \A j \in candidates : <<j, k>> \notin order}

MutantVictims(order, e, use) ==
  IF Cardinality(Pooled(e)) <= MaxOpen THEN {} ELSE Oldest(order, Pooled(e))

\* The entry _enforce_capacity closes next: the oldest idle one, none when the
\* pool is within max_open or everything is being read.
Victims(order, e, use) ==
  IF Cardinality(Pooled(e)) <= MaxOpen THEN {} ELSE Oldest(order, Idle(e, use))

Without(order, k) == {pair \in order : pair[1] # k /\ pair[2] # k}

\* k, in the pool or added to it, becomes the most recently used key.
MovedToEnd(k) == Without(older, k) \cup (Pooled(entry) \ {k}) \X {k}

\* Request r, holding the guard, continues _enforce_capacity from the given
\* _entries: it waits at `busy` for the next close or leaves for `rest`.
Enforce(r, order, e, use, busy, rest) ==
  /\ older' = order
  /\ entry' = e
  /\ inUse' = use
  /\ \/ /\ Victims(order, e, use) = {}
        /\ guard' = None
        /\ closes' = [closes EXCEPT ![r] = None]
        /\ pc' = [pc EXCEPT ![r] = rest]
        /\ UNCHANGED handle
     \/ \E k \in Victims(order, e, use) :
          /\ guard' = r
          /\ closes' = [closes EXCEPT ![r] = k]
          /\ pc' = [pc EXCEPT ![r] = busy]
          /\ handle' = [handle EXCEPT ![e[k]] = "closing"]

-----------------------------------------------------------------------------
(***************************************************************************)
(* acquire and _checkout                                                   *)
(***************************************************************************)

\* render_png and band_statistics enter acquire(path).
Begin(r, k) ==
  /\ pc[r] = "idle"
  /\ ~closed
  /\ pc' = [pc EXCEPT ![r] = "checkout"]
  /\ key' = [key EXCEPT ![r] = k]
  /\ UNCHANGED <<poolVars, handle, got, orphans, dropped, cancels, closed>>

\* A hit claims the entry.
CheckoutHit(r) ==
  /\ pc[r] = "checkout"
  /\ guard = None
  /\ entry[key[r]] # None
  /\ inUse' = [inUse EXCEPT ![entry[key[r]]] = @ + 1]
  /\ older' = MovedToEnd(key[r])
  /\ got' = [got EXCEPT ![r] = entry[key[r]]]
  /\ pc' = [pc EXCEPT ![r] = "lock"]
  /\ UNCHANGED <<entry, guard, sweep, handle, key, closes, orphans, dropped, cancels, closed>>

\* A miss leaves the guard and hands the open to a thread of its own.
CheckoutMiss(r) ==
  /\ pc[r] = "checkout"
  /\ guard = None
  /\ entry[key[r]] = None
  /\ handle' = [handle EXCEPT ![r] = "opening"]
  /\ pc' = [pc EXCEPT ![r] = "opening"]
  /\ UNCHANGED <<poolVars, key, got, orphans, dropped, cancels, closed>>

\* The factory succeeds, or raises and leaves nothing open.
ThreadOpens(h) ==
  /\ handle[h] = "opening"
  /\ \E outcome \in {"open", "closed"} : handle' = [handle EXCEPT ![h] = outcome]
  /\ UNCHANGED <<poolVars, reqVars, orphans, dropped, cancels, closed>>

\* The awaited open is over: an error leaves acquire, a handle asks for the
\* guard again.
OpenReturns(r) ==
  /\ pc[r] = "opening"
  /\ handle[r] \in {"open", "closed"}
  /\ pc' = [pc EXCEPT ![r] = IF handle[r] = "open" THEN "commit" ELSE "done"]
  /\ UNCHANGED <<poolVars, handle, key, got, orphans, dropped, cancels, closed>>

\* Another request opened the key meanwhile: claim its entry, close our handle
\* while holding the guard.
CommitLoser(r) ==
  /\ pc[r] = "commit"
  /\ guard = None
  /\ entry[key[r]] # None
  /\ inUse' = [inUse EXCEPT ![entry[key[r]]] = @ + 1]
  /\ older' = MovedToEnd(key[r])
  /\ got' = [got EXCEPT ![r] = entry[key[r]]]
  /\ handle' = [handle EXCEPT ![r] = "closing"]
  /\ guard' = r
  /\ pc' = [pc EXCEPT ![r] = "closeLoser"]
  /\ UNCHANGED <<entry, sweep, key, closes, orphans, dropped, cancels, closed>>

MutantLoserClosed(r) ==
  /\ pc[r] = "closeLoser"
  /\ handle[r] = "closed"
  /\ pc' = [pc EXCEPT ![r] = "lock"]
  /\ UNCHANGED <<poolVars, handle, key, got, orphans, dropped, cancels, closed>>

LoserClosed(r) ==
  /\ pc[r] = "closeLoser"
  /\ handle[r] = "closed"
  /\ guard' = None
  /\ pc' = [pc EXCEPT ![r] = "lock"]
  /\ UNCHANGED <<entry, older, inUse, sweep, handle, key, got, closes, orphans, dropped, cancels, closed>>

MutantCommitNew(r) ==
  /\ pc[r] = "commit"
  /\ guard = None
  /\ got' = [got EXCEPT ![r] = r]
  /\ Enforce(r, MovedToEnd(key[r]), [entry EXCEPT ![key[r]] = r], [inUse EXCEPT ![r] = 1],
             "evictNew", "lock")
  /\ UNCHANGED <<sweep, key, orphans, dropped, cancels, closed>>

\* The handle becomes the key's entry, claimed, and the capacity is enforced.
CommitNew(r) ==
  /\ pc[r] = "commit"
  /\ guard = None
  /\ entry[key[r]] = None
  /\ got' = [got EXCEPT ![r] = r]
  /\ Enforce(r, MovedToEnd(key[r]), [entry EXCEPT ![key[r]] = r], [inUse EXCEPT ![r] = 1],
             "evictNew", "lock")
  /\ UNCHANGED <<sweep, key, orphans, dropped, cancels, closed>>

\* The thread of a handle closes it.
ThreadCloses(h) ==
  /\ handle[h] = "closing"
  /\ handle' = [handle EXCEPT ![h] = "closed"]
  /\ UNCHANGED <<poolVars, reqVars, orphans, dropped, cancels, closed>>

\* _close_entry pops the entry it closed, and the loop goes on.
EvictionGoesOn(r) ==
  /\ pc[r] \in {"evictNew", "evictOld"}
  /\ handle[entry[closes[r]]] = "closed"
  /\ Enforce(r, Without(older, closes[r]), [entry EXCEPT ![closes[r]] = None], inUse,
             pc[r], IF pc[r] = "evictNew" THEN "lock" ELSE "done")
  /\ UNCHANGED <<sweep, key, got, orphans, dropped, cancels, closed>>

EntryLocked(h) == \E q \in Requests : pc[q] = "reading" /\ got[q] = h

\* async with entry.lock: the caller's thread reads through the handle.
LockEntry(r) ==
  /\ pc[r] = "lock"
  /\ ~EntryLocked(got[r])
  /\ pc' = [pc EXCEPT ![r] = "reading"]
  /\ UNCHANGED <<poolVars, handle, key, got, orphans, dropped, cancels, closed>>

\* The read returns or raises; the entry lock is released, the claim is not.
EndRead(r) ==
  /\ pc[r] = "reading"
  /\ pc' = [pc EXCEPT ![r] = "release"]
  /\ UNCHANGED <<poolVars, handle, key, got, orphans, dropped, cancels, closed>>

MutantRelease(r) ==
  /\ pc[r] = "release"
  /\ guard = None
  /\ inUse' = [inUse EXCEPT ![got[r]] = @ - 1]
  /\ older' = MovedToEnd(key[r])
  /\ pc' = [pc EXCEPT ![r] = "done"]
  /\ UNCHANGED <<entry, guard, sweep, handle, key, got, closes, orphans, dropped, cancels, closed>>

\* acquire's finally: give the claim up, then enforce the capacity.
Release(r) ==
  /\ pc[r] = "release"
  /\ guard = None
  /\ Enforce(r, MovedToEnd(key[r]), entry, [inUse EXCEPT ![got[r]] = @ - 1],
             "evictOld", "done")
  /\ UNCHANGED <<sweep, key, got, orphans, dropped, cancels, closed>>

\* A handle closed because its request was cancelled before the commit.
OwnClosed(r) ==
  /\ pc[r] = "closeOwn"
  /\ handle[r] = "closed"
  /\ pc' = [pc EXCEPT ![r] = "done"]
  /\ UNCHANGED <<poolVars, handle, key, got, orphans, dropped, cancels, closed>>

-----------------------------------------------------------------------------
(***************************************************************************)
(* Cancellation: CancelledError raised at the await the request is in      *)
(***************************************************************************)
CancelAt(r, pcs, next) ==
  /\ cancels < MaxCancels
  /\ pc[r] \in pcs
  /\ cancels' = cancels + 1
  /\ pc' = [pc EXCEPT ![r] = next]
  /\ UNCHANGED <<sweep, key, got, closed>>

\* Cancelling the await of a close withdraws the job if its thread has not
\* taken it yet: the handle then stays open.  Nobody asks for its close again.
CloseWithdrawn(h) ==
  /\ dropped' = dropped \cup {h}
  /\ \/ UNCHANGED handle
     \/ /\ handle[h] = "closing"
        /\ handle' = [handle EXCEPT ![h] = "open"]

\* Nothing to undo: waiting for the guard before the checkout, or for the
\* close of its own handle.
CancelEarly(r) ==
  /\ CancelAt(r, {"checkout"}, "done")
  /\ guard # None
  /\ UNCHANGED <<entry, older, inUse, guard, handle, closes, orphans, dropped>>

\* The open goes on in its thread; a background task will dispose of it.
CancelOpening(r) ==
  /\ CancelAt(r, {"opening"}, "done")
  /\ orphans' = orphans \cup {r}
  /\ UNCHANGED <<entry, older, inUse, guard, handle, closes, dropped>>

\* Waiting for the guard with an open handle: the finally closes it.
CancelCommit(r) ==
  /\ CancelAt(r, {"commit"}, "closeOwn")
  /\ guard # None
  /\ handle' = [handle EXCEPT ![r] = "closing"]
  /\ UNCHANGED <<entry, older, inUse, guard, closes, orphans, dropped>>

CancelCloseOwn(r) ==
  /\ CancelAt(r, {"closeOwn"}, "done")
  /\ CloseWithdrawn(r)
  /\ UNCHANGED <<entry, older, inUse, guard, closes, orphans>>

\* The claim on the winner's entry was taken and nobody will give it up.
CancelLoser(r) ==
  /\ CancelAt(r, {"closeLoser"}, "done")
  /\ CloseWithdrawn(r)
  /\ guard' = None
  /\ UNCHANGED <<entry, older, inUse, closes, orphans>>

\* The victim is popped; in _checkout the claim on the new entry is undone.
CancelEviction(r) ==
  /\ CancelAt(r, {"evictNew", "evictOld"}, "done")
  /\ CloseWithdrawn(entry[closes[r]])
  /\ older' = Without(older, closes[r])
  /\ entry' = [entry EXCEPT ![closes[r]] = None]
  /\ inUse' = IF pc[r] = "evictNew" THEN [inUse EXCEPT ![r] = @ - 1] ELSE inUse
  /\ closes' = [closes EXCEPT ![r] = None]
  /\ guard' = None
  /\ UNCHANGED orphans

\* Waiting for the entry lock, or while its thread reads: acquire's finally runs.
\* to_thread waits for the thread when a scope of anyio is cancelled, so the read
\* is over; that no request is cancelled past anyio is an assumption.
CancelHolder(r) ==
  /\ CancelAt(r, {"lock", "reading"}, "release")
  /\ pc[r] = "lock" => EntryLocked(got[r])
  /\ UNCHANGED <<entry, older, inUse, guard, handle, closes, orphans, dropped>>

\* Waiting for the guard in acquire's finally: the claim is not given up.
CancelRelease(r) ==
  /\ CancelAt(r, {"release"}, "done")
  /\ guard # None
  /\ UNCHANGED <<entry, older, inUse, guard, handle, closes, orphans, dropped>>

\* _finish_cancelled_open, tracked in _background_cleanup.
OrphanCloses(h) ==
  /\ h \in orphans
  /\ handle[h] = "open"
  /\ handle' = [handle EXCEPT ![h] = "closing"]
  /\ UNCHANGED <<poolVars, reqVars, orphans, dropped, cancels, closed>>

MutantOrphanEnds(h) ==
  /\ h \in orphans
  /\ handle[h] \in {"open", "closed"}
  /\ orphans' = orphans \ {h}
  /\ UNCHANGED <<poolVars, handle, reqVars, dropped, cancels, closed>>

OrphanEnds(h) ==
  /\ h \in orphans
  /\ handle[h] = "closed"
  /\ orphans' = orphans \ {h}
  /\ UNCHANGED <<poolVars, handle, reqVars, dropped, cancels, closed>>

-----------------------------------------------------------------------------
(***************************************************************************)
(* evict_idle and close_all close entries one after the other under the    *)
(* guard.                                                                  *)
(***************************************************************************)
MutantCloseNext(e, keys) ==
  /\ sweep' = {}
  /\ entry' = [k \in Keys |-> IF k \in keys THEN None ELSE e[k]]
  /\ guard' = None
  /\ closes' = [closes EXCEPT ![Sweeper] = None]
  /\ UNCHANGED handle

\* Close the oldest of `keys`, or give the guard back.
CloseNext(e, keys) ==
  /\ sweep' = keys
  /\ entry' = e
  /\ \/ /\ keys = {}
        /\ guard' = None
        /\ closes' = [closes EXCEPT ![Sweeper] = None]
        /\ UNCHANGED handle
     \/ \E k \in Oldest(older, keys) :
          /\ guard' = Sweeper
          /\ closes' = [closes EXCEPT ![Sweeper] = k]
          /\ handle' = [handle EXCEPT ![e[k]] = "closing"]

StartSweep(keys) ==
  /\ guard = None
  /\ CloseNext(entry, keys)
  /\ UNCHANGED <<older, inUse, reqVars, orphans, dropped, cancels>>

MutantEvictIdle(stale) ==
  /\ stale # {}
  /\ stale \subseteq Pooled(entry)
  /\ StartSweep(stale)
  /\ UNCHANGED closed

\* Which idle entries are older than idle_ttl is left open.
EvictIdle(stale) ==
  /\ stale # {}
  /\ stale \subseteq Idle(entry, inUse)
  /\ StartSweep(stale)
  /\ UNCHANGED closed

MutantCloseAll ==
  /\ ~closed
  /\ \A r \in Requests : pc[r] \in {"idle", "done"}
  /\ StartSweep(Pooled(entry))
  /\ closed' = TRUE

\* lifespan's shutdown: the server has drained its requests, the clean-ups of
\* cancelled opens are awaited first.
CloseAll ==
  /\ ~closed
  /\ \A r \in Requests : pc[r] \in {"idle", "done"}
  /\ orphans = {}
  /\ StartSweep(Pooled(entry))
  /\ closed' = TRUE

SweepGoesOn ==
  /\ guard = Sweeper
  /\ handle[entry[closes[Sweeper]]] = "closed"
  /\ older' = Without(older, closes[Sweeper])
  /\ CloseNext([entry EXCEPT ![closes[Sweeper]] = None], sweep \ {closes[Sweeper]})
  /\ UNCHANGED <<inUse, reqVars, orphans, dropped, cancels, closed>>

-----------------------------------------------------------------------------
Acquire(r) ==
  \/ CheckoutHit(r) \/ CheckoutMiss(r) \/ OpenReturns(r)
  \/ CommitLoser(r) \/ LoserClosed(r) \/ CommitNew(r)
  \/ EvictionGoesOn(r) \/ LockEntry(r) \/ Release(r) \/ OwnClosed(r)

Cancel(r) ==
  \/ CancelEarly(r) \/ CancelOpening(r) \/ CancelCommit(r) \/ CancelCloseOwn(r)
  \/ CancelLoser(r) \/ CancelEviction(r) \/ CancelHolder(r) \/ CancelRelease(r)

Background(h) == ThreadOpens(h) \/ ThreadCloses(h) \/ OrphanCloses(h) \/ OrphanEnds(h)

Next ==
  \/ \E r \in Requests :
       \/ \E k \in Keys : Begin(r, k)
       \/ Acquire(r) \/ EndRead(r) \/ Cancel(r) \/ Background(r)
  \/ \E stale \in SUBSET Keys : EvictIdle(stale)
  \/ CloseAll
  \/ SweepGoesOn

Spec == Init /\ [][Next]_vars

(***************************************************************************)
(* Fairness: the event loop resumes what can go on, opens, reads and       *)
(* closes end in their threads.  Nobody has to start or cancel a request,  *)
(* evict or shut down.                                                     *)
(***************************************************************************)
Fairness ==
  /\ \A r \in Requests :
       /\ WF_vars(Acquire(r))
       /\ WF_vars(EndRead(r))
       /\ WF_vars(Background(r))
  /\ WF_vars(SweepGoesOn)

FairSpec == Spec /\ Fairness

-----------------------------------------------------------------------------
(***************************************************************************)
(* Properties                                                              *)
(***************************************************************************)
Claims(h) == {r \in Requests : got[r] = h /\ pc[r] \in Claiming}

\* A request that reads does so through the key's entry, and its handle stays
\* open until the read is over: no eviction, lost race or cancelled neighbour
\* closes it under the reader.
ReadersHaveOpenHandle ==
  \A r \in Requests : pc[r] = "reading" =>
    entry[key[r]] = got[r] /\ handle[got[r]] = "open"

\* in_use never falls short of the requests that rely on an entry, whatever
\* awaits are cancelled: eviction decides on this count alone.
ClaimsAreCounted ==
  \A h \in Handles : inUse[h] >= Cardinality(Claims(h))

\* The pool keeps the promise of an exclusive lease per key.
ReadersOf(k) == {r \in Requests : pc[r] = "reading" /\ key[r] = k}

AnyOf(S) == CHOOSE x \in S : TRUE

Reader(k) == IF ReadersOf(k) = {} THEN None ELSE AnyOf(ReadersOf(k))

Lease == INSTANCE KeyedLease WITH
  Callers <- Requests, Nobody <- None,
  holder <- [k \in Keys |-> Reader(k)],
  usable <- [k \in Keys |-> entry[k] # None /\ handle[entry[k]] = "open"]

LeaseSpec == Lease!Spec

\* Two requests never read one key at a time: the entry lock is per handle, so
\* this needs one handle per key as well.
ExclusiveRead ==
  \A q, r \in Requests :
    pc[q] = "reading" /\ pc[r] = "reading" /\ key[q] = key[r] => q = r

\* Nothing is pinned: in_use is exactly the number of requests that rely on
\* the entry.  It is what "permanently pinned" (dataset_pool.py:183-192) and
\* the tests (tests/test_dataset_pool.py:271-335) rule out after a
\* cancellation; it holds when no request is cancelled.
NothingIsPinned ==
  \A h \in Handles : inUse[h] = Cardinality(Claims(h))

\* As long as no request is cancelled, nothing is pinned, and max_open is
\* exceeded between two operations only while every handle is relied on.
CapacityAtRest ==
  cancels = 0 =>
    /\ NothingIsPinned
    /\ guard = None /\ Cardinality(Pooled(entry)) > MaxOpen => Idle(entry, inUse) = {}

\* Somebody is in charge of a handle: it is an entry of the pool, its request
\* has it in hand, or the clean-up of a cancelled open waits for it.
InCharge(h) ==
  \/ \E k \in Keys : entry[k] = h
  \/ pc[h] \in {"opening", "commit", "closeLoser", "closeOwn"}
  \/ h \in orphans

Live(h) == handle[h] \in {"opening", "open", "closing"}

\* Whatever is raced for, evicted or cancelled, a handle that is not closed yet
\* has somebody in charge of it, who will close it.  The exception is a handle
\* whose close was already awaited when a cancellation ended the await.
NothingLeaks ==
  \A h \in Handles : Live(h) => InCharge(h) \/ h \in dropped

\* When close_all returns every handle is closed: those of the entries, those
\* that requests had in hand, and the late result of a cancelled open.  The
\* exception is a handle whose close was itself cancelled before.
ShutdownClosesAll ==
  closed /\ guard = None =>
    \A h \in Handles : Live(h) => h \in dropped

\* A request that entered acquire gets out of it: neither the guard held
\* across a close nor the entry locks block it for good.
AcquireEnds ==
  \A r \in Requests : pc[r] # "idle" ~> pc[r] = "done"

\* A handle whose open outlived its cancelled request is closed in the end.
CancelledOpenIsClosed ==
  \A h \in Handles : h \in orphans ~> handle[h] = "closed"

(***************************************************************************)
(* What makes the safety properties inductive.                             *)
(***************************************************************************)
Evicting == {"evictNew", "evictOld"}

\* The guard is held across a close, by whoever awaits it.
GuardIsHeld ==
  /\ \A r \in Requests :
       /\ guard = r <=> pc[r] \in Evicting \cup {"closeLoser"}
       /\ closes[r] # None <=> pc[r] \in Evicting
  /\ closes[Sweeper] # None <=> guard = Sweeper

ClaimsHaveEntries ==
  \A r \in Requests :
    /\ pc[r] # "idle" => key[r] \in Keys
    /\ pc[r] \in Claiming => got[r] \in Handles /\ entry[key[r]] = got[r]
    /\ pc[r] = "evictNew" => got[r] = r

\* An entry's handle was opened for its key and committed, by a request that
\* left it to the pool.
EntriesAreCommitted ==
  /\ \A k \in Pooled(entry) :
       /\ key[entry[k]] = k
       /\ pc[entry[k]] \in Evicting \cup {"lock", "reading", "release", "done"}
       /\ entry[k] \notin orphans
  /\ \A h \in orphans : pc[h] = "done"

EntriesAreOpen ==
  /\ \A k \in Pooled(entry) :
       /\ handle[entry[k]] \notin {"none", "opening"}
       /\ (\A x \in Holders : closes[x] # k) => handle[entry[k]] = "open"
  /\ \A r \in Requests : pc[r] = "commit" => handle[r] = "open"

Unclaimed(k) == \A r \in Requests : pc[r] \in Claiming => key[r] # k

ClosingIsUnclaimed ==
  /\ \A x \in Holders :
       closes[x] # None => closes[x] \in Pooled(entry) /\ Unclaimed(closes[x])
  /\ guard = Sweeper =>
       closes[Sweeper] \in sweep /\ \A k \in sweep : k \in Pooled(entry) /\ Unclaimed(k)

HandleReadOnce ==
  \A q, r \in Requests :
    pc[q] = "reading" /\ pc[r] = "reading" /\ got[q] = got[r] => q = r

PoolShape ==
  /\ GuardIsHeld
  /\ ClaimsHaveEntries
  /\ EntriesAreCommitted
  /\ EntriesAreOpen
  /\ ClosingIsUnclaimed
  /\ HandleReadOnce

PoolInv == TypeOK /\ PoolShape /\ ClaimsAreCounted

\* close_all finds the pool at rest, and has in `sweep` what is left of it.
ShutdownIsFinal ==
  closed =>
    /\ \A r \in Requests : pc[r] \in {"idle", "done"}
    /\ orphans = {}
    /\ guard = None => Pooled(entry) = {}
    /\ guard = Sweeper => Pooled(entry) \subseteq sweep

\* The order of _entries is one of its keys.
OrderIsStrict ==
  /\ older \subseteq Pooled(entry) \X Pooled(entry)
  /\ \A k \in Keys : <<k, k>> \notin older
  /\ \A i, j, k \in Keys : <<i, j>> \in older /\ <<j, k>> \in older => <<i, k>> \in older

\* Until a request is cancelled an idle entry of a full pool is being closed,
\* and a sweep only runs in a pool that is not too full.
EvictionKeepsUp ==
  cancels = 0 =>
    /\ NothingIsPinned
    /\ (\A x \in Holders : closes[x] = None) /\ Cardinality(Pooled(entry)) > MaxOpen
         => Idle(entry, inUse) = {}
    /\ guard = Sweeper => Cardinality(Pooled(entry)) <= MaxOpen

PoolRest ==
  /\ ShutdownIsFinal
  /\ OrderIsStrict
  /\ NothingLeaks
  /\ EvictionKeepsUp
=============================================================================
