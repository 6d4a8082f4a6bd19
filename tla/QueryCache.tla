----------------------------- MODULE QueryCache -----------------------------
(***************************************************************************)
(* One query of the browser's cache (TanStack Query, as the code uses it): *)
(* the data it has, whether that was invalidated, whether the last fetch   *)
(* failed, and the fetch under way, if any: asked for, or read, with what  *)
(* the server read for it.                                                 *)
(***************************************************************************)
EXTENDS Naturals

CONSTANT None

Query(data, invalid, error, fetch, answer) ==
  [data |-> data, invalid |-> invalid, error |-> error, fetch |-> fetch, answer |-> answer]

IsQuery(q) ==
  /\ q = Query(q.data, q.invalid, q.error, q.fetch, q.answer)
  /\ q.invalid \in BOOLEAN /\ q.error \in BOOLEAN /\ q.fetch \in {"none", "asked", "read"}

Unknown == Query(None, FALSE, FALSE, "none", None)

\* A fetch begins, over any that was under way; an error of a query that never
\* had data is forgotten.
Refetched(q) == Query(q.data, q.invalid, q.error /\ q.data # None, "asked", None)

\* A component shows the query from now on: what is missing, invalid or older
\* than half a minute is fetched, unless it is being fetched.
Observed(q) ==
  CASE q.fetch # "none" -> {q}
    [] q.fetch = "none" /\ (q.data = None \/ q.invalid \/ q.error) -> {Refetched(q)}
    [] OTHER -> {q, Refetched(q)}

\* invalidateQueries: a query on display is fetched again, and the fetch under
\* way dropped, but not a first one.
Restarts(q) == q.data # None \/ q.fetch = "none"
Invalidated(q, displayed) ==
  IF displayed /\ Restarts(q) THEN Query(q.data, TRUE, q.error /\ q.data # None, "asked", None)
  ELSE Query(q.data, TRUE, q.error, q.fetch, q.answer)

Reads(q, data) == Query(q.data, q.invalid, q.error, "read", data)
Arrived(q) == Query(q.answer, FALSE, FALSE, "none", None)
Failed(q) == Query(q.data, q.invalid, TRUE, "none", None)
=============================================================================
