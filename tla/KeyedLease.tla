----------------------------- MODULE KeyedLease -----------------------------
(***************************************************************************)
(* What a pool of non-thread-safe handles promises its callers: at most    *)
(* one of them reads a key at a time, through a handle that is open for    *)
(* as long as it reads.                                                    *)
(***************************************************************************)
CONSTANTS Keys, Callers, Nobody

VARIABLES
  holder,  \* holder[k]: the caller that reads key k, or Nobody
  usable   \* usable[k]: key k has a handle that is open

leaseVars == <<holder, usable>>

Init ==
  /\ holder = [k \in Keys |-> Nobody]
  /\ usable = [k \in Keys |-> FALSE]

\* Handles are opened and closed, but none that somebody reads.
Turnover ==
  /\ usable' \in [Keys -> BOOLEAN]
  /\ \A k \in Keys : holder[k] # Nobody => usable'[k]
  /\ UNCHANGED holder

Grant(k, c) ==
  /\ usable[k]
  /\ holder[k] = Nobody
  /\ holder' = [holder EXCEPT ![k] = c]
  /\ UNCHANGED usable

Return(k) ==
  /\ holder[k] # Nobody
  /\ holder' = [holder EXCEPT ![k] = Nobody]
  /\ UNCHANGED usable

Next ==
  \/ Turnover
  \/ \E k \in Keys : Return(k) \/ \E c \in Callers : Grant(k, c)

Spec == Init /\ [][Next]_leaseVars
=============================================================================
