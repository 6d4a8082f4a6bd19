-------------------------- MODULE DatasetPoolProofs --------------------------
(***************************************************************************)
(* What DatasetPool guarantees for any number of requests, keys, handles   *)
(* and cancellations.                                                      *)
(***************************************************************************)
EXTENDS DatasetPool, FiniteSetTheorems, TLAPS

-----------------------------------------------------------------------------
(***************************************************************************)
(* Counting claims                                                         *)
(***************************************************************************)

\* The claims on a handle are finitely many.
LEMMA ClaimsAreFinite ==
  ASSUME NEW h \in Handles
  PROVE  IsFiniteSet(Claims(h)) /\ Cardinality(Claims(h)) \in Nat
<1>1. IsFiniteSet(Claims(h))
  BY PoolAssumption, FS_Subset DEF Claims
<1> QED BY <1>1, FS_CardinalityType

\* A count that is large enough stays so when claims are only given up.
LEMMA CountKept ==
  ASSUME TypeOK, ClaimsAreCounted, inUse' = inUse,
         \A h \in Handles : Claims(h)' \subseteq Claims(h)
  PROVE  ClaimsAreCounted'
<1> SUFFICES ASSUME NEW h \in Handles PROVE inUse'[h] >= Cardinality(Claims(h)')
  BY DEF ClaimsAreCounted
<1>1. Cardinality(Claims(h)') <= Cardinality(Claims(h)) /\ Cardinality(Claims(h)') \in Nat
  BY ClaimsAreFinite, FS_Subset, FS_CardinalityType
<1> QED BY <1>1, ClaimsAreFinite DEF ClaimsAreCounted, TypeOK

\* One more in in_use accounts for one more claim.
LEMMA CountJoined ==
  ASSUME TypeOK, ClaimsAreCounted, NEW g \in Handles, NEW r \in Requests,
         inUse' = [inUse EXCEPT ![g] = @ + 1],
         \A h \in Handles : Claims(h)' \subseteq IF h = g THEN Claims(h) \cup {r} ELSE Claims(h)
  PROVE  ClaimsAreCounted'
<1> SUFFICES ASSUME NEW h \in Handles PROVE inUse'[h] >= Cardinality(Claims(h)')
  BY DEF ClaimsAreCounted
<1>1. inUse[h] \in Nat /\ inUse[h] >= Cardinality(Claims(h))
  BY DEF ClaimsAreCounted, TypeOK
<1>2. CASE h # g
  <2>1. Cardinality(Claims(h)') <= Cardinality(Claims(h)) /\ Cardinality(Claims(h)') \in Nat
    BY <1>2, ClaimsAreFinite, FS_Subset, FS_CardinalityType
  <2> QED BY <1>1, <1>2, <2>1, ClaimsAreFinite DEF TypeOK
<1>3. CASE h = g
  <2>1. /\ IsFiniteSet(Claims(h) \cup {r})
        /\ Cardinality(Claims(h) \cup {r}) \in Nat
        /\ Cardinality(Claims(h) \cup {r}) <= Cardinality(Claims(h)) + 1
    <3>1. /\ IsFiniteSet(Claims(h) \cup {r})
          /\ Cardinality(Claims(h) \cup {r}) =
               IF r \in Claims(h) THEN Cardinality(Claims(h)) ELSE Cardinality(Claims(h)) + 1
      BY ClaimsAreFinite, FS_AddElement
    <3> QED BY <3>1, ClaimsAreFinite
  <2>2. /\ Cardinality(Claims(h)') <= Cardinality(Claims(h) \cup {r})
        /\ Cardinality(Claims(h)') \in Nat
    BY <1>3, <2>1, FS_Subset, FS_CardinalityType
  <2>3. inUse'[h] = inUse[h] + 1
    BY <1>3 DEF TypeOK
  <2> QED BY <1>1, <2>1, <2>2, <2>3, ClaimsAreFinite
<1> QED BY <1>2, <1>3

\* Whoever has a claim may take one off in_use when giving it up.
LEMMA CountLeft ==
  ASSUME TypeOK, ClaimsAreCounted, NEW g \in Handles, NEW r \in Claims(g),
         inUse' = [inUse EXCEPT ![g] = @ - 1],
         \A h \in Handles : Claims(h)' \subseteq Claims(h) \ {r}
  PROVE  ClaimsAreCounted' /\ inUse' \in [Handles -> Nat]
<1>1. /\ Cardinality(Claims(g) \ {r}) = Cardinality(Claims(g)) - 1
      /\ IsFiniteSet(Claims(g) \ {r})
      /\ Cardinality(Claims(g) \ {r}) \in Nat
  BY ClaimsAreFinite, FS_RemoveElement, FS_CardinalityType
<1>2. inUse[g] - 1 >= Cardinality(Claims(g) \ {r}) /\ inUse[g] - 1 \in Nat
  BY <1>1, ClaimsAreFinite DEF ClaimsAreCounted, TypeOK
<1>3. ASSUME NEW h \in Handles PROVE inUse'[h] >= Cardinality(Claims(h)')
  <2>1. Cardinality(Claims(h)') <= Cardinality(Claims(h) \ {r}) /\ Cardinality(Claims(h)') \in Nat
    BY ClaimsAreFinite, FS_Subset, FS_CardinalityType, FS_RemoveElement
  <2>2. CASE h = g
    BY <1>1, <1>2, <2>1, <2>2 DEF TypeOK
  <2>3. CASE h # g
    <3>1. Cardinality(Claims(h)') <= Cardinality(Claims(h)) /\ Cardinality(Claims(h)') \in Nat
      BY ClaimsAreFinite, FS_Subset, FS_CardinalityType
    <3> QED BY <2>3, <3>1, ClaimsAreFinite DEF ClaimsAreCounted, TypeOK
  <2> QED BY <2>2, <2>3
<1> QED BY <1>2, <1>3 DEF ClaimsAreCounted, TypeOK

\* An entry somebody relies on is never idle.
LEMMA ClaimedIsBusy ==
  ASSUME PoolInv, NEW r \in Requests, pc[r] \in Claiming
  PROVE  inUse[got[r]] # 0 /\ got[r] \in Handles
<1>1. got[r] \in Handles /\ r \in Claims(got[r])
  BY DEF PoolInv, PoolShape, ClaimsHaveEntries, Claims
<1>2. Cardinality(Claims(got[r])) # 0
  BY <1>1, ClaimsAreFinite, FS_EmptySet
<1> QED BY <1>1, <1>2, ClaimsAreFinite DEF PoolInv, ClaimsAreCounted, TypeOK

-----------------------------------------------------------------------------
(***************************************************************************)
(* The inductive invariant                                                 *)
(***************************************************************************)

\* The empty pool satisfies the invariant.
LEMMA PoolInit == Init => PoolInv
<1> SUFFICES ASSUME Init PROVE PoolInv
  OBVIOUS
<1>1. TypeOK
  <2>1. cancels \in 0 .. MaxCancels /\ inUse \in [Handles -> Nat]
    BY PoolAssumption DEF Init
  <2>2. older \subseteq Keys \X Keys /\ sweep \subseteq Keys /\ orphans \subseteq Handles
    BY DEF Init
  <2> QED BY <2>1, <2>2 DEF Init, TypeOK, Pcs, Handles, Holders
<1>2. \A h \in Handles : Claims(h) = {}
  BY DEF Init, Claims, Claiming
<1>3. ClaimsAreCounted
  BY <1>2, FS_EmptySet DEF Init, ClaimsAreCounted
<1> QED
  BY <1>1, <1>3, PoolAssumption
     DEF Init, PoolInv, PoolShape, GuardIsHeld, ClaimsHaveEntries, EntriesAreCommitted,
         EntriesAreOpen,
         ClosingIsUnclaimed, HandleReadOnce, Pooled, Evicting, Claiming, Handles, Holders

\* What _enforce_capacity does next once the entries are as Enforce made them.
Outcome(r, busy, rest) ==
  \/ /\ guard' = None
     /\ closes' = [closes EXCEPT ![r] = None]
     /\ pc' = [pc EXCEPT ![r] = rest]
     /\ handle' = handle
  \/ \E k \in Idle(entry', inUse') :
       /\ guard' = r
       /\ closes' = [closes EXCEPT ![r] = k]
       /\ pc' = [pc EXCEPT ![r] = busy]
       /\ handle' = [handle EXCEPT ![entry'[k]] = "closing"]

\* Moving a key to the end, or popping it, leaves an order of keys.
LEMMA OrderTyped ==
  ASSUME TypeOK, NEW k \in Keys
  PROVE  MovedToEnd(k) \subseteq Keys \X Keys /\ Without(older, k) \subseteq Keys \X Keys
  BY DEF TypeOK, MovedToEnd, Without, Pooled

\* An idle entry is one no request relies on.
LEMMA IdleIsUnclaimed ==
  TypeOK /\ ClaimsHaveEntries /\ ClaimsAreCounted
    => \A k \in Idle(entry, inUse) : Unclaimed(k)
<1> SUFFICES ASSUME TypeOK, ClaimsHaveEntries, ClaimsAreCounted,
                    NEW k \in Idle(entry, inUse), NEW r \in Requests,
                    pc[r] \in Claiming, key[r] = k
             PROVE  FALSE
  BY DEF Unclaimed
<1>1. got[r] = entry[k] /\ got[r] \in Handles /\ r \in Claims(got[r])
  BY DEF ClaimsHaveEntries, Claims
<1>2. Cardinality(Claims(got[r])) # 0
  BY <1>1, ClaimsAreFinite, FS_EmptySet
<1>3. inUse[got[r]] = 0
  BY <1>1 DEF Idle
<1> QED BY <1>1, <1>2, <1>3, ClaimsAreFinite DEF ClaimsAreCounted, TypeOK

\* The steps that neither add a claim nor touch the entries and their order.
Quiet ==
  \/ \E r \in Requests :
       \/ \E k \in Keys : Begin(r, k)
       \/ CheckoutMiss(r) \/ OpenReturns(r) \/ LoserClosed(r) \/ LockEntry(r) \/ EndRead(r)
       \/ OwnClosed(r) \/ CancelEarly(r) \/ CancelOpening(r) \/ CancelCommit(r)
       \/ CancelCloseOwn(r) \/ CancelLoser(r) \/ CancelHolder(r) \/ CancelRelease(r)
  \/ \E h \in Handles : ThreadOpens(h) \/ ThreadCloses(h) \/ OrphanCloses(h) \/ OrphanEnds(h)
  \/ UNCHANGED vars

\* They keep the invariant, and every count as it is.
LEMMA QuietStep ==
  ASSUME PoolInv, Quiet
  PROVE  PoolInv'
<1> DEFINE Kept == /\ TypeOK'
                   /\ PoolShape'
                   /\ inUse' = inUse
                   /\ \A h \in Handles : Claims(h)' \subseteq Claims(h)
<1> USE PoolAssumption
    DEF PoolInv, TypeOK, PoolShape, GuardIsHeld, ClaimsHaveEntries, EntriesAreCommitted,
        EntriesAreOpen,
            ClosingIsUnclaimed, HandleReadOnce, Pooled, Unclaimed, Evicting,
        Claiming, Claims, Pcs, Handles, Holders, poolVars, reqVars
<1>1. ASSUME NEW r \in Requests, NEW k \in Keys, Begin(r, k) PROVE Kept
  BY <1>1 DEF Begin
<1>2. ASSUME NEW r \in Requests, CheckoutMiss(r) PROVE Kept
  BY <1>2 DEF CheckoutMiss
<1>3. ASSUME NEW h \in Handles, ThreadOpens(h) PROVE Kept
  BY <1>3 DEF ThreadOpens
<1>4. ASSUME NEW r \in Requests, OpenReturns(r) PROVE Kept
  BY <1>4 DEF OpenReturns
<1>5. ASSUME NEW r \in Requests, LoserClosed(r) PROVE Kept
  BY <1>5 DEF LoserClosed
<1>6. ASSUME NEW h \in Handles, ThreadCloses(h) PROVE Kept
  BY <1>6 DEF ThreadCloses
<1>7. ASSUME NEW r \in Requests, LockEntry(r) PROVE Kept
  BY <1>7 DEF LockEntry, EntryLocked
<1>8. ASSUME NEW r \in Requests, EndRead(r) PROVE Kept
  BY <1>8 DEF EndRead
<1>9. ASSUME NEW r \in Requests, OwnClosed(r) PROVE Kept
  BY <1>9 DEF OwnClosed
<1>10. ASSUME NEW r \in Requests, CancelEarly(r) PROVE Kept
  BY <1>10 DEF CancelEarly, CancelAt
<1>11. ASSUME NEW r \in Requests, CancelOpening(r) PROVE Kept
  BY <1>11 DEF CancelOpening, CancelAt
<1>12. ASSUME NEW r \in Requests, CancelCommit(r) PROVE Kept
  BY <1>12 DEF CancelCommit, CancelAt
<1>13. ASSUME NEW r \in Requests, CancelCloseOwn(r) PROVE Kept
  BY <1>13 DEF CancelCloseOwn, CancelAt, CloseWithdrawn
<1>14. ASSUME NEW r \in Requests, CancelLoser(r) PROVE Kept
  BY <1>14 DEF CancelLoser, CancelAt, CloseWithdrawn
<1>15. ASSUME NEW r \in Requests, CancelHolder(r) PROVE Kept
  BY <1>15 DEF CancelHolder, CancelAt
<1>16. ASSUME NEW r \in Requests, CancelRelease(r) PROVE Kept
  BY <1>16 DEF CancelRelease, CancelAt
<1>17. ASSUME NEW h \in Handles, OrphanCloses(h) PROVE Kept
  BY <1>17 DEF OrphanCloses
<1>18. ASSUME NEW h \in Handles, OrphanEnds(h) PROVE Kept
  BY <1>18 DEF OrphanEnds
<1>19. ASSUME UNCHANGED vars PROVE Kept
  BY <1>19 DEF vars
<1> HIDE DEF Kept
<1>20. Kept
  BY <1>1, <1>2, <1>3, <1>4, <1>5, <1>6, <1>7, <1>8, <1>9, <1>10, <1>11, <1>12, <1>13,
     <1>14, <1>15, <1>16, <1>17, <1>18, <1>19 DEF Quiet
<1>21. ClaimsAreCounted'
  BY <1>20, CountKept DEF Kept
<1> QED BY <1>20, <1>21 DEF Kept

\* Every step keeps the invariant.
LEMMA PoolStep ==
  ASSUME PoolInv, [Next]_vars
  PROVE  PoolInv'
<1> USE PoolAssumption DEF poolVars, reqVars, Handles, Holders
<1>1. ASSUME NEW r \in Requests, CheckoutHit(r) PROVE PoolInv'
  <2>1. TypeOK'
    BY <1>1, OrderTyped DEF PoolInv, PoolShape, TypeOK, Pcs, CheckoutHit, ClaimsHaveEntries
  <2>2. GuardIsHeld' /\ ClaimsHaveEntries' /\ EntriesAreCommitted' /\ EntriesAreOpen'
        /\ ClosingIsUnclaimed' /\ HandleReadOnce'
    BY <1>1 DEF PoolInv, PoolShape, TypeOK, CheckoutHit, GuardIsHeld, ClaimsHaveEntries,
        EntriesAreCommitted,
           EntriesAreOpen, ClosingIsUnclaimed, HandleReadOnce, Pooled, Unclaimed, Claiming, Evicting
  <2>3. entry[key[r]] \in Handles /\ inUse' = [inUse EXCEPT ![entry[key[r]]] = @ + 1]
    BY <1>1 DEF PoolInv, PoolShape, TypeOK, ClaimsHaveEntries, CheckoutHit
  <2>4. ClaimsAreCounted'
    <3>2. \A h \in Handles : Claims(h)' \subseteq IF h = entry[key[r]] THEN Claims(h) \cup {r} ELSE Claims(h)
      BY <1>1, <2>3 DEF PoolInv, PoolShape, TypeOK, Claims, Claiming, CheckoutHit
    <3> QED BY <2>3, <3>2, CountJoined DEF PoolInv, PoolShape
  <2> QED BY <2>1, <2>2, <2>4 DEF PoolInv, PoolShape
<1>2. ASSUME NEW r \in Requests, CommitLoser(r) PROVE PoolInv'
  <2>1. TypeOK'
    BY <1>2, OrderTyped DEF PoolInv, PoolShape, TypeOK, Pcs, CommitLoser, ClaimsHaveEntries
  <2>2. GuardIsHeld' /\ ClaimsHaveEntries' /\ EntriesAreCommitted' /\ EntriesAreOpen'
        /\ ClosingIsUnclaimed' /\ HandleReadOnce'
    BY <1>2 DEF PoolInv, PoolShape, TypeOK, CommitLoser, GuardIsHeld, ClaimsHaveEntries,
        EntriesAreCommitted,
           EntriesAreOpen, ClosingIsUnclaimed, HandleReadOnce, Pooled, Unclaimed, Claiming, Evicting
  <2>3. entry[key[r]] \in Handles /\ inUse' = [inUse EXCEPT ![entry[key[r]]] = @ + 1]
    BY <1>2 DEF PoolInv, PoolShape, TypeOK, ClaimsHaveEntries, CommitLoser
  <2>4. ClaimsAreCounted'
    <3>2. \A h \in Handles : Claims(h)' \subseteq IF h = entry[key[r]] THEN Claims(h) \cup {r} ELSE Claims(h)
      BY <1>2, <2>3 DEF PoolInv, PoolShape, TypeOK, Claims, Claiming, CommitLoser
    <3> QED BY <2>3, <3>2, CountJoined DEF PoolInv, PoolShape
  <2> QED BY <2>1, <2>2, <2>4 DEF PoolInv, PoolShape
<1>3. ASSUME NEW r \in Requests, CommitNew(r) PROVE PoolInv'
  <2>0. Outcome(r, "evictNew", "lock")
    BY <1>3 DEF CommitNew, Enforce, Outcome, Victims, Oldest
  <2>1. /\ key[r] \in Keys /\ handle[r] = "open" /\ r \notin orphans /\ guard' \in {r, None}
        /\ \A k \in Pooled(entry) : entry[k] # r
        /\ \A q \in Requests : pc[q] \in Claiming => got[q] # r
    BY <1>3 DEF PoolInv, PoolShape, TypeOK, ClaimsHaveEntries, EntriesAreCommitted,
        EntriesAreOpen, Pooled, Evicting,
           Claiming, CommitNew, Enforce
  <2>2. TypeOK'
    BY <1>3, <2>0, <2>1, OrderTyped DEF PoolInv, PoolShape, TypeOK, Pcs, Pooled, Evicting,
        Outcome, Idle, CommitNew, Enforce
  <2>3. ClaimsHaveEntries'
    BY <1>3, <2>1 DEF PoolInv, PoolShape, TypeOK, ClaimsHaveEntries, Claiming, CommitNew, Enforce
  <2>4. ClaimsAreCounted'
    <3>1. \A h \in Handles : Claims(h)' \subseteq IF h = r THEN {r} ELSE Claims(h)
      BY <1>3, <2>1 DEF PoolInv, PoolShape, TypeOK, Claims, Claiming, CommitNew, Enforce
    <3>2. IsFiniteSet({r}) /\ Cardinality({r}) = 1
      BY FS_Singleton
    <3>3. Cardinality(Claims(r)') <= 1 /\ Cardinality(Claims(r)') \in Nat
      BY <3>1, <3>2, FS_Subset, FS_CardinalityType
    <3>4. ASSUME NEW h \in Handles, h # r PROVE inUse'[h] >= Cardinality(Claims(h)')
      <4>1. Cardinality(Claims(h)') <= Cardinality(Claims(h)) /\ Cardinality(Claims(h)') \in Nat
        BY <3>1, <3>4, ClaimsAreFinite, FS_Subset, FS_CardinalityType
      <4> QED BY <1>3, <3>4, <4>1, ClaimsAreFinite DEF PoolInv, PoolShape, ClaimsAreCounted,
          TypeOK, CommitNew, Enforce
    <3>5. inUse'[r] = 1
      BY <1>3 DEF PoolInv, PoolShape, TypeOK, CommitNew, Enforce
    <3> QED BY <3>3, <3>4, <3>5 DEF ClaimsAreCounted
  <2>5. \A k \in Idle(entry', inUse') : Unclaimed(k)'
    <3>1. (TypeOK /\ ClaimsHaveEntries /\ ClaimsAreCounted
             => \A k \in Idle(entry, inUse) : Unclaimed(k))'
      BY IdleIsUnclaimed, PTL
    <3> QED BY <3>1, <2>2, <2>3, <2>4
  <2>6. GuardIsHeld' /\ EntriesAreCommitted' /\ HandleReadOnce'
    BY <1>3, <2>0, <2>1 DEF PoolInv, PoolShape, TypeOK, GuardIsHeld, EntriesAreCommitted,
        HandleReadOnce,
           ClaimsHaveEntries, Pooled, Evicting, Claiming, Outcome, Idle, CommitNew, Enforce
  <2>7. EntriesAreOpen'
    BY <1>3, <2>0, <2>1 DEF PoolInv, PoolShape, TypeOK, GuardIsHeld, EntriesAreOpen,
        EntriesAreCommitted,
           ClosingIsUnclaimed, Pooled, Evicting, Outcome, Idle, CommitNew, Enforce
  <2>8. ClosingIsUnclaimed'
    BY <1>3, <2>0, <2>1, <2>5, <2>6 DEF PoolInv, PoolShape, TypeOK, GuardIsHeld,
        ClosingIsUnclaimed,
           Pooled, Evicting, Outcome, Idle, CommitNew, Enforce
  <2> QED BY <2>2, <2>3, <2>4, <2>6, <2>7, <2>8 DEF PoolInv, PoolShape
<1>4. ASSUME NEW r \in Requests, EvictionGoesOn(r) PROVE PoolInv'
  <2>0. Outcome(r, pc[r], IF pc[r] = "evictNew" THEN "lock" ELSE "done")
    BY <1>4 DEF EvictionGoesOn, Enforce, Outcome, Victims, Oldest
  <2>1. /\ closes[r] \in Pooled(entry) /\ Unclaimed(closes[r]) /\ guard = r
        /\ \A j, k \in Pooled(entry) : entry[j] = entry[k] => j = k
    BY <1>4 DEF PoolInv, PoolShape, TypeOK, GuardIsHeld, ClosingIsUnclaimed, EntriesAreCommitted,
        Evicting, EvictionGoesOn
  <2>2. TypeOK'
    BY <1>4, <2>0, <2>1, OrderTyped DEF PoolInv, PoolShape, TypeOK, Pcs, Pooled, Evicting,
        Outcome, Idle, EvictionGoesOn, Enforce
  <2>3. ClaimsHaveEntries'
    BY <1>4, <2>1 DEF PoolInv, PoolShape, TypeOK, ClaimsHaveEntries, Claiming, Unclaimed,
        EvictionGoesOn, Enforce
  <2>4. ClaimsAreCounted'
    <3>1. inUse' = inUse /\ \A h \in Handles : Claims(h)' \subseteq Claims(h)
      BY <1>4 DEF PoolInv, PoolShape, TypeOK, Claims, Claiming, EvictionGoesOn, Enforce
    <3> QED BY <3>1, CountKept DEF PoolInv, PoolShape
  <2>5. \A k \in Idle(entry', inUse') : Unclaimed(k)'
    <3>1. (TypeOK /\ ClaimsHaveEntries /\ ClaimsAreCounted
             => \A k \in Idle(entry, inUse) : Unclaimed(k))'
      BY IdleIsUnclaimed, PTL
    <3> QED BY <3>1, <2>2, <2>3, <2>4
  <2>6. GuardIsHeld' /\ EntriesAreCommitted' /\ HandleReadOnce'
    BY <1>4, <2>0, <2>1 DEF PoolInv, PoolShape, TypeOK, GuardIsHeld, EntriesAreCommitted,
        HandleReadOnce,
           ClaimsHaveEntries, Pooled, Evicting, Claiming, Outcome, Idle, EvictionGoesOn, Enforce
  <2>7. EntriesAreOpen'
    BY <1>4, <2>0, <2>1 DEF PoolInv, PoolShape, TypeOK, GuardIsHeld, EntriesAreOpen,
        EntriesAreCommitted,
           ClosingIsUnclaimed, Pooled, Evicting, Outcome, Idle, EvictionGoesOn, Enforce
  <2>8. ClosingIsUnclaimed'
    BY <1>4, <2>0, <2>1, <2>5, <2>6 DEF PoolInv, PoolShape, TypeOK, GuardIsHeld,
        ClosingIsUnclaimed,
           Pooled, Evicting, Outcome, Idle, EvictionGoesOn, Enforce
  <2> QED BY <2>2, <2>3, <2>4, <2>6, <2>7, <2>8 DEF PoolInv, PoolShape
<1>5. ASSUME NEW r \in Requests, Release(r) PROVE PoolInv'
  <2>0. Outcome(r, "evictOld", "done")
    BY <1>5 DEF Release, Enforce, Outcome, Victims, Oldest
  <2>1. key[r] \in Keys /\ got[r] \in Handles /\ r \in Claims(got[r])
    BY <1>5 DEF PoolInv, PoolShape, ClaimsHaveEntries, Claims, Claiming, Release
  <2>4. ClaimsAreCounted' /\ inUse' \in [Handles -> Nat]
    <3>1. \A h \in Handles : Claims(h)' \subseteq Claims(h) \ {r}
      BY <1>5 DEF PoolInv, PoolShape, TypeOK, Claims, Claiming, Release, Enforce
    <3> QED BY <1>5, <2>1, <3>1, CountLeft DEF PoolInv, PoolShape, Release, Enforce
  <2>2. TypeOK'
    BY <1>5, <2>0, <2>1, <2>4, OrderTyped DEF PoolInv, PoolShape, TypeOK, Pcs, Pooled, Evicting,
        Outcome, Idle, Release, Enforce
  <2>3. ClaimsHaveEntries'
    BY <1>5, <2>1 DEF PoolInv, PoolShape, TypeOK, ClaimsHaveEntries, Claiming, Release, Enforce
  <2>5. \A k \in Idle(entry', inUse') : Unclaimed(k)'
    <3>1. (TypeOK /\ ClaimsHaveEntries /\ ClaimsAreCounted
             => \A k \in Idle(entry, inUse) : Unclaimed(k))'
      BY IdleIsUnclaimed, PTL
    <3> QED BY <3>1, <2>2, <2>3, <2>4
  <2>6. GuardIsHeld' /\ EntriesAreCommitted' /\ HandleReadOnce'
    BY <1>5, <2>0, <2>1 DEF PoolInv, PoolShape, TypeOK, GuardIsHeld, EntriesAreCommitted,
        HandleReadOnce,
           ClaimsHaveEntries, Pooled, Evicting, Claiming, Outcome, Idle, Release, Enforce
  <2>7. EntriesAreOpen'
    BY <1>5, <2>0, <2>1 DEF PoolInv, PoolShape, TypeOK, GuardIsHeld, EntriesAreOpen,
        EntriesAreCommitted,
           ClosingIsUnclaimed, Pooled, Evicting, Outcome, Idle, Release, Enforce
  <2>8. ClosingIsUnclaimed'
    BY <1>5, <2>0, <2>1, <2>5, <2>6 DEF PoolInv, PoolShape, TypeOK, GuardIsHeld,
        ClosingIsUnclaimed,
           Pooled, Evicting, Outcome, Idle, Release, Enforce
  <2> QED BY <2>2, <2>3, <2>4, <2>6, <2>7, <2>8 DEF PoolInv, PoolShape
<1>6. ASSUME NEW r \in Requests, CancelEviction(r) PROVE PoolInv'
  <2>1. /\ closes[r] \in Pooled(entry) /\ Unclaimed(closes[r]) /\ guard = r
        /\ \A j, k \in Pooled(entry) : entry[j] = entry[k] => j = k
    BY <1>6 DEF PoolInv, PoolShape, TypeOK, GuardIsHeld, ClosingIsUnclaimed, EntriesAreCommitted,
        Evicting,
           CancelEviction, CancelAt
  <2>2. ClaimsAreCounted' /\ inUse' \in [Handles -> Nat]
    <3>1. CASE pc[r] = "evictNew"
      <4>1. r \in Claims(r)
        BY <3>1 DEF PoolInv, PoolShape, ClaimsHaveEntries, Claims, Claiming
      <4>2. \A h \in Handles : Claims(h)' \subseteq Claims(h) \ {r}
        BY <1>6 DEF PoolInv, PoolShape, TypeOK, Claims, Claiming, CancelEviction, CancelAt
      <4> QED BY <1>6, <3>1, <4>1, <4>2, CountLeft DEF PoolInv, PoolShape, CancelEviction
    <3>2. CASE pc[r] # "evictNew"
      <4>1. inUse' = inUse /\ \A h \in Handles : Claims(h)' \subseteq Claims(h)
        BY <1>6, <3>2 DEF PoolInv, PoolShape, TypeOK, Claims, Claiming, CancelEviction, CancelAt
      <4> QED BY <4>1, CountKept DEF PoolInv, PoolShape, TypeOK
    <3> QED BY <3>1, <3>2
  <2>3. TypeOK'
    BY <1>6, <2>1, <2>2, OrderTyped DEF PoolInv, PoolShape, TypeOK, Pcs, Pooled, CancelEviction,
        CancelAt, CloseWithdrawn
  <2>4. GuardIsHeld' /\ ClaimsHaveEntries' /\ EntriesAreCommitted' /\ EntriesAreOpen'
        /\ ClosingIsUnclaimed' /\ HandleReadOnce'
    BY <1>6, <2>1 DEF PoolInv, PoolShape, TypeOK, CancelEviction, CancelAt, CloseWithdrawn,
        GuardIsHeld, ClaimsHaveEntries, EntriesAreCommitted,
           EntriesAreOpen, ClosingIsUnclaimed, HandleReadOnce, Pooled, Unclaimed, Claiming, Evicting
  <2> QED BY <2>2, <2>3, <2>4 DEF PoolInv, PoolShape
<1>7. ASSUME NEW keys \in SUBSET Keys, StartSweep(keys), keys \subseteq Pooled(entry),
              \A k \in keys : Unclaimed(k), closed' \in BOOLEAN
       PROVE  PoolInv'
  <2>1. TypeOK'
    BY <1>7 DEF PoolInv, PoolShape, TypeOK, Pooled, StartSweep, CloseNext, Oldest, Idle
  <2>2. GuardIsHeld' /\ ClaimsHaveEntries' /\ EntriesAreCommitted' /\ EntriesAreOpen'
        /\ ClosingIsUnclaimed' /\ HandleReadOnce'
    BY <1>7 DEF PoolInv, PoolShape, TypeOK, StartSweep, CloseNext, Oldest, Idle, GuardIsHeld,
        ClaimsHaveEntries, EntriesAreCommitted,
           EntriesAreOpen, ClosingIsUnclaimed, HandleReadOnce, Pooled, Unclaimed, Claiming, Evicting
  <2>3. ClaimsAreCounted'
    <3>1. inUse' = inUse /\ \A h \in Handles : Claims(h)' \subseteq Claims(h)
      BY <1>7 DEF Claims, StartSweep
    <3> QED BY <3>1, CountKept DEF PoolInv, PoolShape
  <2> QED BY <2>1, <2>2, <2>3 DEF PoolInv, PoolShape
<1>8. ASSUME NEW stale \in SUBSET Keys, EvictIdle(stale) PROVE PoolInv'
  <2>1. \A k \in stale : Unclaimed(k)
    BY <1>8, IdleIsUnclaimed DEF PoolInv, PoolShape, EvictIdle
  <2> QED BY <1>7, <1>8, <2>1 DEF EvictIdle, Idle, PoolInv, TypeOK
<1>9. CASE CloseAll
  <2>1. \A k \in Keys : Unclaimed(k)
    BY <1>9 DEF CloseAll, Unclaimed, Claiming
  <2> QED BY <1>7, <1>9, <2>1 DEF CloseAll, Pooled
<1>10. CASE SweepGoesOn
  <2>1. /\ closes[Sweeper] \in Pooled(entry) /\ Unclaimed(closes[Sweeper])
        /\ \A j, k \in Pooled(entry) : entry[j] = entry[k] => j = k
    BY <1>10 DEF PoolInv, PoolShape, GuardIsHeld, ClosingIsUnclaimed, EntriesAreCommitted,
        SweepGoesOn
  <2>2. TypeOK'
    BY <1>10, <2>1, OrderTyped DEF PoolInv, PoolShape, TypeOK, Pooled, SweepGoesOn, CloseNext,
        Oldest, Idle
  <2>3. GuardIsHeld' /\ ClaimsHaveEntries' /\ EntriesAreCommitted' /\ EntriesAreOpen'
        /\ ClosingIsUnclaimed' /\ HandleReadOnce'
    BY <1>10, <2>1 DEF PoolInv, PoolShape, TypeOK, SweepGoesOn, CloseNext, Oldest, Idle,
        GuardIsHeld, ClaimsHaveEntries, EntriesAreCommitted,
           EntriesAreOpen, ClosingIsUnclaimed, HandleReadOnce, Pooled, Unclaimed, Claiming, Evicting
  <2>4. ClaimsAreCounted'
    <3>1. inUse' = inUse /\ \A h \in Handles : Claims(h)' \subseteq Claims(h)
      BY <1>10 DEF Claims, SweepGoesOn
    <3> QED BY <3>1, CountKept DEF PoolInv, PoolShape
  <2> QED BY <2>2, <2>3, <2>4 DEF PoolInv, PoolShape
<1>11. CASE Quiet
  BY <1>11, QuietStep
<1> QED
  BY <1>1, <1>2, <1>3, <1>4, <1>5, <1>6, <1>7, <1>8, <1>9, <1>10, <1>11
     DEF Next, Acquire, Cancel, Background, Quiet

\* The invariant holds in every reachable state.
THEOREM PoolInvariance == Spec => []PoolInv
<1>1. Init => PoolInv
  BY PoolInit
<1>2. PoolInv /\ [Next]_vars => PoolInv'
  BY PoolStep
<1> QED BY <1>1, <1>2, PTL DEF Spec

-----------------------------------------------------------------------------
(***************************************************************************)
(* The promises of the pool                                                *)
(***************************************************************************)

\* Every variable keeps its type; in particular in_use is never negative.
THEOREM PoolTypeCorrect == Spec => []TypeOK
<1>1. PoolInv => TypeOK
  BY DEF PoolInv
<1> QED BY <1>1, PoolInvariance, PTL

\* in_use never falls short of the requests that rely on an entry, whatever is
\* cancelled.
THEOREM ClaimsAreCountedHolds == Spec => []ClaimsAreCounted
<1>1. PoolInv => ClaimsAreCounted
  BY DEF PoolInv
<1> QED BY <1>1, PoolInvariance, PTL

\* Nobody reads through a handle that is closing or closed.
LEMMA ReadersHaveHandles == PoolInv => ReadersHaveOpenHandle
<1> SUFFICES ASSUME PoolInv, NEW r \in Requests, pc[r] = "reading"
             PROVE  entry[key[r]] = got[r] /\ handle[got[r]] = "open"
  BY DEF ReadersHaveOpenHandle
<1>1. pc[r] \in Claiming
  BY DEF Claiming
<1>2. key[r] \in Pooled(entry) /\ entry[key[r]] = got[r]
  BY <1>1, PoolAssumption DEF PoolInv, PoolShape, ClaimsHaveEntries, Claiming, Pooled, Handles
<1>3. \A x \in Holders : closes[x] # key[r]
  BY <1>1, <1>2, PoolAssumption DEF PoolInv, PoolShape, ClosingIsUnclaimed, Unclaimed, Pooled
<1> QED BY <1>2, <1>3 DEF PoolInv, PoolShape, EntriesAreOpen

\* A read goes through the key's own entry, and its handle is open until the
\* read is over.
THEOREM ReadersHaveOpenHandleHolds == Spec => []ReadersHaveOpenHandle
  BY ReadersHaveHandles, PoolInvariance, PTL

\* A key is read by one request at a time.
LEMMA ReadsAreExclusive == PoolInv => ExclusiveRead
  BY DEF PoolInv, PoolShape, ClaimsHaveEntries, HandleReadOnce, ExclusiveRead, Claiming

\* Reads of one key exclude each other, although the lock belongs to the entry
\* and entries come and go.
THEOREM ExclusiveReadHolds == Spec => []ExclusiveRead
  BY ReadsAreExclusive, PoolInvariance, PTL

-----------------------------------------------------------------------------
(***************************************************************************)
(* The pool at shutdown, and the pool nobody cancels                       *)
(***************************************************************************)

\* close_all starts when nothing is under way and nothing starts after it: what
\* it has to close only gets less.
LEMMA ShutdownStep ==
  ASSUME PoolInv, ShutdownIsFinal, [Next]_vars
  PROVE  ShutdownIsFinal'
<1> USE DEF ShutdownIsFinal, Handles, PoolInv, TypeOK
<1>1. ASSUME NEW r \in Requests, (\E k \in Keys : Begin(r, k)) \/ Acquire(r) \/ EndRead(r) \/ Cancel(r)
      PROVE  ~closed /\ closed' = closed
  <2>1. pc[r] \notin {"idle", "done"} \/ \E k \in Keys : Begin(r, k)
    BY <1>1 DEF Acquire, CheckoutHit, CheckoutMiss, OpenReturns, CommitLoser, LoserClosed, CommitNew,
       EvictionGoesOn, LockEntry, Release, OwnClosed, EndRead, Cancel, CancelEarly, CancelOpening,
       CancelCommit, CancelCloseOwn, CancelLoser, CancelEviction, CancelHolder, CancelRelease,
       CancelAt
  <2>2. closed' = closed
    BY <1>1 DEF Acquire, Begin, CheckoutHit, CheckoutMiss, OpenReturns, CommitLoser, LoserClosed,
       CommitNew, EvictionGoesOn, LockEntry, Release, OwnClosed, EndRead, Cancel, CancelEarly,
       CancelOpening, CancelCommit, CancelCloseOwn, CancelLoser, CancelEviction, CancelHolder,
       CancelRelease, CancelAt
  <2> QED BY <2>1, <2>2 DEF Begin
<1>2. ASSUME NEW h \in Requests, Background(h) PROVE ShutdownIsFinal'
  BY <1>2 DEF Background, ThreadOpens, ThreadCloses, OrphanCloses, OrphanEnds, reqVars, poolVars
<1>3. ASSUME NEW stale \in SUBSET Keys, EvictIdle(stale) PROVE ShutdownIsFinal'
  BY <1>3, PoolAssumption DEF EvictIdle, StartSweep, CloseNext, Idle, reqVars
<1>4. ASSUME CloseAll PROVE ShutdownIsFinal'
  BY <1>4, PoolAssumption DEF CloseAll, StartSweep, CloseNext, reqVars, Pooled
<1>5. ASSUME SweepGoesOn PROVE ShutdownIsFinal'
  <2>1. closes[Sweeper] \in Keys
    BY <1>5, PoolAssumption DEF SweepGoesOn, PoolShape, GuardIsHeld, ClosingIsUnclaimed, Pooled, Holders
  <2>2. Pooled(entry') = Pooled(entry) \ {closes[Sweeper]}
    BY <1>5, <2>1 DEF SweepGoesOn, CloseNext, Pooled
  <2>3. closed => Pooled(entry') \subseteq sweep'
    BY <1>5, <2>2 DEF SweepGoesOn, CloseNext
  <2>4. guard' = None => sweep' = {}
    BY <1>5, PoolAssumption DEF SweepGoesOn, CloseNext, Holders
  <2>5. Pooled(entry)' = Pooled(entry')
    BY DEF Pooled
  <2>6. UNCHANGED <<pc, orphans, closed>>
    BY <1>5 DEF SweepGoesOn, reqVars
  <2> QED BY <2>3, <2>4, <2>5, <2>6
<1>6. ASSUME UNCHANGED vars PROVE ShutdownIsFinal'
  BY <1>6 DEF vars, reqVars, poolVars
<1> QED BY <1>1, <1>2, <1>3, <1>4, <1>5, <1>6 DEF Next

\* What is moved to the end comes after all others, what is popped is gone.
LEMMA OrderStays ==
  ASSUME OrderIsStrict, NEW k \in Keys, NEW e, Pooled(entry) \ {k} \subseteq Pooled(e)
  PROVE  /\ k \in Pooled(e) =>
              /\ MovedToEnd(k) \subseteq Pooled(e) \X Pooled(e)
              /\ \A i \in Keys : <<i, i>> \notin MovedToEnd(k)
              /\ \A h, i, j \in Keys :
                   <<h, i>> \in MovedToEnd(k) /\ <<i, j>> \in MovedToEnd(k)
                     => <<h, j>> \in MovedToEnd(k)
         /\ Without(older, k) \subseteq Pooled(e) \X Pooled(e)
         /\ \A i \in Keys : <<i, i>> \notin Without(older, k)
         /\ \A h, i, j \in Keys :
              <<h, i>> \in Without(older, k) /\ <<i, j>> \in Without(older, k)
                => <<h, j>> \in Without(older, k)
<1>1. \A pair : pair \in Without(older, k) <=> pair \in older /\ pair[1] # k /\ pair[2] # k
  BY DEF Without
<1>2. \A i, j : <<i, j>> \in Without(older, k) <=> <<i, j>> \in older /\ i # k /\ j # k
  BY DEF Without
<1>3. \A i, j : <<i, j>> \in MovedToEnd(k) <=>
        <<i, j>> \in Without(older, k) \/ (i \in Pooled(entry) \ {k} /\ j = k)
  BY DEF MovedToEnd
<1>4. Without(older, k) \subseteq Pooled(e) \X Pooled(e)
  BY <1>1 DEF OrderIsStrict
<1>5. k \in Pooled(e) => MovedToEnd(k) \subseteq Pooled(e) \X Pooled(e)
  BY <1>4 DEF MovedToEnd
<1>6. \A h, i, j \in Keys : <<h, i>> \in Without(older, k) /\ <<i, j>> \in Without(older, k)
        => <<h, j>> \in Without(older, k)
  BY <1>2 DEF OrderIsStrict
<1>7. \A i, j \in Keys : <<i, j>> \in older => i \in Pooled(entry)
  BY DEF OrderIsStrict
<1>8. \A h, i, j \in Keys : <<h, i>> \in MovedToEnd(k) /\ <<i, j>> \in MovedToEnd(k)
        => <<h, j>> \in MovedToEnd(k)
  <2> SUFFICES ASSUME NEW h \in Keys, NEW i \in Keys, NEW j \in Keys,
                      <<h, i>> \in MovedToEnd(k), <<i, j>> \in MovedToEnd(k)
               PROVE  <<h, j>> \in MovedToEnd(k)
    OBVIOUS
  <2>1. <<h, i>> \in Without(older, k)
    BY <1>2, <1>3
  <2>2. <<h, i>> \in older /\ h # k /\ i # k
    BY <1>2, <2>1
  <2>3. h \in Pooled(entry) \ {k}
    BY <1>7, <2>2
  <2>4. CASE <<i, j>> \in Without(older, k)
    BY <1>3, <1>6, <2>1, <2>4
  <2>5. CASE j = k
    BY <1>3, <2>3, <2>5
  <2> QED BY <1>3, <2>4, <2>5
<1>9. ASSUME NEW i \in Keys PROVE <<i, i>> \notin Without(older, k)
  BY <1>2 DEF OrderIsStrict
<1>10. ASSUME NEW i \in Keys PROVE <<i, i>> \notin MovedToEnd(k)
  BY <1>3, <1>9
<1> QED BY <1>4, <1>5, <1>6, <1>8, <1>9, <1>10, Zenon

\* The order of _entries stays an order of its keys.
LEMMA OrderStep ==
  ASSUME PoolInv, OrderIsStrict, [Next]_vars
  PROVE  OrderIsStrict'
<1>1. ASSUME NEW k \in Keys, older' = MovedToEnd(k), k \in Pooled(entry'),
             Pooled(entry) \ {k} \subseteq Pooled(entry')
      PROVE  OrderIsStrict'
  BY <1>1, OrderStays DEF OrderIsStrict
<1>2. ASSUME NEW k \in Keys, older' = Without(older, k), entry' = [entry EXCEPT ![k] = None]
      PROVE  OrderIsStrict'
  <2>1. Pooled(entry) \ {k} \subseteq Pooled(entry')
    BY <1>2 DEF Pooled, PoolInv, TypeOK
  <2> QED BY <1>2, <2>1, OrderStays DEF OrderIsStrict
<1>3. ASSUME older' = older, entry' = entry PROVE OrderIsStrict'
  BY <1>3 DEF OrderIsStrict, Pooled
<1>4. ASSUME NEW r \in Requests, CheckoutHit(r) \/ CommitLoser(r) PROVE OrderIsStrict'
  <2>1. key[r] \in Pooled(entry)
    BY <1>4 DEF CheckoutHit, CommitLoser, PoolInv, PoolShape, ClaimsHaveEntries, Pooled
  <2> QED BY <1>1, <1>4, <2>1 DEF CheckoutHit, CommitLoser, Pooled
<1>5. ASSUME NEW r \in Requests, CommitNew(r) PROVE OrderIsStrict'
  <2>1. key[r] \in Keys
    BY <1>5 DEF CommitNew, PoolInv, PoolShape, ClaimsHaveEntries
  <2>2. Pooled(entry') = Pooled(entry) \cup {key[r]}
    BY <1>5, <2>1, PoolAssumption DEF CommitNew, Enforce, Pooled, PoolInv, TypeOK
  <2> QED BY <1>1, <1>5, <2>1, <2>2 DEF CommitNew, Enforce
<1>6. ASSUME NEW r \in Requests, Release(r) PROVE OrderIsStrict'
  <2>1. key[r] \in Pooled(entry)
    BY <1>6, PoolAssumption
       DEF Release, PoolInv, PoolShape, ClaimsHaveEntries, Claiming, Pooled, Handles
  <2> QED BY <1>1, <1>6, <2>1 DEF Release, Enforce, Pooled
<1>7. ASSUME NEW r \in Requests, EvictionGoesOn(r) \/ CancelEviction(r) PROVE OrderIsStrict'
  <2>1. closes[r] \in Keys
    BY <1>7 DEF EvictionGoesOn, CancelEviction, CancelAt, Evicting, PoolInv, TypeOK, PoolShape,
                GuardIsHeld, Holders
  <2> QED BY <1>2, <1>7, <2>1 DEF EvictionGoesOn, CancelEviction, Enforce
<1>8. ASSUME SweepGoesOn PROVE OrderIsStrict'
  <2>1. closes[Sweeper] \in Keys
    BY <1>8 DEF SweepGoesOn, PoolInv, TypeOK, PoolShape, GuardIsHeld, Holders
  <2> QED BY <1>2, <1>8, <2>1 DEF SweepGoesOn, CloseNext
<1>9. ASSUME \/ \E stale \in SUBSET Keys : EvictIdle(stale)
             \/ CloseAll \/ UNCHANGED vars
      PROVE  OrderIsStrict'
  BY <1>3, <1>9 DEF EvictIdle, CloseAll, StartSweep, CloseNext, vars, poolVars
<1>10. ASSUME NEW r \in Requests,
              \/ \E k \in Keys : Begin(r, k)
              \/ CheckoutMiss(r) \/ OpenReturns(r) \/ LoserClosed(r) \/ LockEntry(r)
              \/ OwnClosed(r) \/ EndRead(r) \/ Background(r)
       PROVE  OrderIsStrict'
  BY <1>3, <1>10 DEF Begin, CheckoutMiss, OpenReturns, LoserClosed, LockEntry, OwnClosed, EndRead,
     Background, ThreadOpens, ThreadCloses, OrphanCloses, OrphanEnds, poolVars
<1>11. ASSUME NEW r \in Requests,
              \/ CancelEarly(r) \/ CancelOpening(r) \/ CancelCommit(r) \/ CancelCloseOwn(r)
              \/ CancelLoser(r) \/ CancelHolder(r) \/ CancelRelease(r)
       PROVE  OrderIsStrict'
  BY <1>3, <1>11 DEF CancelEarly, CancelOpening, CancelCommit, CancelCloseOwn, CancelLoser,
     CancelHolder, CancelRelease
<1> QED BY <1>4, <1>5, <1>6, <1>7, <1>8, <1>9, <1>10, <1>11 DEF Next, Acquire, Cancel

\* A finite set with a strict order has a first element.
LEMMA FirstExists ==
  ASSUME NEW S, IsFiniteSet(S), NEW order,
         \A k \in S : <<k, k>> \notin order,
         \A i, j, k \in S : <<i, j>> \in order /\ <<j, k>> \in order => <<i, k>> \in order,
         S # {}
  PROVE  \E k \in S : \A j \in S : <<j, k>> \notin order
<1> DEFINE HasFirst(U) == \E k \in U : \A j \in U : <<j, k>> \notin order
           Bad == {U \in SUBSET S : U # {} /\ ~HasFirst(U)}
<1> SUFFICES ASSUME Bad # {} PROVE FALSE
  OBVIOUS
<1>1. IsWellFoundedOn(StrictSubsetOrdering(S), FiniteSubsetsOf(S))
  BY FS_StrictSubsetOrderingWellFounded
<1>2. Bad \subseteq FiniteSubsetsOf(S)
  BY FS_FiniteSubsetsOfFinite
<1>3. PICK U \in Bad : \A V \in Bad : <<V, U>> \notin StrictSubsetOrdering(S)
  <2> HIDE DEF Bad
  <2> QED BY <1>1, <1>2, WFMin
<1>4. PICK x \in U : TRUE
  OBVIOUS
<1> DEFINE V == U \ {x}
<1>5. V \in SUBSET S /\ V \subseteq U /\ V # U
  BY <1>3, <1>4
<1>6. <<V, U>> \in StrictSubsetOrdering(S)
  BY <1>3, <1>5 DEF StrictSubsetOrdering
<1>7. V = {} \/ HasFirst(V)
  BY <1>3, <1>5, <1>6
<1>8. CASE V = {}
  BY <1>4, <1>8
<1>9. ASSUME NEW y \in V, \A j \in V : <<j, y>> \notin order PROVE FALSE
  <2>1. CASE <<x, y>> \in order
    <3>1. \A j \in U : <<j, x>> \notin order
      BY <1>4, <1>9, <2>1
    <3> QED BY <1>4, <3>1
  <2>2. CASE <<x, y>> \notin order
    BY <1>4, <1>9, <2>2
  <2> QED BY <2>1, <2>2
<1> QED BY <1>7, <1>8, <1>9

\* Requests are cancelled one by one, and a cancellation is never forgotten.
LEMMA BeforeCancel ==
  ASSUME PoolInv, [Next]_vars, cancels' = 0
  PROVE  cancels = 0 /\ \A r \in Requests : ~Cancel(r)
<1>1. cancels \in Nat
  BY PoolAssumption DEF PoolInv, TypeOK
<1>2. ASSUME NEW r \in Requests, Cancel(r) PROVE FALSE
  BY <1>1, <1>2 DEF Cancel, CancelEarly, CancelOpening, CancelCommit, CancelCloseOwn, CancelLoser,
     CancelEviction, CancelHolder, CancelRelease, CancelAt
<1>3. ASSUME NEW r \in Requests,
             (\E k \in Keys : Begin(r, k)) \/ Acquire(r) \/ EndRead(r) \/ Background(r)
      PROVE  cancels' = cancels
  BY <1>3 DEF Begin, Acquire, CheckoutHit, CheckoutMiss, OpenReturns, CommitLoser, LoserClosed,
     CommitNew, EvictionGoesOn, LockEntry, Release, OwnClosed, EndRead, Background, ThreadOpens,
     ThreadCloses, OrphanCloses, OrphanEnds
<1>4. ASSUME \/ \E stale \in SUBSET Keys : EvictIdle(stale)
             \/ CloseAll \/ SweepGoesOn \/ UNCHANGED vars
      PROVE  cancels' = cancels
  BY <1>4 DEF EvictIdle, CloseAll, StartSweep, SweepGoesOn, vars
<1> QED BY <1>2, <1>3, <1>4 DEF Next

\* A handle is passed from its request to the pool or the clean-up, or closed: it
\* is never left to nobody, unless a cancellation ends the await of its close.
LEMMA LeakStep ==
  ASSUME PoolInv, NothingLeaks, [Next]_vars
  PROVE  NothingLeaks'
<1> DEFINE Goal == \A h \in Handles : Live(h)' => InCharge(h)' \/ h \in dropped'
<1> USE DEF Live, InCharge, Handles, PoolInv, TypeOK, NothingLeaks
<1>1. ASSUME NEW r \in Requests,
             \/ \E k \in Keys : Begin(r, k)
             \/ CheckoutHit(r) \/ CheckoutMiss(r) \/ OpenReturns(r) \/ CommitLoser(r)
             \/ LoserClosed(r) \/ LockEntry(r) \/ EndRead(r) \/ OwnClosed(r)
      PROVE  Goal
  BY <1>1 DEF Begin, CheckoutHit, CheckoutMiss, OpenReturns, CommitLoser, LoserClosed,
     LockEntry, EndRead, OwnClosed, poolVars
<1>2. ASSUME NEW r \in Requests, CommitNew(r) PROVE Goal
  <2>1. key[r] \in Keys /\ entry[key[r]] = None
    BY <1>2 DEF CommitNew, PoolShape, ClaimsHaveEntries
  <2>2. entry' = [entry EXCEPT ![key[r]] = r] /\ orphans' = orphans /\ dropped' = dropped
    BY <1>2 DEF CommitNew, Enforce
  <2>3. \A h \in Handles : Live(h)' => Live(h) \/ \E k \in Keys : entry'[k] = h
    BY <1>2, PoolAssumption DEF CommitNew, Enforce, Victims, Oldest, Idle, Pooled
  <2>4. \A h \in Handles \ {r} : pc'[h] = pc[h]
    BY <1>2 DEF CommitNew, Enforce
  <2> QED BY <2>1, <2>2, <2>3, <2>4, PoolAssumption
<1>3. ASSUME NEW r \in Requests, EvictionGoesOn(r) PROVE Goal
  <2>1. closes[r] \in Keys /\ handle[entry[closes[r]]] = "closed" /\ entry[closes[r]] \in Handles
    BY <1>3, PoolAssumption
       DEF EvictionGoesOn, PoolShape, GuardIsHeld, ClosingIsUnclaimed, Evicting, Holders, Pooled
  <2>2. entry' = [entry EXCEPT ![closes[r]] = None] /\ orphans' = orphans /\ dropped' = dropped
    BY <1>3 DEF EvictionGoesOn, Enforce
  <2>3. \A h \in Handles : Live(h)' => Live(h) \/ \E k \in Keys : entry'[k] = h
    BY <1>3, PoolAssumption DEF EvictionGoesOn, Enforce, Victims, Oldest, Idle, Pooled
  <2>4. /\ \A h \in Handles \ {r} : pc'[h] = pc[h]
        /\ pc[r] \in Evicting
    BY <1>3 DEF EvictionGoesOn, Enforce, Evicting
  <2>5. ASSUME NEW h \in Handles, Live(h)', \A k \in Keys : entry'[k] # h
        PROVE  Live(h) /\ \A k \in Keys : entry[k] # h
    <3>1. Live(h)
      BY <2>3, <2>5
    <3>2. h # entry[closes[r]]
      <4>1. CASE h = entry[closes[r]]
        <5>1. handle'[h] \in {"opening", "open", "closing"} /\ handle[h] = "closed"
          BY <2>1, <2>5, <4>1
        <5> QED BY <3>1, <5>1
      <4> QED BY <4>1
    <3> QED BY <2>1, <2>2, <2>5, <3>1, <3>2
  <2> QED BY <2>2, <2>4, <2>5 DEF Evicting
<1>4. ASSUME NEW r \in Requests, Release(r) PROVE Goal
  <2>1. entry' = entry /\ orphans' = orphans /\ dropped' = dropped /\ pc[r] = "release"
    BY <1>4 DEF Release, Enforce
  <2>2. \A h \in Handles : Live(h)' => Live(h) \/ \E k \in Keys : entry'[k] = h
    <3>1. handle' = handle \/ \E k \in Idle(entry', inUse') : handle' = [handle EXCEPT ![entry'[k]] = "closing"]
      BY <1>4 DEF Release, Enforce, Victims, Oldest
    <3>2. handle' = handle \/ \E k \in Keys : handle' = [handle EXCEPT ![entry'[k]] = "closing"]
      BY <3>1 DEF Idle, Pooled
    <3> QED BY <3>2
  <2>3. \A h \in Handles \ {r} : pc'[h] = pc[h]
    BY <1>4 DEF Release, Enforce
  <2> QED BY <2>1, <2>2, <2>3
<1>5. ASSUME NEW h \in Requests, Background(h) PROVE Goal
  BY <1>5 DEF Background, ThreadOpens, ThreadCloses, OrphanCloses, OrphanEnds, reqVars, poolVars
<1>6. ASSUME NEW r \in Requests,
             \/ CancelEarly(r) \/ CancelOpening(r) \/ CancelCommit(r) \/ CancelHolder(r)
             \/ CancelRelease(r)
      PROVE  Goal
  BY <1>6 DEF CancelEarly, CancelOpening, CancelCommit, CancelHolder, CancelRelease, CancelAt
<1>7. ASSUME NEW r \in Requests, CancelCloseOwn(r) \/ CancelLoser(r) PROVE Goal
  BY <1>7 DEF CancelCloseOwn, CancelLoser, CancelAt, CloseWithdrawn
<1>8. ASSUME NEW r \in Requests, CancelEviction(r) PROVE Goal
  <2>1. closes[r] \in Keys /\ entry[closes[r]] \in Handles /\ pc[r] \in Evicting
    BY <1>8, PoolAssumption
       DEF CancelEviction, CancelAt, PoolShape, GuardIsHeld, ClosingIsUnclaimed, Evicting,
           Holders, Pooled
  <2>2. /\ entry' = [entry EXCEPT ![closes[r]] = None] /\ orphans' = orphans
        /\ dropped' = dropped \cup {entry[closes[r]]}
        /\ \A h \in Handles \ {r} : pc'[h] = pc[h]
        /\ \A h \in Handles \ {entry[closes[r]]} : handle'[h] = handle[h]
    BY <1>8, <2>1 DEF CancelEviction, CancelAt, CloseWithdrawn
  <2>3. ASSUME NEW h \in Handles, Live(h)', h \notin dropped' PROVE InCharge(h)'
    <3>1. h # entry[closes[r]] /\ h \notin dropped
      BY <2>2, <2>3
    <3>2. Live(h)
      BY <2>2, <2>3, <3>1
    <3>3. InCharge(h)
      BY <3>1, <3>2 DEF NothingLeaks
    <3> QED BY <2>1, <2>2, <3>1, <3>3 DEF Evicting
  <2> QED BY <2>3
<1>9. ASSUME \/ \E stale \in SUBSET Keys : EvictIdle(stale)
             \/ CloseAll
      PROVE  Goal
  <2>1. PICK keys \in SUBSET Keys : StartSweep(keys) /\ keys \subseteq Pooled(entry)
    BY <1>9 DEF EvictIdle, CloseAll, Pooled, Idle
  <2>2. entry' = entry /\ orphans' = orphans /\ dropped' = dropped /\ pc' = pc
    BY <2>1 DEF StartSweep, CloseNext, reqVars
  <2>3. \A h \in Handles : Live(h)' => Live(h) \/ \E k \in Keys : entry'[k] = h
    BY <2>1 DEF StartSweep, CloseNext, Oldest
  <2> QED BY <2>2, <2>3
<1>10. ASSUME SweepGoesOn PROVE Goal
  <2>1. closes[Sweeper] \in Keys /\ handle[entry[closes[Sweeper]]] = "closed"
        /\ entry[closes[Sweeper]] \in Handles
    BY <1>10, PoolAssumption
       DEF SweepGoesOn, PoolShape, GuardIsHeld, ClosingIsUnclaimed, Holders, Pooled
  <2>2. /\ entry' = [entry EXCEPT ![closes[Sweeper]] = None] /\ orphans' = orphans /\ pc' = pc
        /\ dropped' = dropped
    BY <1>10 DEF SweepGoesOn, CloseNext, reqVars
  <2>3. \A h \in Handles : Live(h)' => Live(h) \/ \E k \in Keys : entry'[k] = h
    BY <1>10, PoolAssumption
       DEF SweepGoesOn, CloseNext, Oldest, PoolShape, GuardIsHeld, ClosingIsUnclaimed, Holders
  <2>5. ASSUME NEW h \in Handles, Live(h)', \A k \in Keys : entry'[k] # h
        PROVE  Live(h) /\ \A k \in Keys : entry[k] # h
    <3>1. Live(h)
      BY <2>3, <2>5
    <3>2. h # entry[closes[Sweeper]]
      BY <2>1, <3>1
    <3> QED BY <2>1, <2>2, <2>5, <3>1, <3>2
  <2> QED BY <2>2, <2>5
<1>11. ASSUME UNCHANGED vars PROVE Goal
  BY <1>11 DEF vars, reqVars, poolVars
<1> HIDE DEF Goal
<1>12. Goal
  BY <1>1, <1>2, <1>3, <1>4, <1>5, <1>6, <1>7, <1>8, <1>9, <1>10, <1>11 DEF Next, Acquire, Cancel
<1> QED BY <1>12 DEF Goal

\* A count that is exact stays so when claims and in_use change together.
LEMMA ExactSame ==
  ASSUME NothingIsPinned, inUse' = inUse, \A h \in Handles : Claims(h)' = Claims(h)
  PROVE  NothingIsPinned'
  BY DEF NothingIsPinned

LEMMA ExactJoined ==
  ASSUME TypeOK, NothingIsPinned, NEW g \in Handles, NEW r \in Requests,
         inUse' = [inUse EXCEPT ![g] = @ + 1], r \notin Claims(g),
         \A h \in Handles : Claims(h)' = IF h = g THEN Claims(h) \cup {r} ELSE Claims(h)
  PROVE  NothingIsPinned'
<1>1. Cardinality(Claims(g) \cup {r}) = Cardinality(Claims(g)) + 1
  BY ClaimsAreFinite, FS_AddElement
<1>2. ASSUME NEW h \in Handles PROVE inUse'[h] = Cardinality(Claims(h)')
  <2>1. CASE h = g
    BY <1>1, <2>1 DEF NothingIsPinned, TypeOK
  <2>2. CASE h # g
    BY <2>2 DEF NothingIsPinned, TypeOK
  <2> QED BY <2>1, <2>2
<1> QED BY <1>2 DEF NothingIsPinned

LEMMA ExactLeft ==
  ASSUME TypeOK, NothingIsPinned, NEW g \in Handles, NEW r \in Claims(g),
         inUse' = [inUse EXCEPT ![g] = @ - 1],
         \A h \in Handles : Claims(h)' = IF h = g THEN Claims(h) \ {r} ELSE Claims(h)
  PROVE  NothingIsPinned'
<1>1. Cardinality(Claims(g) \ {r}) = Cardinality(Claims(g)) - 1
  BY ClaimsAreFinite, FS_RemoveElement
<1>2. ASSUME NEW h \in Handles PROVE inUse'[h] = Cardinality(Claims(h)')
  <2>1. CASE h = g
    BY <1>1, <2>1 DEF NothingIsPinned, TypeOK
  <2>2. CASE h # g
    BY <2>2 DEF NothingIsPinned, TypeOK
  <2> QED BY <2>1, <2>2
<1> QED BY <1>2 DEF NothingIsPinned

\* Without cancellations every step that changes who relies on an entry changes
\* in_use by as much.
LEMMA ExactStep ==
  ASSUME PoolInv, PoolInv', cancels = 0 => NothingIsPinned, [Next]_vars, cancels' = 0
  PROVE  NothingIsPinned'
<1>0. NothingIsPinned /\ cancels = 0 /\ \A r \in Requests : ~Cancel(r)
  BY BeforeCancel
<1> USE DEF Handles, PoolInv, TypeOK
<1>1. ASSUME NEW r \in Requests, CheckoutHit(r) \/ CommitLoser(r) PROVE NothingIsPinned'
  <2>1. entry[key[r]] \in Handles /\ key[r] \in Keys
    BY <1>1 DEF CheckoutHit, CommitLoser, PoolShape, ClaimsHaveEntries
  <2>2. /\ inUse' = [inUse EXCEPT ![entry[key[r]]] = @ + 1]
        /\ got' = [got EXCEPT ![r] = entry[key[r]]]
        /\ pc[r] \notin Claiming
        /\ pc' = [pc EXCEPT ![r] = "lock"] \/ pc' = [pc EXCEPT ![r] = "closeLoser"]
    BY <1>1 DEF CheckoutHit, CommitLoser, Claiming
  <2>3. \A h \in Handles :
          Claims(h)' = IF h = entry[key[r]] THEN Claims(h) \cup {r} ELSE Claims(h)
    BY <2>1, <2>2 DEF Claims, Claiming
  <2>4. r \notin Claims(entry[key[r]])
    BY <2>2 DEF Claims
  <2> QED BY <1>0, <2>1, <2>2, <2>3, <2>4, ExactJoined
<1>2. ASSUME NEW r \in Requests, CommitNew(r) PROVE NothingIsPinned'
  <2>1. \A q \in Requests : pc[q] \in Claiming => got[q] # r
    BY <1>2, PoolAssumption
       DEF CommitNew, PoolShape, ClaimsHaveEntries, EntriesAreCommitted, Pooled, Claiming, Evicting
  <2>2. /\ inUse' = [inUse EXCEPT ![r] = 1] /\ got' = [got EXCEPT ![r] = r]
        /\ pc[r] \notin Claiming
        /\ pc' = [pc EXCEPT ![r] = "lock"] \/ pc' = [pc EXCEPT ![r] = "evictNew"]
    BY <1>2 DEF CommitNew, Enforce, Claiming
  <2>3. Claims(r)' = {r} /\ \A h \in Handles \ {r} : Claims(h)' = Claims(h)
    BY <2>1, <2>2 DEF Claims, Claiming
  <2>4. Cardinality({r}) = 1
    BY FS_Singleton
  <2> QED BY <1>0, <2>2, <2>3, <2>4 DEF NothingIsPinned
<1>3. ASSUME NEW r \in Requests, Release(r) PROVE NothingIsPinned'
  <2>1. /\ got[r] \in Handles /\ r \in Claims(got[r])
    BY <1>3 DEF Release, PoolShape, ClaimsHaveEntries, Claims, Claiming
  <2>2. /\ inUse' = [inUse EXCEPT ![got[r]] = @ - 1] /\ got' = got
        /\ pc' = [pc EXCEPT ![r] = "done"] \/ pc' = [pc EXCEPT ![r] = "evictOld"]
    BY <1>3 DEF Release, Enforce
  <2>3. \A h \in Handles : Claims(h)' = IF h = got[r] THEN Claims(h) \ {r} ELSE Claims(h)
    BY <2>1, <2>2 DEF Claims, Claiming
  <2> QED BY <1>0, <2>1, <2>2, <2>3, ExactLeft
<1>4. ASSUME NEW r \in Requests, EvictionGoesOn(r) PROVE NothingIsPinned'
  <2>1. /\ inUse' = inUse /\ got' = got
        /\ \/ pc[r] = "evictNew" /\ pc' \in {[pc EXCEPT ![r] = "lock"], [pc EXCEPT ![r] = "evictNew"]}
           \/ pc[r] = "evictOld" /\ pc' \in {[pc EXCEPT ![r] = "done"], [pc EXCEPT ![r] = "evictOld"]}
    BY <1>4 DEF EvictionGoesOn, Enforce
  <2>2. \A h \in Handles : Claims(h)' = Claims(h)
    BY <2>1 DEF Claims, Claiming
  <2> QED BY <1>0, <2>1, <2>2, ExactSame
<1>5. ASSUME NEW r \in Requests,
             \/ \E k \in Keys : Begin(r, k)
             \/ CheckoutMiss(r) \/ OpenReturns(r) \/ LoserClosed(r) \/ LockEntry(r)
             \/ EndRead(r) \/ OwnClosed(r)
      PROVE  NothingIsPinned'
  <2>1. /\ inUse' = inUse /\ got' = got
        /\ \E p \in Pcs : pc' = [pc EXCEPT ![r] = p] /\ (p \in Claiming <=> pc[r] \in Claiming)
    BY <1>5 DEF Begin, CheckoutMiss, OpenReturns, LoserClosed, LockEntry, EndRead, OwnClosed,
       poolVars, Claiming, Pcs
  <2>2. \A h \in Handles : Claims(h)' = Claims(h)
    BY <2>1 DEF Claims
  <2> QED BY <1>0, <2>1, <2>2, ExactSame
<1>6. ASSUME \/ \E h \in Requests : Background(h)
             \/ \E stale \in SUBSET Keys : EvictIdle(stale)
             \/ CloseAll \/ SweepGoesOn \/ UNCHANGED vars
      PROVE  NothingIsPinned'
  <2>1. inUse' = inUse /\ got' = got /\ pc' = pc
    BY <1>6 DEF Background, ThreadOpens, ThreadCloses, OrphanCloses, OrphanEnds, EvictIdle,
       CloseAll, StartSweep, SweepGoesOn, vars, reqVars, poolVars
  <2> QED BY <1>0, <2>1, ExactSame DEF Claims
<1> QED BY <1>0, <1>1, <1>2, <1>3, <1>4, <1>5, <1>6 DEF Next, Acquire

\* Every entry was committed by a request of its own: they are finitely many.
LEMMA PoolIsFinite ==
  ASSUME PoolInv PROVE IsFiniteSet(Pooled(entry)) /\ Cardinality(Pooled(entry)) \in Nat
<1> DEFINE f == [k \in Pooled(entry) |-> entry[k]]
<1>1. \A k \in Pooled(entry) : entry[k] \in Requests /\ key[entry[k]] = k
  BY DEF PoolInv, TypeOK, PoolShape, EntriesAreCommitted, Pooled, Handles
<1>2. f \in Injection(Pooled(entry), Requests)
  BY <1>1 DEF Injection, IsInjective
<1>3. IsFiniteSet(Pooled(entry))
  BY <1>2, FS_Injection, PoolAssumption
<1> QED BY <1>3, FS_CardinalityType

\* _enforce_capacity stops when the pool is small enough or nothing is idle.
LEMMA NoVictims ==
  ASSUME PoolInv, OrderIsStrict, Cardinality(Pooled(entry)) > MaxOpen,
         Victims(older, entry, inUse) = {}
  PROVE  Idle(entry, inUse) = {}
<1> DEFINE S == Idle(entry, inUse)
<1>1. IsFiniteSet(S) /\ S \subseteq Keys
  BY PoolIsFinite, FS_Subset DEF Idle, Pooled
<1>2. Oldest(older, S) = {}
  BY PoolIsFinite, PoolAssumption DEF Victims
<1> HIDE DEF S
<1>3. ASSUME NEW k \in S PROVE <<k, k>> \notin older
  BY <1>1, <1>3 DEF OrderIsStrict
<1>4. ASSUME NEW i \in S, NEW j \in S, NEW k \in S, <<i, j>> \in older, <<j, k>> \in older
      PROVE  <<i, k>> \in older
  BY <1>1, <1>4 DEF OrderIsStrict
<1>5. S = {} \/ \E k \in S : \A j \in S : <<j, k>> \notin older
  BY ONLY <1>1, <1>3, <1>4, FirstExists, Zenon
<1>6. S = {}
  BY <1>2, <1>5 DEF Oldest
<1> QED BY <1>6 DEF S

\* The pool is over its capacity only for good reason, until a cancellation.
LEMMA CapacityStep ==
  ASSUME PoolInv, PoolInv', OrderIsStrict', EvictionKeepsUp, [Next]_vars
  PROVE  EvictionKeepsUp'
<1> SUFFICES ASSUME cancels' = 0
             PROVE  /\ NothingIsPinned'
                    /\ (\A x \in Holders : closes'[x] = None) /\ Cardinality(Pooled(entry')) > MaxOpen
                         => Idle(entry', inUse') = {}
                    /\ guard' = Sweeper => Cardinality(Pooled(entry')) <= MaxOpen
  BY DEF EvictionKeepsUp, Pooled, Idle
<1> DEFINE Rest == (\A x \in Holders : closes'[x] = None) /\ Cardinality(Pooled(entry')) > MaxOpen
                      => Idle(entry', inUse') = {}
           Room == guard' = Sweeper => Cardinality(Pooled(entry')) <= MaxOpen
<1>0. cancels = 0 /\ \A r \in Requests : ~Cancel(r)
  BY BeforeCancel
<1>1. NothingIsPinned'
  BY <1>0, ExactStep DEF EvictionKeepsUp
<1>2. /\ NothingIsPinned
      /\ (\A x \in Holders : closes[x] = None) /\ Cardinality(Pooled(entry)) > MaxOpen
           => Idle(entry, inUse) = {}
      /\ guard = Sweeper => Cardinality(Pooled(entry)) <= MaxOpen
  BY <1>0 DEF EvictionKeepsUp
<1>3. ASSUME NEW r \in Requests,
             Enforce(r, older', entry', inUse', "evictNew", "lock")
               \/ Enforce(r, older', entry', inUse', "evictOld", "done")
      PROVE  Rest /\ Room
  <2>1. CASE Victims(older', entry', inUse') = {} /\ guard' = None
    <3>1. (PoolInv /\ OrderIsStrict /\ Cardinality(Pooled(entry)) > MaxOpen
             /\ Victims(older, entry, inUse) = {} => Idle(entry, inUse) = {})'
      BY NoVictims, PTL
    <3> QED BY <2>1, <3>1, PoolAssumption DEF Pooled, Idle, Victims, Oldest
  <2>2. CASE \E k \in Victims(older', entry', inUse') : guard' = r /\ closes' = [closes EXCEPT ![r] = k]
    BY <2>2, PoolAssumption
       DEF Victims, Oldest, Idle, Pooled, PoolInv, TypeOK, Holders
  <2> QED BY <1>3, <2>1, <2>2 DEF Enforce
<1>4. ASSUME NEW r \in Requests, CommitNew(r) \/ Release(r) PROVE Rest /\ Room
  <2>1. Enforce(r, older', entry', inUse', "evictNew", "lock")
          \/ Enforce(r, older', entry', inUse', "evictOld", "done")
    BY <1>4 DEF CommitNew, Release, Enforce
  <2> QED BY <1>3, <2>1
<1>5. ASSUME NEW r \in Requests, EvictionGoesOn(r) PROVE Rest /\ Room
  <2>1. Enforce(r, older', entry', inUse', "evictNew", "lock")
          \/ Enforce(r, older', entry', inUse', "evictOld", "done")
    BY <1>5 DEF EvictionGoesOn, Enforce
  <2> QED BY <1>3, <2>1
<1>6. ASSUME NEW r \in Requests, CheckoutHit(r) \/ CommitLoser(r) PROVE Rest /\ Room
  <2>1. entry[key[r]] \in Handles
    BY <1>6 DEF CheckoutHit, CommitLoser, PoolInv, TypeOK, PoolShape, ClaimsHaveEntries
  <2>2. /\ inUse' = [inUse EXCEPT ![entry[key[r]]] = @ + 1]
        /\ entry' = entry /\ closes' = closes /\ guard' # Sweeper
    BY <1>6, PoolAssumption DEF CheckoutHit, CommitLoser
  <2>3. Idle(entry', inUse') \subseteq Idle(entry, inUse)
    BY <2>1, <2>2 DEF Idle, Pooled, PoolInv, TypeOK
  <2> QED BY <1>2, <2>2, <2>3
<1>7. ASSUME NEW r \in Requests,
             \/ \E k \in Keys : Begin(r, k)
             \/ CheckoutMiss(r) \/ OpenReturns(r) \/ LoserClosed(r) \/ LockEntry(r)
             \/ EndRead(r) \/ OwnClosed(r) \/ Background(r)
      PROVE  Rest /\ Room
  <2>1. entry' = entry /\ inUse' = inUse /\ closes' = closes /\ guard' \in {guard, None}
    BY <1>7 DEF Begin, CheckoutMiss, OpenReturns, LoserClosed, LockEntry, EndRead, OwnClosed,
       Background, ThreadOpens, ThreadCloses, OrphanCloses, OrphanEnds, poolVars
  <2> QED BY <1>2, <2>1, PoolAssumption
<1>8. ASSUME guard = None PROVE \A x \in Holders : closes[x] = None
  BY <1>8, PoolAssumption DEF PoolInv, PoolShape, GuardIsHeld, Holders, Evicting
<1>9. ASSUME NEW keys \in SUBSET Keys, StartSweep(keys),
             Cardinality(Pooled(entry)) <= MaxOpen
      PROVE  Rest /\ Room
  <2>1. entry' = entry
    BY <1>9 DEF StartSweep, CloseNext
  <2> QED BY <1>9, <2>1, PoolIsFinite, PoolAssumption
<1>10. ASSUME NEW stale \in SUBSET Keys, EvictIdle(stale) PROVE Rest /\ Room
  <2>1. guard = None /\ Idle(entry, inUse) # {}
    BY <1>10 DEF EvictIdle, StartSweep
  <2>2. Cardinality(Pooled(entry)) <= MaxOpen
    BY <1>2, <1>8, <2>1, PoolIsFinite, PoolAssumption
  <2> QED BY <1>9, <1>10, <2>2 DEF EvictIdle
<1>11. ASSUME CloseAll PROVE Rest /\ Room
  <2>1. guard = None
    BY <1>11 DEF CloseAll, StartSweep
  <2>2. \A h \in Handles : Claims(h) = {}
    BY <1>11 DEF CloseAll, Claims, Claiming
  <2>3. \A h \in Handles : inUse[h] = 0
    BY <1>2, <2>2, FS_EmptySet DEF NothingIsPinned
  <2>4. Idle(entry, inUse) = Pooled(entry)
    BY <2>3 DEF Idle, Pooled, PoolInv, TypeOK
  <2>5. Cardinality(Pooled(entry)) <= MaxOpen
    BY <1>2, <1>8, <2>1, <2>4, PoolIsFinite, FS_EmptySet, PoolAssumption
  <2> QED BY <1>9, <1>11, <2>5 DEF CloseAll, Pooled
<1>12. ASSUME SweepGoesOn PROVE Rest /\ Room
  <2>1. Pooled(entry') \subseteq Pooled(entry) /\ guard = Sweeper
    BY <1>12 DEF SweepGoesOn, CloseNext, Pooled, PoolInv, TypeOK
  <2>2. Cardinality(Pooled(entry')) <= Cardinality(Pooled(entry)) /\ Cardinality(Pooled(entry')) \in Nat
    BY <2>1, PoolIsFinite, FS_Subset, FS_CardinalityType
  <2>3. Cardinality(Pooled(entry')) <= MaxOpen
    BY <1>2, <2>1, <2>2, PoolIsFinite, PoolAssumption
  <2> QED BY <2>2, <2>3, PoolAssumption
<1>13. ASSUME UNCHANGED vars PROVE Rest /\ Room
  BY <1>2, <1>13 DEF vars, poolVars
<1> HIDE DEF Rest, Room
<1>14. Rest /\ Room
  BY <1>0, <1>4, <1>5, <1>6, <1>7, <1>10, <1>11, <1>12, <1>13 DEF Next, Acquire
<1> QED BY <1>1, <1>14 DEF Rest, Room

\* The empty pool has nothing to shut down, to order or to evict.
LEMMA RestInit == Init => PoolRest
<1> SUFFICES ASSUME Init PROVE PoolRest
  OBVIOUS
<1>1. Pooled(entry) = {} /\ Cardinality(Pooled(entry)) = 0
  BY FS_EmptySet DEF Init, Pooled
<1>2. \A h \in Handles : Claims(h) = {} /\ Cardinality(Claims(h)) = 0
  BY FS_EmptySet DEF Init, Claims, Claiming
<1>3. EvictionKeepsUp
  BY <1>1, <1>2, PoolAssumption DEF Init, EvictionKeepsUp, NothingIsPinned, Idle
<1>4. ShutdownIsFinal /\ OrderIsStrict /\ NothingLeaks
  BY DEF Init, ShutdownIsFinal, OrderIsStrict, NothingLeaks, Live, Handles
<1> QED BY <1>3, <1>4 DEF PoolRest

\* The rest of the invariant holds in every reachable state.
THEOREM PoolRestInvariance == Spec => []PoolRest
<1>1. Init => PoolRest
  BY RestInit
<1>2. PoolInv /\ PoolInv' /\ PoolRest /\ [Next]_vars => PoolRest'
  <2> SUFFICES ASSUME PoolInv, PoolInv', PoolRest, [Next]_vars PROVE PoolRest'
    OBVIOUS
  <2>1. ShutdownIsFinal' /\ OrderIsStrict'
    BY ShutdownStep, OrderStep DEF PoolRest
  <2>2. NothingLeaks'
    BY LeakStep DEF PoolRest
  <2>3. EvictionKeepsUp'
    BY <2>1, CapacityStep DEF PoolRest
  <2> QED BY <2>1, <2>2, <2>3 DEF PoolRest
<1> QED BY <1>1, <1>2, PoolInvariance, PTL DEF Spec

\* When close_all is done every handle is closed, but for those whose close was
\* cancelled while it was awaited.
THEOREM ShutdownClosesAllHolds == Spec => []ShutdownClosesAll
<1>1. PoolInv /\ PoolRest => ShutdownClosesAll
  BY PoolAssumption
     DEF PoolInv, TypeOK, PoolRest, ShutdownIsFinal, ShutdownClosesAll, NothingLeaks, InCharge,
         Live, Pooled, Handles
<1> QED BY <1>1, PoolInvariance, PoolRestInvariance, PTL

\* The pool forgets no handle, whatever is cancelled, but for those whose close
\* was cancelled while it was awaited.
THEOREM NothingLeaksHolds == Spec => []NothingLeaks
<1>1. PoolRest => NothingLeaks
  BY DEF PoolRest
<1> QED BY <1>1, PoolRestInvariance, PTL

\* As long as nobody cancels, in_use is exact and max_open is exceeded at rest
\* only while every handle is relied on.
THEOREM CapacityAtRestHolds == Spec => []CapacityAtRest
<1>1. PoolInv /\ PoolRest => CapacityAtRest
  BY PoolAssumption
     DEF PoolInv, PoolShape, GuardIsHeld, PoolRest, EvictionKeepsUp, CapacityAtRest, Holders,
         Evicting
<1> QED BY <1>1, PoolInvariance, PoolRestInvariance, PTL

-----------------------------------------------------------------------------
(***************************************************************************)
(* The pool implements KeyedLease                                          *)
(***************************************************************************)

\* The reader of a key is the request that reads it.
LEMMA ReaderOfKey ==
  PoolInv =>
    /\ \A r \in Requests : pc[r] = "reading" => Reader(key[r]) = r /\ key[r] \in Keys
    /\ \A k \in Keys :
         Reader(k) = None <=> \A r \in Requests : ~(pc[r] = "reading" /\ key[r] = k)
<1> SUFFICES ASSUME PoolInv
             PROVE  /\ \A r \in Requests :
                         pc[r] = "reading" => Reader(key[r]) = r /\ key[r] \in Keys
                    /\ \A k \in Keys : Reader(k) = None
                         <=> \A r \in Requests : ~(pc[r] = "reading" /\ key[r] = k)
  OBVIOUS
<1>1. ASSUME NEW r \in Requests, pc[r] = "reading"
      PROVE  Reader(key[r]) = r /\ key[r] \in Keys
  <2>1. ReadersOf(key[r]) = {r}
    BY <1>1, ReadsAreExclusive DEF ExclusiveRead, ReadersOf
  <2>2. key[r] \in Keys
    BY <1>1 DEF PoolInv, PoolShape, ClaimsHaveEntries
  <2> QED BY <2>1, <2>2 DEF Reader, AnyOf
<1>2. ASSUME NEW k \in Keys, \A r \in Requests : ~(pc[r] = "reading" /\ key[r] = k)
      PROVE  Reader(k) = None
  <2>1. ReadersOf(k) = {}
    BY <1>2 DEF ReadersOf
  <2> QED BY <2>1 DEF Reader
<1> QED BY <1>1, <1>2, PoolAssumption

\* The empty pool is a lease nobody holds.
LEMMA LeaseInit == Init => Lease!Init
<1> SUFFICES ASSUME Init PROVE Lease!Init
  OBVIOUS
<1>1. \A k \in Keys : ReadersOf(k) = {}
  BY DEF Init, ReadersOf
<1>2. \A k \in Keys : Reader(k) = None
  BY <1>1 DEF Reader
<1>3. \A k \in Keys : entry[k] = None
  BY DEF Init
<1> QED BY <1>2, <1>3 DEF Lease!Init

\* A step that starts and ends no read closes no handle somebody reads.
LEMMA LeaseTurnover ==
  ASSUME PoolInv, PoolInv',
         \A r \in Requests : /\ pc'[r] = "reading" <=> pc[r] = "reading"
                             /\ pc[r] = "reading" => key'[r] = key[r]
  PROVE  Lease!Turnover
<1>1. ASSUME NEW k \in Keys PROVE Reader(k)' = Reader(k)
  <2>1. ReadersOf(k)' = ReadersOf(k)
    BY DEF ReadersOf
  <2> QED BY <2>1 DEF Reader
<1>2. ASSUME NEW k \in Keys, Reader(k) # None
      PROVE  entry'[k] # None /\ handle'[entry'[k]] = "open"
  <2>1. PICK r \in Requests : pc[r] = "reading" /\ key[r] = k
    BY <1>2, ReaderOfKey
  <2>2. entry'[key'[r]] = got'[r] /\ handle'[got'[r]] = "open" /\ got'[r] \in Handles
    <3>1. (PoolInv => ReadersHaveOpenHandle)'
      BY ReadersHaveHandles, PTL
    <3> QED BY <2>1, <3>1 DEF ReadersHaveOpenHandle, PoolInv, PoolShape, ClaimsHaveEntries,
        Claiming
  <2> QED BY <2>1, <2>2, PoolAssumption DEF Handles
<1> QED BY <1>1, <1>2 DEF Lease!Turnover

\* Every step of the pool is a step of the lease or leaves it alone.
LEMMA LeaseStep ==
  ASSUME PoolInv, PoolInv', [Next]_vars
  PROVE  [Lease!Next]_Lease!leaseVars
<1> DEFINE SameReads == \A r \in Requests : /\ pc'[r] = "reading" <=> pc[r] = "reading"
                                            /\ pc[r] = "reading" => key'[r] = key[r]
<1>1. ASSUME NEW r \in Requests, LockEntry(r) PROVE Lease!Grant(key[r], r) /\ key[r] \in Keys
  <2>1. /\ pc[r] = "lock" /\ pc' = [pc EXCEPT ![r] = "reading"]
        /\ UNCHANGED <<entry, handle, key, got>> /\ ~EntryLocked(got[r])
    BY <1>1 DEF LockEntry, poolVars
  <2>2. key[r] \in Keys /\ entry[key[r]] = got[r] /\ got[r] \in Handles
    BY <2>1 DEF PoolInv, PoolShape, ClaimsHaveEntries, Claiming
  <2>3. Reader(key[r]) = None
    BY <2>1, <2>2, ReaderOfKey DEF EntryLocked, PoolInv, PoolShape, ClaimsHaveEntries, Claiming
  <2>4. pc'[r] = "reading" /\ \A q \in Requests \ {r} : pc'[q] = pc[q]
    BY <2>1 DEF PoolInv, TypeOK
  <2>5. (PoolInv => ReadersHaveOpenHandle)'
    BY ReadersHaveHandles, PTL
  <2>6. entry[key[r]] # None /\ handle[entry[key[r]]] = "open"
    BY <2>1, <2>2, <2>4, <2>5, PoolAssumption DEF ReadersHaveOpenHandle, Handles
  <2>7. ASSUME NEW k \in Keys, k = key[r] PROVE Reader(k)' = r
    <3>1. ReadersOf(k) = {}
      BY <2>3, <2>7, ReaderOfKey DEF ReadersOf
    <3>2. ReadersOf(k)' = {r}
      BY <2>1, <2>4, <2>7, <3>1 DEF ReadersOf
    <3> QED BY <3>2 DEF Reader, AnyOf
  <2>8. ASSUME NEW k \in Keys, k # key[r] PROVE Reader(k)' = Reader(k)
    <3>1. ReadersOf(k)' = ReadersOf(k)
      BY <2>1, <2>4, <2>8 DEF ReadersOf
    <3> QED BY <3>1 DEF Reader
  <2> QED BY <2>1, <2>2, <2>3, <2>6, <2>7, <2>8 DEF Lease!Grant
<1>2. ASSUME NEW r \in Requests, pc[r] = "reading", pc'[r] # "reading",
             \A q \in Requests \ {r} : pc'[q] = pc[q],
             UNCHANGED <<entry, handle, key>>
      PROVE  Lease!Return(key[r]) /\ key[r] \in Keys
  <2>1. key[r] \in Keys /\ Reader(key[r]) = r
    BY <1>2, ReaderOfKey
  <2>2. ASSUME NEW k \in Keys, k = key[r] PROVE ReadersOf(k)' = {}
    BY <1>2, <2>2, ReadsAreExclusive DEF ExclusiveRead, ReadersOf
  <2>3. ASSUME NEW k \in Keys, k = key[r] PROVE Reader(k)' = None
    BY <2>2, <2>3 DEF Reader
  <2>4. ASSUME NEW k \in Keys, k # key[r] PROVE Reader(k)' = Reader(k)
    <3>1. ReadersOf(k)' = ReadersOf(k)
      BY <1>2, <2>4 DEF ReadersOf
    <3> QED BY <3>1 DEF Reader
  <2> QED BY <1>2, <2>1, <2>3, <2>4, PoolAssumption DEF Lease!Return
<1>3. CASE SameReads
  BY <1>3, LeaseTurnover DEF Lease!Next
<1>4. ASSUME NEW r \in Requests, EndRead(r) PROVE Lease!Return(key[r]) /\ key[r] \in Keys
  BY <1>2, <1>4 DEF EndRead, poolVars, PoolInv, TypeOK
<1>5. ASSUME NEW r \in Requests, CancelHolder(r), pc[r] = "reading"
      PROVE  Lease!Return(key[r]) /\ key[r] \in Keys
  BY <1>2, <1>5 DEF CancelHolder, CancelAt, PoolInv, TypeOK
<1>6. ASSUME NEW r \in Requests, CancelHolder(r), pc[r] # "reading" PROVE SameReads
  BY <1>6 DEF CancelHolder, CancelAt, PoolInv, TypeOK
<1>7. ASSUME NEW r \in Requests,
             \/ \E k \in Keys : Begin(r, k)
             \/ CheckoutHit(r) \/ CheckoutMiss(r) \/ OpenReturns(r) \/ CommitLoser(r)
             \/ LoserClosed(r) \/ OwnClosed(r)
      PROVE  SameReads
  BY <1>7 DEF Begin, CheckoutHit, CheckoutMiss, OpenReturns, CommitLoser, LoserClosed, OwnClosed,
         PoolInv, TypeOK
<1>8. ASSUME NEW r \in Requests, CommitNew(r) \/ EvictionGoesOn(r) \/ Release(r)
      PROVE  SameReads
  BY <1>8 DEF CommitNew, EvictionGoesOn, Release, Enforce, PoolInv, TypeOK
<1>9. ASSUME NEW r \in Requests,
             \/ CancelEarly(r) \/ CancelOpening(r) \/ CancelCommit(r) \/ CancelCloseOwn(r)
             \/ CancelLoser(r) \/ CancelEviction(r) \/ CancelRelease(r)
      PROVE  SameReads
  BY <1>9 DEF CancelEarly, CancelOpening, CancelCommit, CancelCloseOwn, CancelLoser,
      CancelEviction,
         CancelRelease, CancelAt, PoolInv, TypeOK
<1>10. ASSUME NEW h \in Requests, Background(h) PROVE SameReads
  BY <1>10 DEF Background, ThreadOpens, ThreadCloses, OrphanCloses, OrphanEnds, reqVars
<1>11. ASSUME \/ \E stale \in SUBSET Keys : EvictIdle(stale)
              \/ CloseAll \/ SweepGoesOn \/ UNCHANGED vars
       PROVE  SameReads
  BY <1>11 DEF EvictIdle, CloseAll, StartSweep, SweepGoesOn, vars, reqVars
<1> HIDE DEF SameReads
<1> QED
  BY <1>1, <1>3, <1>4, <1>5, <1>6, <1>7, <1>8, <1>9, <1>10, <1>11
     DEF Next, Acquire, Cancel, Lease!Next

\* Whatever happens to its entries, the pool hands a key to one reader at a
\* time, with a handle that stays open.
THEOREM ImplementsKeyedLease == Spec => LeaseSpec
<1>1. Init => Lease!Init
  BY LeaseInit
<1>2. PoolInv /\ PoolInv' /\ [Next]_vars => [Lease!Next]_Lease!leaseVars
  BY LeaseStep
<1> QED BY <1>1, <1>2, PoolInvariance, PTL DEF Spec, LeaseSpec, Lease!Spec
=============================================================================
