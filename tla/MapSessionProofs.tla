-------------------------- MODULE MapSessionProofs --------------------------
(***************************************************************************)
(* What the map's memory and its thumbnails guarantee for any number of    *)
(* layers, projects, windows, requests and gestures, and any sizes.        *)
(***************************************************************************)
EXTENDS MapSession, FiniteSetTheorems, TLAPS

-----------------------------------------------------------------------------
(***************************************************************************)
(* Fresh numbers, finite sets.                                             *)
(***************************************************************************)

\* Fresh returns a number that was not used.
LEMMA FreshIsNew ==
  ASSUME NEW S, IsFiniteSet(S)
  PROVE  Fresh(S) \in Nat /\ Fresh(S) \notin S
<1>1. Cardinality(S) \in Nat
  BY FS_CardinalityType
<1>2. \E n \in 0 .. Cardinality(S) : n \notin S
  <2> SUFFICES ASSUME 0 .. Cardinality(S) \in SUBSET S PROVE FALSE
    OBVIOUS
  <2>1. Cardinality(0 .. Cardinality(S)) = Cardinality(S) + 1
    BY <1>1, FS_Interval
  <2>2. Cardinality(0 .. Cardinality(S)) <= Cardinality(S)
    BY FS_Subset
  <2> QED BY <1>1, <2>1, <2>2
<1> QED BY <1>1, <1>2 DEF Fresh

\* A finite set of requests mentions finitely many sources of a layer, the
\* live one, the registered one and those asked for among them.
LEMMA GensAreFinite ==
  ASSUME IsFiniteSet(requests), NEW l \in Layers
  PROVE  /\ IsFiniteSet(Gens(l))
         /\ source[l].gen \in Gens(l)
         /\ \A r \in requests : r.layer = l => r.gen \in Gens(l)
<1> DEFINE Mine == {q \in requests : q.layer = l}
           Asking == {r.gen : r \in Mine}
           GenOf == [r \in Mine |-> r.gen]
<1>1. IsFiniteSet(Mine)
  BY FS_Subset
<1>2. GenOf \in Surjection(Mine, Asking)
  BY DEF Surjection
<1>3. IsFiniteSet(Asking)
  BY <1>1, <1>2, FS_Surjection
<1>4. IsFiniteSet({source[l].gen}) /\ IsFiniteSet(IF Registered(l) THEN {entry[l].clears} ELSE {})
  BY FS_Singleton, FS_EmptySet
<1>5. IsFiniteSet(Gens(l))
  BY <1>3, <1>4, FS_Union DEF Gens
<1> QED BY <1>5 DEF Gens

-----------------------------------------------------------------------------
(***************************************************************************)
(* The inductive invariant.                                                *)
(***************************************************************************)
Lists == [Layers -> Tiers \cup {None}]

MemoryTyped ==
  /\ source \in [Layers -> Sources] /\ entry \in [Layers -> Entries \cup {None}]
  /\ requests \subseteq Requests /\ IsFiniteSet(requests)
  /\ layers \in Lists /\ selected \in Layers \cup {None}

SessionTyped ==
  /\ view \in Windows /\ initialView \in Windows \cup {None}
  /\ url \in [view : Windows \cup {None}, sel : Layers \cup {None}, picked : BOOLEAN]
  /\ picked \in BOOLEAN
  /\ project \in Projects \cup {None} /\ capture \in Projects \cup {None}
  /\ known \in [Projects -> Lists \cup {None}]
  /\ thumbnail \in [Projects -> SUBSET Layers]

\* What is on the map is in the list, and registered.
MapIsRegistered == \A l \in Layers : source[l].on => Registered(l) /\ layers[l] # None

\* A request is of a registered layer; of the live source, it asks for that
\* source's kind of answer.
RequestsFitSource ==
  \A r \in requests :
    /\ Registered(r.layer)
    /\ r.gen = source[r.layer].gen => r.tier = source[r.layer].tier

\* The manager clears the live source; a source it does not know is empty.
ClearsTheSource ==
  \A l \in Layers : IF Registered(l) THEN entry[l].clears = source[l].gen ELSE source[l].held = {}

\* The selected layer is pinned, unless it was selected before it was there.
SelectedIsPinned ==
  selected # None /\ ~early => Registered(selected) /\ entry[selected].pinned

MemoryInv ==
  /\ MapIsRegistered /\ RequestsFitSource /\ ClearsTheSource /\ SelectedIsPinned
  /\ ChargedCoversHeld

\* Outside a project there is no map; inside, its layers are the project's, as
\* are those of every list; the timer is for the project of the route.
IsListOf(list, p) == \A l \in Layers : list[l] # None => l \in LayersOf[p]
SessionInv ==
  /\ IF project = None THEN layers = NoList ELSE IsListOf(layers, project)
  /\ \A p \in Projects : known[p] # None => IsListOf(known[p], p)
  /\ capture \in {None, project}
  /\ ThumbnailIsOwn

MapInv == MemoryTyped /\ SessionTyped /\ MemoryInv /\ SessionInv

-----------------------------------------------------------------------------
(***************************************************************************)
(* The steps of the memory.                                                *)
(***************************************************************************)

\* One answer more is charged to a layer: it covers one window more.
LEMMA OneMoreWindow ==
  ASSUME NEW H, NEW w, IsFiniteSet(H), NEW s \in Nat, NEW b \in Nat, b >= s * Cardinality(H)
  PROVE  b + s >= s * Cardinality(H \cup {w})
<1> DEFINE c == Cardinality(H)
<1>1. c \in Nat
  BY FS_CardinalityType
<1>2. Cardinality(H \cup {w}) = c \/ Cardinality(H \cup {w}) = c + 1
  BY FS_AddElement
<1>3. s * (c + 1) = s * c + s /\ s * c \in Nat
  BY <1>1
<1> HIDE DEF c
<1> QED BY <1>1, <1>2, <1>3 DEF c

\* What a source holds is finite.
LEMMA HeldIsFinite ==
  ASSUME MemoryTyped, NEW l \in Layers
  PROVE  /\ IsFiniteSet(source[l].held)
         /\ Cardinality(source[l].held) \in Nat
         /\ Size[source[l].tier] \in Nat /\ Bytes(l) \in Nat
<1>1. source[l] \in Sources /\ entry[l] \in Entries \cup {None}
  BY DEF MemoryTyped
<1>2. IsFiniteSet(Windows \cup {All})
  BY MemoryBounds, FS_AddElement
<1>3. IsFiniteSet(source[l].held)
  BY <1>1, <1>2, FS_Subset DEF Sources
<1> QED BY <1>1, <1>3, FS_CardinalityType, MemoryBounds DEF Sources, Entries, Bytes, Registered

\* A source that holds nothing costs nothing.
LEMMA EmptyCosts ==
  ASSUME NEW s \in Nat PROVE s * Cardinality({}) = 0
  BY FS_EmptySet

\* enforce: an evicted layer is charged nothing, and its live source is emptied.
LEMMA EnforceStep ==
  ASSUME MemoryTyped, MemoryInv, Enforce
  PROVE  MemoryTyped' /\ MemoryInv'
<1>1. Evicted \subseteq Layers
  BY DEF Evicted, Candidates
<1>2. \A l \in Evicted : Registered(l) /\ entry[l] \in Entries
  BY DEF Evicted, Candidates, MemoryTyped, Registered
<1> DEFINE new(l) == [entry[l] EXCEPT !.bytes = 0]
<1>3. \A l \in Evicted :
        /\ new(l) \in Entries /\ new(l).clears = entry[l].clears /\ new(l).pinned = entry[l].pinned
        /\ new(l).bytes = 0
  BY <1>2 DEF Entries
<1>4. /\ entry' = [l \in Layers |-> IF l \in Evicted THEN new(l) ELSE entry[l]]
      /\ source' = [l \in Layers |-> IF l \in Evicted THEN Cleared(l) ELSE source[l]]
      /\ UNCHANGED <<layers, requests, selected, early>>
  BY DEF Enforce
<1>5. \A l \in Layers : source[l] \in Sources /\ entry[l] \in Entries \cup {None}
  BY DEF MemoryTyped
<1>6. \A l \in Evicted : /\ Cleared(l) \in Sources /\ Cleared(l).held = {}
                         /\ Cleared(l).gen = source[l].gen /\ Cleared(l).on = source[l].on
                         /\ Cleared(l).tier = source[l].tier
  BY <1>1, <1>2, <1>5 DEF Cleared, Sources, MemoryInv, ClearsTheSource
<1> HIDE DEF new
<1>7. MemoryTyped'
  BY <1>1, <1>3, <1>4, <1>5, <1>6 DEF MemoryTyped
<1>8. \A l \in Layers : Registered(l)' <=> Registered(l)
  BY <1>2, <1>3, <1>4, MemoryBounds DEF Registered, Entries
<1>9. MapIsRegistered' /\ RequestsFitSource' /\ ClearsTheSource'
  BY <1>1, <1>2, <1>3, <1>4, <1>6, <1>8
     DEF MemoryInv, MapIsRegistered, RequestsFitSource, ClearsTheSource, MemoryTyped, Requests
<1>10. SelectedIsPinned'
  BY <1>2, <1>3, <1>4, <1>8 DEF MemoryInv, SelectedIsPinned, Registered, MemoryTyped
<1>11. ChargedCoversHeld'
  <2> SUFFICES ASSUME NEW l \in Layers
               PROVE Bytes(l)' >= Size[source'[l].tier] * Cardinality(source'[l].held)
    BY DEF ChargedCoversHeld
  <2>1. CASE l \in Evicted
    <3>1. source'[l].held = {} /\ Size[source'[l].tier] \in Nat
      BY <2>1, <1>4, <1>6, MemoryBounds DEF Sources
    <3>2. Bytes(l)' = 0
      BY <2>1, <1>2, <1>3, <1>4, <1>8 DEF Bytes
    <3> QED BY <3>1, <3>2, EmptyCosts
  <2>2. CASE l \notin Evicted
    BY <2>2, <1>4, <1>8 DEF Bytes, MemoryInv, ChargedCoversHeld
  <2> QED BY <2>1, <2>2
<1> QED BY <1>7, <1>9, <1>10, <1>11 DEF MemoryInv

\* A request belongs to the source that was live when it was sent.
LEMMA AskStep ==
  ASSUME MemoryTyped, MemoryInv, view \in Windows, NEW l \in Layers, Ask(l)
  PROVE  MemoryTyped' /\ MemoryInv'
<1>1. /\ source[l] \in Sources /\ source[l].on
      /\ requests' = (requests \ Aborted(l)) \cup {Request(l)}
      /\ source' = [source EXCEPT ![l].marked = @ \cup {WindowOf(l)}]
      /\ UNCHANGED <<layers, entry, selected, early>>
  BY DEF Ask, Wanted, MemoryTyped
<1>2. WindowOf(l) \in Windows \cup {All}
  BY DEF WindowOf
<1>3. IsFiniteSet({r.no : r \in InFlight(l, source[l].gen)})
  <2> DEFINE S == InFlight(l, source[l].gen)
             T == {r.no : r \in S}
             f == [r \in S |-> r.no]
  <2>1. IsFiniteSet(S)
    BY FS_Subset DEF InFlight, MemoryTyped
  <2>2. f \in Surjection(S, T)
    BY DEF Surjection
  <2> QED BY <2>1, <2>2, FS_Surjection
<1>4. Request(l) \in Requests /\ Request(l).layer = l /\ Request(l).tier = source[l].tier
  BY <1>1, <1>2, <1>3, FreshIsNew DEF Request, Requests, Sources
<1>5. requests' \subseteq Requests /\ IsFiniteSet(requests')
  BY <1>1, <1>4, FS_Subset, FS_AddElement DEF MemoryTyped
<1> DEFINE new == [source[l] EXCEPT !.marked = @ \cup {WindowOf(l)}]
<1>6. /\ new \in Sources /\ new.on = source[l].on /\ new.gen = source[l].gen
      /\ new.tier = source[l].tier /\ new.held = source[l].held
  BY <1>1, <1>2 DEF Sources
<1>7. source' = [source EXCEPT ![l] = new]
  BY <1>1
<1> HIDE DEF new
<1>8. MemoryTyped'
  BY <1>1, <1>5, <1>6, <1>7 DEF MemoryTyped
<1>9. \A m \in Layers : /\ source'[m].on = source[m].on /\ source'[m].gen = source[m].gen
                        /\ source'[m].tier = source[m].tier /\ source'[m].held = source[m].held
                        /\ Registered(m)' = Registered(m) /\ Bytes(m)' = Bytes(m)
  BY <1>1, <1>6, <1>7 DEF MemoryTyped, Registered, Bytes
<1>10. MapIsRegistered' /\ ClearsTheSource' /\ SelectedIsPinned' /\ ChargedCoversHeld'
  BY <1>1, <1>9
     DEF MemoryInv, MapIsRegistered, ClearsTheSource, SelectedIsPinned, ChargedCoversHeld, Registered
<1>11. RequestsFitSource'
  <2>1. \A r \in requests' : r.layer \in Layers /\ (r \in requests \/ r = Request(l))
    BY <1>1, <1>4, <1>5 DEF Requests
  <2> QED BY <1>1, <1>4, <1>9, <2>1 DEF MemoryInv, RequestsFitSource, MapIsRegistered
<1> QED BY <1>8, <1>10, <1>11 DEF MemoryInv

\* An answer of the live source is charged as it is added to it; a late one is
\* charged and dropped.
LEMMA AnsweredStep ==
  ASSUME MemoryTyped, MemoryInv, NEW r \in requests, Answered(r)
  PROVE  MemoryTyped' /\ MemoryInv'
<1> DEFINE l == r.layer
           charged == [entry[l] EXCEPT !.bytes = @ + Size[r.tier]]
           filled == [source[l] EXCEPT !.held = @ \cup {r.window}]
           live == source[l].gen = r.gen
<1>1. r \in Requests /\ l \in Layers /\ r.tier \in Tiers /\ r.window \in Windows \cup {All}
  BY DEF MemoryTyped, Requests
<1>2. Registered(l) /\ entry[l] \in Entries /\ source[l] \in Sources /\ Size[r.tier] \in Nat
  BY <1>1, MemoryBounds DEF MemoryInv, RequestsFitSource, MemoryTyped, Registered
<1>3. /\ requests' = requests \ {r}
      /\ entry' = [entry EXCEPT ![l] = charged]
      /\ source' = IF live THEN [source EXCEPT ![l] = filled] ELSE source
      /\ UNCHANGED <<layers, selected, early>>
  BY <1>2 DEF Answered, Recorded
<1>4. /\ charged \in Entries /\ charged.bytes = entry[l].bytes + Size[r.tier]
      /\ charged.clears = entry[l].clears /\ charged.pinned = entry[l].pinned /\ charged # None
  <2>1. /\ charged \in Entries /\ charged.bytes = entry[l].bytes + Size[r.tier]
        /\ charged.clears = entry[l].clears /\ charged.pinned = entry[l].pinned
    BY <1>2 DEF Entries
  <2> QED BY <2>1, MemoryBounds DEF Entries
<1>5. /\ filled \in Sources /\ filled.held = source[l].held \cup {r.window}
      /\ filled.gen = source[l].gen /\ filled.on = source[l].on /\ filled.tier = source[l].tier
  BY <1>1, <1>2 DEF Sources
<1> HIDE DEF charged, filled, live
<1>6. IsFiniteSet(requests') /\ requests' \subseteq requests
  BY <1>3, FS_Subset DEF MemoryTyped
<1>7. MemoryTyped'
  BY <1>1, <1>3, <1>4, <1>5, <1>6 DEF MemoryTyped
<1>8. \A m \in Layers : /\ source'[m].on = source[m].on /\ source'[m].gen = source[m].gen
                        /\ source'[m].tier = source[m].tier /\ (Registered(m)' <=> Registered(m))
  BY <1>1, <1>2, <1>3, <1>4, <1>5 DEF MemoryTyped, Registered
<1>9. MapIsRegistered'
  BY <1>3, <1>8 DEF MemoryInv, MapIsRegistered
<1>10. RequestsFitSource'
  <2>1. \A q \in requests' : q \in requests /\ q.layer \in Layers
    BY <1>6 DEF MemoryTyped, Requests
  <2> QED BY <1>8, <2>1 DEF MemoryInv, RequestsFitSource
<1>11. ClearsTheSource'
  <2> SUFFICES ASSUME NEW m \in Layers
               PROVE IF Registered(m)' THEN entry'[m].clears = source'[m].gen ELSE source'[m].held = {}
    BY DEF ClearsTheSource
  <2>1. CASE m = l
    BY <2>1, <1>1, <1>2, <1>3, <1>4, <1>8 DEF MemoryInv, ClearsTheSource, MemoryTyped
  <2>2. CASE m # l
    BY <2>2, <1>3, <1>8 DEF MemoryInv, ClearsTheSource, MemoryTyped
  <2> QED BY <2>1, <2>2
<1>12. SelectedIsPinned'
  BY <1>1, <1>3, <1>4, <1>8 DEF MemoryInv, SelectedIsPinned, Registered, MemoryTyped
<1>13. ChargedCoversHeld'
  <2> SUFFICES ASSUME NEW m \in Layers
               PROVE Bytes(m)' >= Size[source'[m].tier] * Cardinality(source'[m].held)
    BY DEF ChargedCoversHeld
  <2>1. Bytes(m) >= Size[source[m].tier] * Cardinality(source[m].held)
    BY DEF MemoryInv, ChargedCoversHeld
  <2>2. CASE m # l
    BY <2>1, <2>2, <1>3, <1>8 DEF MemoryTyped, Bytes, Registered
  <2>3. CASE m = l /\ live
    <3>1. r.tier = source[l].tier
      BY <2>3, <1>1 DEF MemoryInv, RequestsFitSource, live
    <3>2. Bytes(m)' = Bytes(m) + Size[source[l].tier]
      BY <2>3, <3>1, <1>1, <1>2, <1>3, <1>4, <1>8 DEF Bytes, MemoryTyped
    <3>3. source'[m].held = source[l].held \cup {r.window} /\ source'[m].tier = source[l].tier
      BY <2>3, <1>1, <1>3, <1>5, <1>8 DEF MemoryTyped
    <3> DEFINE s == Size[source[l].tier]
               H == source[l].held
               b == Bytes(l)
    <3>4. IsFiniteSet(H) /\ s \in Nat /\ b \in Nat /\ b >= s * Cardinality(H)
      BY <2>1, <2>3, <1>1, HeldIsFinite
    <3>5. Bytes(m)' = b + s /\ Size[source'[m].tier] = s /\ source'[m].held = H \cup {r.window}
      BY <2>3, <3>2, <3>3
    <3> HIDE DEF s, H, b
    <3>6. b + s >= s * Cardinality(H \cup {r.window})
      BY <3>4, OneMoreWindow
    <3> QED BY <3>5, <3>6
  <2>4. CASE m = l /\ ~live
    <3>1. Bytes(m)' = Bytes(m) + Size[r.tier]
      BY <2>4, <1>1, <1>2, <1>3, <1>4, <1>8 DEF Bytes, MemoryTyped
    <3>2. source'[m] = source[m]
      BY <2>4, <1>3
    <3>3. Bytes(m)' >= Bytes(m) /\ Bytes(m)' \in Nat /\ Bytes(m) \in Nat
      BY <3>1, <1>2, HeldIsFinite
    <3>4. Size[source[m].tier] * Cardinality(source[m].held) \in Nat
      BY HeldIsFinite
    <3> HIDE DEF l
    <3> QED BY <2>1, <3>2, <3>3, <3>4
  <2> QED BY <2>2, <2>3, <2>4
<1> QED BY <1>7, <1>9, <1>10, <1>11, <1>12, <1>13 DEF MemoryInv

\* A request that fails charges nothing and adds nothing.
LEMMA FailStep ==
  ASSUME MemoryTyped, MemoryInv, NEW r \in requests, Fail(r)
  PROVE  MemoryTyped' /\ MemoryInv'
<1>1. IsFiniteSet(requests') /\ requests' \subseteq requests
  BY FS_Subset DEF Fail, MemoryTyped
<1>2. MemoryTyped'
  BY <1>1 DEF Fail, MemoryTyped
<1>3. MemoryInv'
  BY <1>1 DEF Fail, MemoryInv, MapIsRegistered, RequestsFitSource, ClearsTheSource,
     SelectedIsPinned, ChargedCoversHeld, Registered, Bytes
<1> QED BY <1>2, <1>3

\* register: the entry clears the new source, and keeps what was charged and
\* the pin.
LEMMA RegisterKeeps ==
  ASSUME MemoryTyped, NEW l \in Layers, NEW gen \in Nat
  PROVE  /\ Register(l, gen) \in Entries /\ Register(l, gen).clears = gen
         /\ Registered(l) => /\ Register(l, gen).bytes = entry[l].bytes
                             /\ Register(l, gen).pinned = entry[l].pinned
         /\ ~Registered(l) => Register(l, gen).bytes = 0
<1>1. entry[l] \in Entries \cup {None}
  BY DEF MemoryTyped
<1>2. CASE Registered(l)
  BY <1>1, <1>2 DEF Register, Registered, Entries
<1>3. CASE ~Registered(l)
  BY <1>3 DEF Register, Entries
<1> QED BY <1>2, <1>3

\* syncLayers: a built source is new to the manager and to the requests in
\* flight, and a kept one keeps its entry.
LEMMA SyncStep ==
  ASSUME MemoryTyped, MemoryInv, NEW list \in Lists, SyncLayers(list)
  PROVE  MemoryTyped' /\ MemoryInv'
<1> DEFINE new(l) == Built(l, list[l])
           reg(l) == Register(l, new(l).gen)
           kept(l) == [source[l] EXCEPT !.on = list[l] # None]
           built(l) == IsBuilt(l, list)
<1>1. /\ layers' = list /\ UNCHANGED <<requests, selected, early>>
      /\ source' = [l \in Layers |-> IF built(l) THEN new(l) ELSE kept(l)]
      /\ entry' = [l \in Layers |-> IF built(l) THEN reg(l) ELSE entry[l]]
  BY DEF SyncLayers
<1>2. ASSUME NEW l \in Layers, built(l)
      PROVE  /\ new(l) \in Sources /\ new(l).held = {} /\ new(l).gen \in Nat /\ list[l] # None
             /\ \A r \in requests : r.layer = l => r.gen # new(l).gen
             /\ reg(l) \in Entries /\ reg(l).clears = new(l).gen
             /\ Registered(l) => reg(l).bytes = entry[l].bytes /\ reg(l).pinned = entry[l].pinned
             /\ ~Registered(l) => reg(l).bytes = 0
  <2>1. list[l] \in Tiers
    BY <1>2 DEF Lists, IsBuilt
  <2>2. Fresh(Gens(l)) \in Nat /\ Fresh(Gens(l)) \notin Gens(l)
    BY GensAreFinite, FreshIsNew DEF MemoryTyped
  <2>3. /\ new(l) \in Sources /\ new(l).held = {} /\ new(l).gen = Fresh(Gens(l))
    BY <2>1, <2>2 DEF Built, Sources
  <2>4. \A r \in requests : r.layer = l => r.gen # Fresh(Gens(l))
    BY <2>2, GensAreFinite DEF MemoryTyped
  <2> HIDE DEF new
  <2>5. list[l] # None
    BY <1>2 DEF IsBuilt
  <2> QED BY <2>2, <2>3, <2>4, <2>5, RegisterKeeps
<1>3. ASSUME NEW l \in Layers
      PROVE  /\ kept(l) \in Sources /\ kept(l).gen = source[l].gen /\ kept(l).held = source[l].held
             /\ kept(l).tier = source[l].tier /\ kept(l).on = (list[l] # None)
  <2>1. source[l] \in Sources
    BY DEF MemoryTyped
  <2> QED BY <2>1 DEF Sources
<1>4. ASSUME NEW l \in Layers, ~built(l), list[l] # None
      PROVE  Registered(l)
  BY <1>4 DEF IsBuilt, MemoryInv, MapIsRegistered
<1> HIDE DEF new, reg, kept, built
<1>5. MemoryTyped'
  BY <1>1, <1>2, <1>3 DEF MemoryTyped
<1>6. \A l \in Layers : /\ built(l) => Registered(l)'
                        /\ ~built(l) => (Registered(l)' <=> Registered(l))
  BY <1>1, <1>2, MemoryBounds DEF Registered, Entries
<1>7. MapIsRegistered'
  BY <1>1, <1>2, <1>3, <1>4, <1>6 DEF MapIsRegistered
<1>8. RequestsFitSource'
  <2> SUFFICES ASSUME NEW r \in requests
               PROVE /\ Registered(r.layer)'
                     /\ r.gen = source'[r.layer].gen => r.tier = source'[r.layer].tier
    BY <1>1 DEF RequestsFitSource
  <2>1. r.layer \in Layers /\ Registered(r.layer)
    BY DEF MemoryTyped, Requests, MemoryInv, RequestsFitSource
  <2>2. CASE built(r.layer)
    BY <2>1, <2>2, <1>1, <1>2, <1>6
  <2>3. CASE ~built(r.layer)
    BY <2>1, <2>3, <1>1, <1>3, <1>6 DEF MemoryInv, RequestsFitSource
  <2> QED BY <2>2, <2>3
<1>9. ClearsTheSource'
  <2> SUFFICES ASSUME NEW l \in Layers
               PROVE IF Registered(l)' THEN entry'[l].clears = source'[l].gen ELSE source'[l].held = {}
    BY DEF ClearsTheSource
  <2>1. CASE built(l)
    BY <2>1, <1>1, <1>2, <1>6
  <2>2. CASE ~built(l)
    BY <2>2, <1>1, <1>3, <1>6 DEF MemoryInv, ClearsTheSource
  <2> QED BY <2>1, <2>2
<1>10. SelectedIsPinned'
  <2> SUFFICES ASSUME selected # None, ~early
               PROVE Registered(selected)' /\ entry'[selected].pinned
    BY <1>1 DEF SelectedIsPinned
  <2>1. selected \in Layers /\ Registered(selected) /\ entry[selected].pinned
    BY DEF MemoryTyped, MemoryInv, SelectedIsPinned
  <2>2. CASE built(selected)
    BY <2>1, <2>2, <1>1, <1>2, <1>6
  <2>3. CASE ~built(selected)
    BY <2>1, <2>3, <1>1, <1>6
  <2> QED BY <2>2, <2>3
<1>11. ChargedCoversHeld'
  <2> SUFFICES ASSUME NEW l \in Layers
               PROVE Bytes(l)' >= Size[source'[l].tier] * Cardinality(source'[l].held)
    BY DEF ChargedCoversHeld
  <2>1. Bytes(l)' = Bytes(l)
    BY <1>1, <1>2, <1>6 DEF Bytes
  <2>2. CASE built(l)
    <3>1. source'[l].held = {} /\ Size[source'[l].tier] \in Nat
      BY <2>2, <1>1, <1>2, MemoryBounds DEF Sources
    <3> QED BY <2>1, <3>1, EmptyCosts, HeldIsFinite
  <2>3. CASE ~built(l)
    BY <2>1, <2>3, <1>1, <1>3 DEF MemoryInv, ChargedCoversHeld
  <2> QED BY <2>2, <2>3
<1> QED BY <1>5, <1>7, <1>8, <1>9, <1>10, <1>11 DEF MemoryInv

\* A new selection moves the pin, and knows whether there was something to pin.
LEMMA SelectingStep ==
  ASSUME MemoryTyped, MemoryInv, NEW l \in Layers, NEW feature, Selecting(l, feature),
         UNCHANGED <<layers, source, requests>>
  PROVE  MemoryTyped' /\ MemoryInv'
<1>1. CASE l = selected
  <2>1. UNCHANGED <<entry, selected, early>>
    BY <1>1 DEF Selecting
  <2> QED BY <2>1 DEF MemoryTyped, MemoryInv, MapIsRegistered, RequestsFitSource, ClearsTheSource,
             SelectedIsPinned, ChargedCoversHeld, Registered, Bytes
<1>2. CASE l # selected
  <2>1. entry' = Repinned(selected, l) /\ selected' = l /\ early' = ~Registered(l)
    BY <1>2 DEF Selecting
  <2>2. ASSUME NEW m \in Layers
        PROVE  /\ Registered(m)' <=> Registered(m)
               /\ entry'[m] \in Entries \cup {None}
               /\ Registered(m) => /\ entry'[m].bytes = entry[m].bytes
                                   /\ entry'[m].clears = entry[m].clears
                                   /\ m = l => entry'[m].pinned
    <3>1. entry[m] \in Entries \cup {None}
      BY DEF MemoryTyped
    <3>2. CASE ~Registered(m)
      BY <2>1, <3>2 DEF Repinned, Registered
    <3>3. CASE Registered(m)
      <4>1. entry[m] \in Entries
        BY <3>1, <3>3 DEF Registered
      <4> QED BY <2>1, <3>3, <4>1, MemoryBounds DEF Repinned, Registered, Entries
    <3> QED BY <3>2, <3>3
  <2>3. MemoryTyped'
    <3>1. entry' \in [Layers -> Entries \cup {None}]
      BY <2>1, <2>2 DEF Repinned
    <3> QED BY <2>1, <3>1 DEF MemoryTyped
  <2>4. \A m \in Layers : Bytes(m)' = Bytes(m)
    BY <2>2 DEF Bytes
  <2>5. MapIsRegistered' /\ ClearsTheSource' /\ ChargedCoversHeld'
    BY <2>2, <2>4 DEF MemoryInv, MapIsRegistered, ClearsTheSource, ChargedCoversHeld
  <2>6. RequestsFitSource'
    BY <2>2 DEF MemoryInv, RequestsFitSource, MemoryTyped, Requests
  <2>7. SelectedIsPinned'
    BY <2>1, <2>2 DEF SelectedIsPinned
  <2> QED BY <2>3, <2>5, <2>6, <2>7 DEF MemoryInv
<1> QED BY <1>1, <1>2

\* App mounts: every layer of the list is registered, empty, and pinned if it
\* is the selected one.
LEMMA MountedStep ==
  ASSUME NEW p, NEW cache, Data(p, cache) \in Lists, NEW u, NEW sel \in Layers \cup {None},
         NEW feature, Mounted(p, cache, u, sel, feature)
  PROVE  MemoryTyped' /\ MemoryInv'
<1> DEFINE list == Data(p, cache)
           present == {l \in Layers : list[l] # None}
           there(l) == [tier |-> list[l], on |-> TRUE, gen |-> 0, marked |-> {}, held |-> {}]
           entered(l) == [bytes |-> 0, pinned |-> l = sel, clears |-> 0]
<1>1. /\ layers' = list /\ requests' = {}
      /\ source' = [l \in Layers |-> IF l \in present THEN there(l) ELSE NoSource]
      /\ entry' = [l \in Layers |-> IF l \in present THEN entered(l) ELSE None]
      /\ selected' = sel /\ early' = (sel # None /\ sel \notin present)
  BY DEF Mounted
<1>2. \A l \in present : there(l) \in Sources /\ list[l] # None
  BY DEF Lists, Sources
<1>3. NoSource \in Sources /\ NoSource.held = {} /\ ~NoSource.on /\ NoSource.gen = 0
  BY DEF NoSource, Sources, Tiers
<1>4. \A l \in present : entered(l) \in Entries /\ entered(l) # None
  <2> SUFFICES ASSUME NEW l \in present PROVE entered(l) \in Entries
    BY MemoryBounds DEF Entries
  <2> DEFINE pin == l = sel
  <2>1. pin \in BOOLEAN
    OBVIOUS
  <2> HIDE DEF pin
  <2>2. [bytes |-> 0, pinned |-> pin, clears |-> 0] \in Entries
    BY <2>1 DEF Entries
  <2> QED BY <2>2 DEF pin
<1>5. \A l \in present : /\ entered(l).bytes = 0 /\ entered(l).pinned = (l = sel)
                         /\ entered(l).clears = 0
                         /\ there(l).gen = 0 /\ there(l).held = {}
  OBVIOUS
<1>6. present \subseteq Layers
  OBVIOUS
<1>7. list \in Lists
  OBVIOUS
<1> HIDE DEF list, present, there, entered
<1>8. MemoryTyped'
  BY <1>1, <1>2, <1>3, <1>4, <1>6, <1>7, FS_EmptySet DEF MemoryTyped
<1>9. \A l \in Layers : Registered(l)' <=> l \in present
  BY <1>1, <1>4 DEF Registered
<1>10. MapIsRegistered' /\ RequestsFitSource' /\ ClearsTheSource'
  BY <1>1, <1>2, <1>3, <1>5, <1>6, <1>9 DEF MapIsRegistered, RequestsFitSource, ClearsTheSource
<1>11. SelectedIsPinned'
  BY <1>1, <1>5, <1>6, <1>9 DEF SelectedIsPinned
<1>12. ChargedCoversHeld'
  <2> SUFFICES ASSUME NEW l \in Layers
               PROVE Bytes(l)' >= Size[source'[l].tier] * Cardinality(source'[l].held)
    BY DEF ChargedCoversHeld
  <2>1. source'[l].held = {} /\ source'[l] \in Sources
    BY <1>1, <1>2, <1>3, <1>5
  <2>2. Bytes(l)' = 0
    BY <1>1, <1>5, <1>9 DEF Bytes
  <2>3. Size[source'[l].tier] \in Nat
    BY <2>1, MemoryBounds DEF Sources
  <2> QED BY <2>1, <2>2, <2>3, EmptyCosts
<1> QED BY <1>8, <1>10, <1>11, <1>12 DEF MemoryInv

\* App unmounts: nothing is left to charge or to pin.
LEMMA LeaveStep ==
  ASSUME MemoryTyped, Leave
  PROVE  MemoryTyped' /\ MemoryInv'
<1>1. /\ layers' = NoList /\ source' = [l \in Layers |-> NoSource] /\ requests' = {}
      /\ entry' = [l \in Layers |-> None] /\ selected' = selected /\ early' = (selected # None)
  BY DEF Leave
<1>2. NoSource \in Sources /\ NoSource.held = {} /\ ~NoSource.on
  BY DEF NoSource, Sources, Tiers
<1>3. MemoryTyped'
  BY <1>1, <1>2, FS_EmptySet DEF MemoryTyped, Lists, NoList
<1>4. MapIsRegistered' /\ RequestsFitSource' /\ ClearsTheSource' /\ SelectedIsPinned'
  BY <1>1, <1>2
     DEF MapIsRegistered, RequestsFitSource, ClearsTheSource, SelectedIsPinned, Registered
<1>5. ChargedCoversHeld'
  <2> SUFFICES ASSUME NEW l \in Layers
               PROVE Bytes(l)' >= Size[source'[l].tier] * Cardinality(source'[l].held)
    BY DEF ChargedCoversHeld
  <2>1. source'[l].held = {} /\ Size[source'[l].tier] \in Nat /\ Bytes(l)' = 0
    BY <1>1, <1>2, MemoryBounds DEF Sources, Bytes, Registered
  <2> QED BY <2>1, EmptyCosts
<1> QED BY <1>3, <1>4, <1>5 DEF MemoryInv

-----------------------------------------------------------------------------
(***************************************************************************)
(* The steps of the session.                                               *)
(***************************************************************************)

\* What the query gives App is a list, and App's center is a window.
LEMMA DataIsTyped ==
  ASSUME NEW p \in Projects, NEW cache \in [Projects -> Lists \cup {None}],
         NEW initial \in Windows \cup {None}
  PROVE  Data(p, cache) \in Lists /\ Center(p, cache, initial) \in Windows
<1>1. cache[p] \in Lists \cup {None}
  OBVIOUS
<1>2. NoList \in Lists
  BY DEF NoList, Lists
<1> QED BY <1>1, <1>2, SessionBounds DEF Data, Center

\* What the query gives App is of its project.
LEMMA DataIsOwn ==
  ASSUME NEW p \in Projects, NEW cache, cache[p] # None => IsListOf(cache[p], p)
  PROVE  IsListOf(Data(p, cache), p)
BY DEF Data, NoList, IsListOf

\* An answer of the query is a list, of the project's layers.
LEMMA AnswersAreLists ==
  ASSUME SessionTyped, project # None, NEW list \in Answers(project)
  PROVE  /\ project \in Projects /\ list \in Lists
         /\ (known[project] # None => IsListOf(known[project], project)) => IsListOf(list, project)
<1>1. project \in Projects
  BY DEF SessionTyped
<1>2. CASE known[project] = None
  <2>1. PICK t \in {u \in [Layers -> Tiers] : \A l \in Layers : u[l] \in TiersOf[l]} :
               list = [l \in Layers |-> IF l \in LayersOf[project] THEN t[l] ELSE None]
    BY <1>2 DEF Answers
  <2> QED BY <1>1, <1>2, <2>1 DEF Lists, IsListOf
<1>3. CASE known[project] # None
  <2>1. known[project] \in Lists
    BY <1>1, <1>3 DEF SessionTyped
  <2>2. PICK l \in LayersOf[project], t \in Tiers \cup {None} :
               list = [known[project] EXCEPT ![l] = t]
    BY <1>3 DEF Answers
  <2>3. l \in Layers /\ list \in Lists
    BY <1>1, <2>1, <2>2, SessionBounds DEF Lists
  <2>4. \A m \in Layers \ {l} : list[m] = known[project][m]
    BY <2>1, <2>2 DEF Lists
  <2>5. IsListOf(known[project], project) => IsListOf(list, project)
    BY <2>2, <2>3, <2>4 DEF IsListOf
  <2> QED BY <1>1, <1>3, <2>3, <2>5
<1> QED BY <1>2, <1>3

\* The camera moves to a window, and the timer it starts is the route's.
LEMMA MovedToStep ==
  ASSUME SessionTyped, SessionInv, NEW w \in Windows, MovedTo(w), project' = project
  PROVE  /\ view' \in Windows
         /\ url' \in [view : Windows \cup {None}, sel : Layers \cup {None}, picked : BOOLEAN]
         /\ capture' \in Projects \cup {None} /\ capture' \in {None, project'}
  BY DEF MovedTo, SessionTyped, SessionInv

\* Every gesture, answer and change of route keeps the session's invariant.
LEMMA SessionStep ==
  ASSUME MemoryTyped, MapIsRegistered, SessionTyped, SessionInv, Next
  PROVE  SessionTyped' /\ SessionInv'
<1>1. CASE MemoryStep
  <2>1. UNCHANGED <<sessionVars, view, layers>>
    BY <1>1 DEF MemoryStep, Enforce, Ask, Answer, FeaturesArrive, TileArrives, Answered, Fail
  <2> QED BY <2>1 DEF SessionTyped, SessionInv, sessionVars, routeVars, ThumbnailIsOwn
<1>2. ASSUME NEW w \in Windows, UserMoves(w) \/ ZoomToFeature(w)
      PROVE  SessionTyped' /\ SessionInv'
  <2>1. MovedTo(w) /\ UNCHANGED <<layers, project, known, initialView, picked, thumbnail>>
    BY <1>2 DEF UserMoves, ZoomToFeature
  <2> QED BY <2>1, MovedToStep DEF SessionTyped, SessionInv, ThumbnailIsOwn
<1>3. ASSUME NEW l \in Layers, SelectLayer(l) \/ IdentifyFeature(l)
      PROVE  SessionTyped' /\ SessionInv'
  <2>1. PICK feature \in BOOLEAN : Selecting(l, feature)
    BY <1>3 DEF SelectLayer, IdentifyFeature
  <2>2. UNCHANGED <<layers, view, project, known, initialView, capture, thumbnail>>
    BY <1>3 DEF SelectLayer, IdentifyFeature, routeVars
  <2>3. /\ picked' \in BOOLEAN
        /\ url' \in [view : Windows \cup {None}, sel : Layers \cup {None}, picked : BOOLEAN]
    BY <2>1 DEF Selecting, SessionTyped
  <2> QED BY <2>2, <2>3 DEF SessionTyped, SessionInv, ThumbnailIsOwn
<1>4. CASE ClickNothing
  <2>1. UNCHANGED <<layers, view, project, known, initialView, capture, thumbnail>>
    BY <1>4 DEF ClickNothing, memoryVars
  <2>2. /\ picked' \in BOOLEAN
        /\ url' \in [view : Windows \cup {None}, sel : Layers \cup {None}, picked : BOOLEAN]
    BY <1>4 DEF ClickNothing, SessionTyped, MemoryTyped
  <2> QED BY <2>1, <2>2 DEF SessionTyped, SessionInv, ThumbnailIsOwn
<1>5. CASE CloseCard \/ RenderComplete
  <2>1. /\ UNCHANGED <<layers, view, project, known, initialView, picked, url, thumbnail>>
        /\ capture' \in {capture, project}
    BY <1>5 DEF CloseCard, RenderComplete, memoryVars
  <2> QED BY <2>1 DEF SessionTyped, SessionInv, ThumbnailIsOwn
<1>6. CASE Capture
  <2>1. /\ UNCHANGED <<layers, view, project, known, initialView, picked, url>>
        /\ capture # None /\ capture' = None
        /\ thumbnail' \in {thumbnail, [thumbnail EXCEPT ![capture] = Shown]}
    BY <1>6 DEF Capture, memoryVars
  <2>2. capture = project /\ project \in Projects
    BY <2>1 DEF SessionInv, SessionTyped
  <2>3. Shown \in SUBSET Layers /\ Shown \subseteq LayersOf[project]
    BY <2>1, <2>2, SessionBounds DEF Shown, MapIsRegistered, SessionInv, IsListOf
  <2> HIDE DEF Shown
  <2>4. thumbnail' \in [Projects -> SUBSET Layers] /\ ThumbnailIsOwn'
    BY <2>1, <2>2, <2>3 DEF SessionTyped, SessionInv, ThumbnailIsOwn
  <2> QED BY <2>1, <2>4 DEF SessionTyped, SessionInv
<1>7. ASSUME project # None, NEW list \in Answers(project), ListArrives(list)
      PROVE  SessionTyped' /\ SessionInv'
  <2> DEFINE cache == [known EXCEPT ![project] = list]
  <2>1. project \in Projects /\ list \in Lists /\ IsListOf(list, project)
    BY <1>7, AnswersAreLists DEF SessionInv, SessionTyped
  <2>2. cache \in [Projects -> Lists \cup {None}]
        /\ \A p \in Projects : cache[p] # None => IsListOf(cache[p], p)
    BY <2>1 DEF SessionTyped, SessionInv
  <2>3. /\ MovedTo(Landed(project, cache)) /\ known' = cache /\ layers' = list
        /\ UNCHANGED <<project, initialView, picked, thumbnail>>
    BY <1>7 DEF ListArrives, SyncLayers
  <2> HIDE DEF cache
  <2>4. Landed(project, cache) \in Windows
    BY <2>1, <2>2, DataIsTyped DEF Landed, SessionTyped
  <2> QED BY <1>7, <2>1, <2>2, <2>3, <2>4, MovedToStep DEF SessionTyped, SessionInv, ThumbnailIsOwn
<1>8. ASSUME NEW p \in Projects, NEW cache \in [Projects -> Lists \cup {None}],
             NEW u \in [view : Windows \cup {None}, sel : Layers \cup {None}, picked : BOOLEAN],
             NEW sel, NEW feature \in BOOLEAN,
             \A q \in Projects : cache[q] # None => IsListOf(cache[q], q),
             Mounted(p, cache, u, sel, feature), UNCHANGED thumbnail
      PROVE  SessionTyped' /\ SessionInv'
  <2>1. /\ project' = p /\ known' = cache /\ picked' = feature /\ url' = u
        /\ initialView' = u.view /\ view' = Center(p, cache, u.view) /\ capture' = None
        /\ layers' = Data(p, cache)
    BY <1>8 DEF Mounted
  <2>2. u.view \in Windows \cup {None} /\ p # None
    BY SessionBounds
  <2>3. Center(p, cache, u.view) \in Windows
    BY <2>2, DataIsTyped
  <2>4. IsListOf(Data(p, cache), p)
    BY <1>8, DataIsOwn
  <2> QED BY <1>8, <2>1, <2>2, <2>3, <2>4 DEF SessionTyped, SessionInv, ThumbnailIsOwn
<1>9. NoUrl \in [view : Windows \cup {None}, sel : Layers \cup {None}, picked : BOOLEAN]
  BY DEF NoUrl
<1>10. /\ [q \in Projects |-> None] \in [Projects -> Lists \cup {None}]
       /\ \A q \in Projects : [n \in Projects |-> None][q] = None
  OBVIOUS
<1>11. ASSUME NEW p \in Projects, Enter(p)
       PROVE  SessionTyped' /\ SessionInv'
  <2>1. /\ known \in [Projects -> Lists \cup {None}] /\ picked \in BOOLEAN
        /\ \A q \in Projects : known[q] # None => IsListOf(known[q], q)
    BY DEF SessionTyped, SessionInv
  <2> QED BY <1>8, <1>9, <1>11, <2>1 DEF Enter
<1>12. ASSUME NEW p \in Projects, NEW sel \in LayersOf[p], NEW w \in Windows \ {Home},
              FollowLink(p, sel, w)
       PROVE  SessionTyped' /\ SessionInv'
  <2>1. [view |-> w, sel |-> sel, picked |-> FALSE]
          \in [view : Windows \cup {None}, sel : Layers \cup {None}, picked : BOOLEAN]
    BY SessionBounds
  <2> QED BY <1>8, <1>10, <1>12, <2>1 DEF FollowLink
<1>13. CASE Reload
  <2>1. project \in Projects /\ url.picked \in BOOLEAN
        /\ url \in [view : Windows \cup {None}, sel : Layers \cup {None}, picked : BOOLEAN]
    BY <1>13 DEF Reload, SessionTyped
  <2> QED BY <1>8, <1>10, <1>13, <2>1 DEF Reload
<1>14. CASE Leave
  BY <1>9, <1>14 DEF Leave, SessionTyped, SessionInv, ThumbnailIsOwn
<1>15. ASSUME NEW p \in Projects, SwitchProject(p)
       PROVE  SessionTyped' /\ SessionInv'
  <2>1. /\ project' = p /\ view' = Landed(p, known) /\ capture' \in {None, p}
        /\ url' \in {NoUrl, [NoUrl EXCEPT !.view = view']} /\ layers' = Data(p, known)
        /\ UNCHANGED <<known, initialView, picked, thumbnail>>
    BY <1>15 DEF SwitchProject, Resubscribed, SyncLayers
  <2>2. Landed(p, known) \in Windows
    BY DataIsTyped DEF Landed, SessionTyped
  <2>3. url' \in [view : Windows \cup {None}, sel : Layers \cup {None}, picked : BOOLEAN]
    BY <1>9, <2>1, <2>2
  <2>4. IsListOf(Data(p, known), p) /\ p # None
    BY DataIsOwn, SessionBounds DEF SessionInv
  <2> QED BY <2>1, <2>2, <2>3, <2>4 DEF SessionTyped, SessionInv, ThumbnailIsOwn
<1> QED BY <1>1, <1>2, <1>3, <1>4, <1>5, <1>6, <1>7, <1>11, <1>12, <1>13, <1>14, <1>15 DEF Next

\* Every step of the session is a step of the memory that keeps its invariant.
LEMMA MemoryOfSessionStep ==
  ASSUME MapInv, Next
  PROVE  MemoryTyped' /\ MemoryInv'
<1> USE DEF MapInv
<1>1. CASE MemoryStep
  <2>1. view \in Windows
    BY DEF SessionTyped
  <2> QED BY <1>1, <2>1, EnforceStep, AskStep, AnsweredStep, FailStep
             DEF MemoryStep, Answer, FeaturesArrive, TileArrives
<1>2. ASSUME UNCHANGED <<layers, source, requests, entry, selected, early>>
      PROVE  MemoryTyped' /\ MemoryInv'
  BY <1>2 DEF MemoryTyped, MemoryInv, MapIsRegistered, RequestsFitSource, ClearsTheSource,
     SelectedIsPinned, ChargedCoversHeld, Registered, Bytes
<1>3. ASSUME NEW w \in Windows, UserMoves(w) \/ ZoomToFeature(w)
      PROVE  MemoryTyped' /\ MemoryInv'
  BY <1>2, <1>3 DEF UserMoves, ZoomToFeature
<1>4. CASE ClickNothing \/ CloseCard \/ RenderComplete \/ Capture
  BY <1>2, <1>4 DEF ClickNothing, CloseCard, RenderComplete, Capture, memoryVars
<1>5. ASSUME NEW l \in Layers, SelectLayer(l) \/ IdentifyFeature(l)
      PROVE  MemoryTyped' /\ MemoryInv'
  <2>1. PICK feature : Selecting(l, feature) /\ UNCHANGED <<layers, source, requests>>
    BY <1>5 DEF SelectLayer, IdentifyFeature
  <2> QED BY <2>1, SelectingStep
<1>6. ASSUME project # None, NEW list \in Answers(project), ListArrives(list)
      PROVE  MemoryTyped' /\ MemoryInv'
  BY <1>6, AnswersAreLists, SyncStep DEF ListArrives
<1>7. ASSUME NEW p \in Projects, SwitchProject(p)
      PROVE  MemoryTyped' /\ MemoryInv'
  <2>1. Data(p, known) \in Lists
    BY DataIsTyped DEF SessionTyped
  <2> QED BY <1>7, <2>1, SyncStep DEF SwitchProject
<1>8. ASSUME NEW p \in Projects, NEW cache \in [Projects -> Lists \cup {None}]
      PROVE  Data(p, cache) \in Lists
  <2>1. None \in Windows \cup {None}
    OBVIOUS
  <2> QED BY <2>1, DataIsTyped
<1>9. [q \in Projects |-> None] \in [Projects -> Lists \cup {None}]
  OBVIOUS
<1>10. ASSUME NEW p \in Projects, Enter(p)
       PROVE  MemoryTyped' /\ MemoryInv'
  <2>1. Data(p, known) \in Lists /\ selected \in Layers \cup {None}
    BY <1>8 DEF SessionTyped, MemoryTyped
  <2> QED BY <1>10, <2>1, MountedStep DEF Enter
<1>11. ASSUME NEW p \in Projects, NEW sel \in LayersOf[p], NEW w \in Windows, FollowLink(p, sel, w)
       PROVE  MemoryTyped' /\ MemoryInv'
  <2>1. sel \in Layers \cup {None}
    BY SessionBounds
  <2>2. Data(p, [q \in Projects |-> None]) \in Lists
    BY <1>8, <1>9
  <2> QED BY <1>11, <2>1, <2>2, MountedStep DEF FollowLink
<1>12. CASE Reload
  <2>1. project \in Projects /\ url.sel \in Layers \cup {None}
    BY <1>12 DEF Reload, SessionTyped
  <2>2. Data(project, [q \in Projects |-> None]) \in Lists
    BY <1>8, <1>9, <2>1
  <2> QED BY <1>12, <2>1, <2>2, MountedStep DEF Reload
<1>13. CASE Leave
  BY <1>13, LeaveStep
<1> QED BY <1>1, <1>3, <1>4, <1>5, <1>6, <1>7, <1>10, <1>11, <1>12, <1>13 DEF Next

\* The session starts outside every project, with nothing on the map.
LEMMA InitHasMapInv == Init => MapInv
<1> SUFFICES ASSUME Init PROVE MapInv
  OBVIOUS
<1>1. NoSource \in Sources /\ NoSource.held = {} /\ ~NoSource.on
  BY DEF NoSource, Sources, Tiers
<1>2. MemoryTyped
  BY <1>1, FS_EmptySet DEF Init, MemoryInit, MemoryTyped, Lists
<1>3. MapIsRegistered /\ RequestsFitSource /\ ClearsTheSource /\ SelectedIsPinned
  BY <1>1 DEF Init, MemoryInit, MapIsRegistered, RequestsFitSource, ClearsTheSource,
     SelectedIsPinned, Registered
<1>4. ChargedCoversHeld
  <2> SUFFICES ASSUME NEW l \in Layers
               PROVE Bytes(l) >= Size[source[l].tier] * Cardinality(source[l].held)
    BY DEF ChargedCoversHeld
  <2>1. source[l].held = {} /\ Size[source[l].tier] \in Nat /\ Bytes(l) = 0
    BY <1>1, MemoryBounds DEF Init, MemoryInit, Sources, Bytes, Registered
  <2> QED BY <2>1, EmptyCosts
<1>5. SessionTyped /\ SessionInv
  BY SessionBounds DEF Init, MemoryInit, SessionTyped, SessionInv, ThumbnailIsOwn, NoUrl, NoList
<1> QED BY <1>2, <1>3, <1>4, <1>5 DEF MapInv, MemoryInv

\* The memory's and the session's invariants hold in every state, for any
\* layers, projects, windows, sizes and budgets.
THEOREM MapInvariance == Spec => []MapInv
<1>1. MapInv /\ [Next]_vars => MapInv'
  <2> SUFFICES ASSUME MapInv, [Next]_vars PROVE MapInv'
    OBVIOUS
  <2>1. CASE Next
    BY <2>1, SessionStep, MemoryOfSessionStep DEF MapInv, MemoryInv
  <2>2. CASE UNCHANGED vars
    <3>1. UNCHANGED <<layers, view, source, requests, entry, selected, early, project, known,
                      initialView, picked, url, capture, thumbnail>>
      BY <2>2 DEF vars, memoryVars, sessionVars, routeVars
    <3> QED BY <3>1 DEF MapInv, MemoryTyped, SessionTyped, MemoryInv, SessionInv, MapIsRegistered,
               RequestsFitSource, ClearsTheSource, SelectedIsPinned, ChargedCoversHeld,
               Registered, Bytes, ThumbnailIsOwn
  <2> QED BY <2>1, <2>2
<1> QED BY <1>1, InitHasMapInv, PTL DEF Spec

\* The picture stored for a project shows that project's layers and no others,
\* wherever the route went, and whatever list arrived, while the timer ran.
THEOREM ThumbnailIsOwnHolds == Spec => []ThumbnailIsOwn
<1>1. MapInv => ThumbnailIsOwn
  BY DEF MapInv, SessionInv
<1> QED BY <1>1, MapInvariance, PTL

\* Evicting a layer gives back at least what its source holds, whatever
\* rebuilds, removals and late answers came between.
THEOREM ChargedCoversHeldHolds == Spec => []ChargedCoversHeld
<1>1. MapInv => ChargedCoversHeld
  BY DEF MapInv, MemoryInv
<1> QED BY <1>1, MapInvariance, PTL

-----------------------------------------------------------------------------
(***************************************************************************)
(* The pin.                                                                *)
(***************************************************************************)
Emptied(l) ==
  /\ layers' = layers /\ source[l].on
  /\ source[l].held # {} /\ source'[l].held = {} /\ source'[l].gen = source[l].gen
  /\ selected = l /\ selected' = l

\* A pinned layer is not evicted, and an answer only adds to it.
LEMMA MemoryKeepsPinned ==
  ASSUME MapInv, MemoryStep, NEW l \in Layers, Emptied(l), ~early
  PROVE  FALSE
<1> USE DEF MapInv, Emptied
<1>1. Registered(l) /\ entry[l].pinned
  BY MemoryBounds DEF MemoryInv, SelectedIsPinned
<1>2. l \notin Evicted
  BY <1>1 DEF Evicted, Candidates, Pinned
<1>3. CASE Enforce
  BY <1>2, <1>3 DEF Enforce
<1>4. ASSUME NEW m \in Layers, Ask(m) PROVE source'[l].held = source[l].held
  <2>1. source[m] \in Sources
    BY DEF MemoryTyped
  <2> QED BY <1>4, <2>1 DEF Ask, MemoryTyped, Sources
<1>5. ASSUME NEW r \in requests, Answered(r) PROVE source[l].held \subseteq source'[l].held
  <2>1. r.layer \in Layers /\ source[r.layer] \in Sources
    BY DEF MemoryTyped, Requests
  <2> QED BY <1>5, <2>1 DEF Answered, MemoryTyped, Sources
<1>6. ASSUME NEW r \in requests, Fail(r) PROVE source' = source
  BY <1>6 DEF Fail
<1> QED BY <1>3, <1>4, <1>5, <1>6 DEF MemoryStep, Answer, FeaturesArrive, TileArrives

\* A source that outlives a sync of the same list keeps what it holds.
LEMMA SyncKeepsHeld ==
  ASSUME MapInv, NEW list, SyncLayers(list), NEW l \in Layers, Emptied(l)
  PROVE  FALSE
<1> USE DEF MapInv, Emptied
<1>1. source'[l] = IF IsBuilt(l, list) THEN Built(l, list[l])
                                       ELSE [source[l] EXCEPT !.on = list[l] # None]
  BY DEF SyncLayers
<1>2. source[l] \in Sources
  BY DEF MemoryTyped
<1>3. CASE IsBuilt(l, list)
  <2>1. Built(l, list[l]).gen \notin Gens(l)
    BY GensAreFinite, FreshIsNew DEF MemoryTyped, Built
  <2> QED BY <1>1, <1>3, <2>1, GensAreFinite DEF MemoryTyped
<1>4. CASE ~IsBuilt(l, list)
  BY <1>1, <1>2, <1>4 DEF Sources
<1> QED BY <1>3, <1>4

\* The layer being inspected is not emptied under the user, if it was on the
\* map when it was selected: the pin follows the selection through rebuilds of
\* the source, answers of the project's query and changes of the route.
THEOREM SelectedIsKeptHolds == Spec => SelectedIsKept
<1>1. ASSUME MapInv, [Next]_vars, NEW l \in Layers, Emptied(l), ~early
      PROVE  FALSE
  <2> USE DEF MapInv
  <2>1. layers[l] # None /\ layers # NoList /\ layers' # NoList
    BY <1>1 DEF Emptied, MemoryInv, MapIsRegistered, NoList
  <2>2. source' # source
    BY <1>1 DEF Emptied
  <2>3. CASE MemoryStep
    BY <1>1, <2>3, MemoryKeepsPinned
  <2>4. ASSUME NEW list, SyncLayers(list) PROVE FALSE
    BY <1>1, <2>4, SyncKeepsHeld
  <2>5. project # None
    BY <1>1, <2>1 DEF SessionInv
  <2>6. CASE Reload
    <3>1. layers' = Data(project, [q \in Projects |-> None]) /\ project \in Projects
      BY <1>1, <2>6 DEF Reload, Mounted, SessionTyped
    <3> QED BY <2>1, <3>1 DEF Data
  <2>7. CASE Leave
    BY <2>1, <2>7 DEF Leave
  <2>8. ASSUME \/ \E w \in Windows : UserMoves(w) \/ ZoomToFeature(w)
               \/ \E m \in Layers : SelectLayer(m) \/ IdentifyFeature(m)
               \/ ClickNothing \/ CloseCard \/ RenderComplete \/ Capture \/ UNCHANGED vars
        PROVE  FALSE
    BY <2>2, <2>8 DEF UserMoves, ZoomToFeature, SelectLayer, IdentifyFeature, ClickNothing,
       CloseCard, RenderComplete, Capture, vars, memoryVars
  <2>9. \A list : ListArrives(list) => SyncLayers(list)
    BY DEF ListArrives
  <2>10. \A p \in Projects : SwitchProject(p) => SyncLayers(Data(p, known))
    BY DEF SwitchProject
  <2>11. \A p \in Projects : ~Enter(p) /\ \A s, w : ~FollowLink(p, s, w)
    BY <2>5 DEF Enter, FollowLink
  <2> QED BY <1>1, <2>3, <2>4, <2>6, <2>7, <2>8, <2>9, <2>10, <2>11 DEF Next
<1>2. MapInv /\ [Next]_vars
        => [\A l \in Layers :
              /\ layers' = layers /\ source[l].on
              /\ source[l].held # {} /\ source'[l].held = {} /\ source'[l].gen = source[l].gen
              /\ selected = l /\ selected' = l
              => early]_memoryVars
  BY <1>1 DEF Emptied
<1> QED BY <1>2, MapInvariance, PTL DEF Spec, SelectedIsKept
=============================================================================
