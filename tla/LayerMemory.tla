---------------------------- MODULE LayerMemory ----------------------------
(***************************************************************************)
(* The layers on the OpenLayers map and the memory they hold: the list     *)
(* the map is reconciled with (syncLayers), the source built for each      *)
(* layer (createOlLayer), its loader, and LayerMemoryManager, which        *)
(* charges every answer to its layer and clears the least recently used    *)
(* layers when the total is over the budget.                               *)
(*                                                                         *)
(* OpenLayers is external.  It asks a source's loader for every window of  *)
(* the view it has not asked for, and marks the window at once.  A tile    *)
(* source asks again for what it no longer has.  A vector source does not: *)
(* only its refresh(), which nothing here calls, forgets which windows it  *)
(* was asked for, and clear() empties it.                                  *)
(***************************************************************************)
EXTENDS Integers, Sequences, FiniteSets, FiniteSetsExt, SequencesExt

CONSTANTS
  Layers, Windows, None,
  TiersOf,      \* TiersOf[l]: the tiers layer l goes through: "small", "medium", "tiles"
  Size,         \* Size[t]: the bytes of one answer for a layer of tier t
  BudgetBytes,
  MaxRequests   \* bound: requests in flight at once

All == "all"    \* the one window of a layer loaded whole
Tiers == {"small", "medium", "tiles"}

ASSUME MemoryBounds ==
  /\ None \notin Layers /\ None \notin Windows /\ All \notin Windows
  /\ None \notin [bytes : Nat, pinned : BOOLEAN, clears : Nat]
  /\ IsFiniteSet(Layers) /\ IsFiniteSet(Windows)
  /\ TiersOf \in [Layers -> SUBSET Tiers]
  /\ Size \in [Tiers -> Nat] /\ BudgetBytes \in Nat /\ MaxRequests \in Nat

VARIABLES
  layers,    \* the client's list: the tier of each layer, or None
  view,      \* the window the map looks at
  source,    \* the source last built for each layer: tier, on (the map), gen (which
             \* one it is), marked and held windows
  requests,  \* the loaders' and tiles' requests in flight
  entry,     \* the manager: bytes, pinned, clears (the source its onEvict clears), or None
  order,     \* the layers with an entry, least recently used first
  selected,  \* the selected layer, or None
  early      \* the selection is older than the entry of the selected layer

memoryVars == <<layers, view, source, requests, entry, order, selected, early>>

NoSource == [tier |-> "small", on |-> FALSE, gen |-> 0, marked |-> {}, held |-> {}]

MemoryInit ==
  /\ layers = [l \in Layers |-> None]
  /\ view \in Windows
  /\ source = [l \in Layers |-> NoSource]
  /\ requests = {}
  /\ entry = [l \in Layers |-> None] /\ order = <<>>
  /\ selected = None /\ early = FALSE

-----------------------------------------------------------------------------
(***************************************************************************)
(* LayerMemoryManager.                                                     *)
(***************************************************************************)
Registered(l) == entry[l] # None
Bytes(l) == IF Registered(l) THEN entry[l].bytes ELSE 0
Pinned(l) == IF Registered(l) THEN entry[l].pinned ELSE FALSE

MutantRegister(l, gen) ==
  IF Registered(l) THEN [entry[l] EXCEPT !.clears = gen, !.pinned = FALSE]
                   ELSE [bytes |-> 0, pinned |-> FALSE, clears |-> gen]

MutantClears(l, gen) ==
  IF Registered(l) THEN entry[l] ELSE [bytes |-> 0, pinned |-> FALSE, clears |-> gen]

\* What a layer was charged, and its pin, outlive the source they are about.
Register(l, gen) ==
  IF Registered(l) THEN [entry[l] EXCEPT !.clears = gen]
                   ELSE [bytes |-> 0, pinned |-> FALSE, clears |-> gen]

\* record: nothing for a layer the manager does not know.
Recorded(l, n) == IF Registered(l) THEN [entry EXCEPT ![l].bytes = @ + n] ELSE entry
Touched(l) == IF Registered(l) THEN Append(SelectSeq(order, LAMBDA m : m # l), l) ELSE order

\* setPinned, twice: the effect that pins the selected layer unpins the last one.
Repinned(old, new) ==
  [l \in Layers |-> IF ~Registered(l) THEN None
                    ELSE IF l = new THEN [entry[l] EXCEPT !.pinned = TRUE]
                    ELSE IF l = old THEN [entry[l] EXCEPT !.pinned = FALSE]
                    ELSE entry[l]]

TotalBytes == MapThenSumSet(Bytes, Layers)

MutantProtected(l) == order # <<>> /\ l = Last(order)
MutantUnshielded(l) == FALSE

\* The thrash guard: the newest layer, when it alone exceeds the budget.
Protected(l) == order # <<>> /\ l = Last(order) /\ Bytes(l) > BudgetBytes

Candidates == {l \in Layers : Registered(l) /\ ~Pinned(l) /\ ~Protected(l) /\ Bytes(l) > 0}

Older(l) == {m \in Candidates : \E i, j \in DOMAIN order : i < j /\ order[i] = m /\ order[j] = l}

\* Least recently used first, while the total is over the budget.
Evicted == {l \in Candidates : TotalBytes - MapThenSumSet(Bytes, Older(l)) > BudgetBytes}

\* onEvict: the source it was registered with is emptied.  Tiles are asked for
\* again; the windows of a vector source stay marked.
Cleared(l) ==
  IF Registered(l) /\ entry[l].clears = source[l].gen
    THEN [source[l] EXCEPT !.held = {}, !.marked = IF source[l].tier = "tiles" THEN {} ELSE @]
    ELSE source[l]

\* enforce, every two seconds.
Enforce ==
  /\ TotalBytes > BudgetBytes /\ Evicted # {}
  /\ entry' = [l \in Layers |-> IF l \in Evicted THEN [entry[l] EXCEPT !.bytes = 0] ELSE entry[l]]
  /\ source' = [l \in Layers |-> IF l \in Evicted THEN Cleared(l) ELSE source[l]]
  /\ UNCHANGED <<layers, view, requests, order, selected, early>>

-----------------------------------------------------------------------------
(***************************************************************************)
(* The map reconciled with a list, whole.                                  *)
(***************************************************************************)
Fresh(used) == CHOOSE n \in 0 .. Cardinality(used) : n \notin used

\* The sources of a layer that something still refers to.
Gens(l) == {source[l].gen} \cup (IF Registered(l) THEN {entry[l].clears} ELSE {})
           \cup {r.gen : r \in {q \in requests : q.layer = l}}

Built(l, tier) ==
  [tier |-> tier, on |-> TRUE, gen |-> Fresh(Gens(l)), marked |-> {}, held |-> {}]

\* A layer new to the map, or whose tier (the fingerprint of its source) changed.
IsBuilt(l, list) ==
  list[l] # None /\ (~source[l].on \/ source[l].tier # list[l])

\* A layer taken off the map keeps its entry, and through it its source.
SyncLayers(list) ==
  LET built == {l \in Layers : IsBuilt(l, list)} IN
  /\ layers' = list
  /\ source' = [l \in Layers |-> IF l \in built THEN Built(l, list[l])
                                 ELSE [source[l] EXCEPT !.on = list[l] # None]]
  /\ entry' = [l \in Layers |-> IF l \in built THEN Register(l, Built(l, list[l]).gen)
                                ELSE entry[l]]
  /\ order' = order \o SetToSeq({l \in built : ~Registered(l)})
  /\ UNCHANGED <<requests, selected, early>>

-----------------------------------------------------------------------------
(***************************************************************************)
(* OpenLayers and the loaders.                                             *)
(***************************************************************************)
WindowOf(l) == IF source[l].tier = "small" THEN All ELSE view

\* The render loop asks for what it has not asked for.
Wanted(l) == source[l].on /\ WindowOf(l) \notin source[l].marked

InFlight(l, gen) == {r \in requests : r.layer = l /\ r.gen = gen}

\* The bbox loader aborts the request before; nothing unmarks its window.
Aborted(l) == IF source[l].tier = "medium" THEN InFlight(l, source[l].gen) ELSE {}

Request(l) ==
  [layer |-> l, gen |-> source[l].gen, tier |-> source[l].tier, window |-> WindowOf(l),
   no |-> Fresh({r.no : r \in InFlight(l, source[l].gen)})]

Ask(l) ==
  /\ Wanted(l) /\ Cardinality(requests \ Aborted(l)) < MaxRequests
  /\ requests' = (requests \ Aborted(l)) \cup {Request(l)}
  /\ source' = [source EXCEPT ![l].marked = @ \cup {WindowOf(l)}]
  /\ UNCHANGED <<layers, view, entry, order, selected, early>>

\* The bytes are charged to the layer's id, whichever source asked.
Answered(r) ==
  /\ requests' = requests \ {r}
  /\ entry' = Recorded(r.layer, Size[r.tier]) /\ order' = Touched(r.layer)
  /\ source' = IF source[r.layer].gen = r.gen
                 THEN [source EXCEPT ![r.layer].held = @ \cup {r.window}] ELSE source
  /\ UNCHANGED <<layers, view, selected, early>>

FeaturesArrive(r) == r \in requests /\ r.tier # "tiles" /\ Answered(r)
TileArrives(r) == r \in requests /\ r.tier = "tiles" /\ Answered(r)
Answer(r) == FeaturesArrive(r) \/ TileArrives(r)

\* An error: logged, failure() called, or the tile left blank; the window
\* stays marked.
Fail(r) ==
  /\ r \in requests /\ requests' = requests \ {r}
  /\ UNCHANGED <<layers, view, source, entry, order, selected, early>>

-----------------------------------------------------------------------------
(***************************************************************************)
(* Properties.                                                             *)
(***************************************************************************)
Requests == [layer : Layers, gen : Nat, tier : Tiers, window : Windows \cup {All}, no : Nat]
Sources == [tier : Tiers, on : BOOLEAN, gen : Nat,
            marked : SUBSET (Windows \cup {All}), held : SUBSET (Windows \cup {All})]
Entries == [bytes : Nat, pinned : BOOLEAN, clears : Nat]

MemoryTypeOK ==
  /\ layers \in [Layers -> Tiers \cup {None}] /\ view \in Windows
  /\ source \in [Layers -> Sources] /\ requests \subseteq Requests
  /\ entry \in [Layers -> Entries \cup {None}] /\ order \in Seq(Layers)
  /\ selected \in Layers \cup {None} /\ early \in BOOLEAN

\* What the source of a layer holds was charged to the layer: evicting the
\* layer gives back at least what it is charged for, whatever rebuilds,
\* removals and late answers came between.
ChargedCoversHeld ==
  \A l \in Layers : Bytes(l) >= Size[source[l].tier] * Cardinality(source[l].held)

\* The layer being inspected is not emptied under the user, if it was on the
\* map when it was selected.
SelectedIsKept ==
  [][\A l \in Layers :
       /\ layers' = layers /\ source[l].on
       /\ source[l].held # {} /\ source'[l].held = {} /\ source'[l].gen = source[l].gen
       /\ selected = l /\ selected' = l
       => early]_memoryVars

\* The budget is returned to, as far as what is pinned or too big allows.
BudgetIsRespected ==
  []<>(\/ TotalBytes <= BudgetBytes
       \/ \A l \in Layers : Bytes(l) > 0 => Pinned(l) \/ Bytes(l) > BudgetBytes)

\* A layer bigger than the whole budget, alone in memory, is not emptied and
\* fetched again for ever.
Alone(l) == \A m \in Layers \ {l} : Bytes(m) = 0
OversizeIsNotThrashed ==
  \A l \in Layers :
    <>[]Alone(l) => <>[][source[l].held = {} \/ source'[l].held # {}
                           \/ source'[l].gen # source[l].gen]_memoryVars

\* The bbox loader says of a superseded request that OpenLayers forgets its
\* extent: a window of the map is held, or on its way, or will be asked for.
WindowsComeBack ==
  \A l \in Layers : source[l].on =>
    \A w \in source[l].marked :
      w \in source[l].held \/ \E r \in InFlight(l, source[l].gen) : r.window = w
=============================================================================
