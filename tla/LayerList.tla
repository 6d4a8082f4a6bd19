------------------------------ MODULE LayerList ------------------------------
(***************************************************************************)
(* The layers of a project: the rows of gis.layer and the transactions     *)
(* that change them, each of which reads, writes the columns that differ   *)
(* from what it read and commits; and the panel's list, which asks for a   *)
(* change at any click, whatever is under way, and is fetched again when   *)
(* one succeeded.                                                          *)
(*                                                                         *)
(* A change is [op, layer, field, value, order, heard, at, seen]: what is  *)
(* asked for, whether the page listens for the answer, how far it is, the  *)
(* rows its transaction read.                                              *)
(***************************************************************************)
EXTENDS Integers, SequencesExt, QueryCache

CONSTANT Layers

\* The columns of gis.layer that requests change.
Row == [z : Nat, visible : BOOLEAN, opacity : {0, 1}]
LayerColumns == {"z", "visible", "opacity"}

ASSUME LayersAssumption ==
  IsFiniteSet(Layers) /\ None \notin Layers /\ \A S \in SUBSET Layers : None \notin [S -> Row]

VARIABLES
  rows,       \* the layers there are: [z, visible, opacity]
  list,       \* the query ["project", id]
  changes,    \* a sequence, in the order they were asked for
  missed,     \* a change was made the page did not hear of
  raced,      \* two reorders, or two additions, overlapped
  used        \* the ids of layers given so far

listVars == <<rows, list, changes, missed, raced, used>>

ListInit(initial) ==
  /\ rows = [l \in ToSet(initial) |->
               [z |-> CHOOSE i \in 0..(Len(initial) - 1) : initial[i + 1] = l, visible |-> TRUE, opacity |-> 1]]
  /\ list = Query(rows, FALSE, FALSE, "none", None)
  /\ changes = <<>> /\ missed = FALSE /\ raced = FALSE /\ used = ToSet(initial)

Listed == DOMAIN list.data
Unused == Layers \ used

-----------------------------------------------------------------------------
(***************************************************************************)
(* The panel and the dialog.                                               *)
(***************************************************************************)
Change(op, layer, field, value, order, heard) ==
  [op |-> op, layer |-> layer, field |-> field, value |-> value, order |-> order,
   heard |-> heard, at |-> "sent", seen |-> None]

Mutate(c) ==
  /\ changes' = Append(changes, c)
  /\ used' = used \cup IF c.op = "create" THEN {c.layer} ELSE {}
  /\ UNCHANGED <<rows, list, raced>>

Asks(c) == Mutate(c) /\ UNCHANGED missed

\* A checkbox shows what the list says, and asks for the opposite.
SetVisible(l) == Asks(Change("patch", l, "visible", ~list.data[l].visible, <<>>, TRUE))

SetOpacity(l, opacity) == Asks(Change("patch", l, "opacity", opacity, <<>>, TRUE))

RemoveLayer(l) == Asks(Change("remove", l, None, None, <<>>, TRUE))

\* The topmost first; equal places in any order.
Ordered ==
  {s \in SetToSeqs(Listed) : \A i \in 1..(Len(s) - 1) : list.data[s[i]].z >= list.data[s[i + 1]].z}

Clamped(i, items) == IF i < 1 THEN 1 ELSE IF i > Len(items) THEN Len(items) ELSE i
MoveItem(items, from, to) ==
  LET source == Clamped(from, items)
  IN InsertAt(RemoveAt(items, source), Clamped(to, items), items[source])

\* The whole order is sent, bottom first.
Reordered(ordered, i, delta) ==
  Change("reorder", None, None, None, Reverse(MoveItem(ordered, i, i + delta)), TRUE)

Move(ordered, i, delta) ==
  /\ ordered \in Ordered /\ i \in DOMAIN ordered /\ i + delta \in DOMAIN ordered
  /\ Asks(Reordered(ordered, i, delta))

\* A file or a table added by the dialog.
AddLayer(l) == Asks(Change("create", l, None, None, <<>>, TRUE))

\* A job of the worker adds its result: nobody tells the page.
JobAddsLayer(l) ==
  /\ Mutate(Change("create", l, None, None, <<>>, FALSE))
  /\ missed' = TRUE

-----------------------------------------------------------------------------
(***************************************************************************)
(* The transactions.                                                       *)
(***************************************************************************)
MutantNextZ(layers) == Cardinality(DOMAIN layers)
\* layer_repository.next_z_index
NextZ(layers) == 1 + Max({-1} \cup {layers[l].z : l \in DOMAIN layers})

\* What the services read, and what they refuse at once.
Found(c) ==
  CASE c.op \in {"patch", "remove"} -> c.layer \in DOMAIN rows
    [] c.op = "reorder" -> ToSet(c.order) = DOMAIN rows /\ IsInjective(c.order)
    [] OTHER -> TRUE

\* The change is further, and its transaction has read these rows.
Advances(i, at, seen) == changes' = [changes EXCEPT ![i] = [@ EXCEPT !.at = at, !.seen = seen]]

Loads(i) ==
  /\ changes[i].at = "sent"
  /\ IF Found(changes[i]) THEN Advances(i, "loaded", rows) ELSE Advances(i, "refused", None)
  /\ UNCHANGED <<rows, list, missed, raced, used>>

\* set_z_indexes: layers[layer_id].z_index = position
Place(order, l) == (CHOOSE i \in DOMAIN order : order[i] = l) - 1

\* The columns the session writes: those whose value is not the one it read.
Dirty(c, l, f) ==
  \/ c.op = "patch" /\ l = c.layer /\ f = c.field /\ c.seen[l][f] # c.value
  \/ c.op = "reorder" /\ l \in ToSet(c.order) /\ f = "z" /\ c.seen[l][f] # Place(c.order, l)

\* An UPDATE that finds no row ends the transaction.
MayFlush(c) == \A l \in Layers, f \in LayerColumns : Dirty(c, l, f) => l \in DOMAIN rows

MutantUpdated(c, l) ==
  [f \in LayerColumns |-> CASE Dirty(c, l, f) -> IF c.op = "patch" THEN c.value ELSE Place(c.order, l)
                            [] ~Dirty(c, l, f) /\ c.op = "patch" /\ l = c.layer -> c.seen[l][f]
                            [] OTHER -> rows[l][f]]

Updated(c, l) ==
  [f \in LayerColumns |-> IF Dirty(c, l, f) THEN IF c.op = "patch" THEN c.value ELSE Place(c.order, l)
                          ELSE rows[l][f]]

Written(c) ==
  CASE c.op = "remove" -> [l \in DOMAIN rows \ {c.layer} |-> rows[l]]
    [] c.op = "create" ->
         [l \in DOMAIN rows \cup {c.layer} |->
            IF l = c.layer THEN [z |-> NextZ(c.seen), visible |-> TRUE, opacity |-> 1] ELSE rows[l]]
    [] OTHER -> [l \in DOMAIN rows |-> Updated(c, l)]

Overlaps(i) ==
  /\ changes[i].op \in {"reorder", "create"}
  /\ \E j \in DOMAIN changes \ {i} : changes[j].op = changes[i].op /\ changes[j].at = "loaded"

Commits(i) ==
  /\ changes[i].at = "loaded" /\ MayFlush(changes[i])
  /\ rows' = Written(changes[i]) /\ raced' = (raced \/ Overlaps(i))
  /\ Advances(i, "done", None)
  /\ UNCHANGED <<list, missed, used>>

\* A layer is gone that was there: the second reading of the list misses it,
\* or the UPDATE does.
Fails(i) ==
  /\ changes[i].at = "loaded" /\ changes[i].op \in {"patch", "reorder"}
  /\ \/ ~MayFlush(changes[i])
     \/ changes[i].op = "reorder" /\ ~(ToSet(changes[i].order) \subseteq DOMAIN rows)
  /\ Advances(i, "refused", None)
  /\ UNCHANGED <<rows, list, missed, raced, used>>

-----------------------------------------------------------------------------
(***************************************************************************)
(* The answers, and the list.                                              *)
(***************************************************************************)
MutantOnSuccess(c) == IF c.op = "reorder" THEN list ELSE Invalidated(list, TRUE)
\* Every mutation invalidates the project when it succeeded.
OnSuccess(c) == Invalidated(list, TRUE)

Answered(i) ==
  /\ changes[i].at \in {"done", "refused"} /\ changes' = RemoveAt(changes, i)
  /\ list' = IF changes[i].heard /\ changes[i].at = "done" THEN OnSuccess(changes[i]) ELSE list
  /\ UNCHANGED <<rows, missed, raced, used>>

\* The connection breaks: the server may or may not have heard the request.
ConnectionLost(i) ==
  /\ changes[i].heard /\ missed' = TRUE
  /\ changes' \in {[changes EXCEPT ![i].heard = FALSE]}
                  \cup (IF changes[i].at = "sent" THEN {RemoveAt(changes, i)} ELSE {})
  /\ UNCHANGED <<rows, list, raced, used>>

ListIsRead ==
  /\ list.fetch = "asked" /\ list' = Reads(list, rows)
  /\ UNCHANGED <<rows, changes, missed, raced, used>>

ListArrives ==
  /\ list.fetch = "read" /\ list' = Arrived(list)
  /\ UNCHANGED <<rows, changes, missed, raced, used>>

\* The second attempt failed as well: what was there stays.
ListFails ==
  /\ list.fetch # "none" /\ list' = Failed(list)
  /\ UNCHANGED <<rows, changes, missed, raced, used>>

-----------------------------------------------------------------------------
\* When nothing is under way the list is what the database has, whatever
\* overtook what: unless a change was not heard of, or the last fetch failed.
ListSettles ==
  changes = <<>> /\ list.fetch = "none" /\ ~list.error /\ ~missed => list.data = rows

\* Two layers never share a place in the stack, whatever is added, removed and
\* reordered at the same time, as long as no two reorders and no two additions
\* overlap.
DistinctPlaces ==
  ~raced => \A k, l \in DOMAIN rows : rows[k].z = rows[l].z => k = l

\* A change to one thing never undoes another: a column changes only by a
\* request about it.
OtherChangesStand ==
  [][\A l \in DOMAIN rows \cap DOMAIN rows' : \A f \in LayerColumns :
       rows'[l][f] # rows[l][f] =>
         \E i \in DOMAIN changes : LET c == changes[i] IN
           /\ Commits(i)
           /\ \/ c.op = "patch" /\ c.layer = l /\ c.field = f
              \/ c.op = "reorder" /\ f = "z"]_listVars

\* "The server assigns z_index by list position (0 = bottom)"
\* (LayerPanel.test.tsx:103): a reorder that succeeds leaves its layers in the
\* places of its list.
StackIsTheList ==
  [][\A i \in DOMAIN changes : LET order == changes[i].order IN
       Commits(i) =>
         \A p \in DOMAIN order : order[p] \in DOMAIN rows' => rows'[order[p]].z = p - 1]_listVars

-----------------------------------------------------------------------------
(***************************************************************************)
(* Why ListSettles, DistinctPlaces and OtherChangesStand hold: what is     *)
(* true of the list, its changes and the rows at every step.               *)
(***************************************************************************)
IsStack(s) == \E S \in SUBSET Layers : s \in [S -> Row]

Values(field) == IF field = "visible" THEN BOOLEAN ELSE {0, 1}

IsChange(c) ==
  /\ c \in [op : {"patch", "remove", "create", "reorder"}, layer : Layers \cup {None},
           field : {"visible", "opacity", None}, value : {c.value}, order : Seq(Layers),
           heard : BOOLEAN, at : {"sent", "loaded", "done", "refused"}, seen : {c.seen}]
  /\ c.op # "reorder" => c.layer \in Layers
  /\ c.op = "patch" => c.field \in {"visible", "opacity"} /\ c.value \in Values(c.field)

ListTypeOK ==
  /\ IsStack(rows) /\ used \in SUBSET Layers /\ missed \in BOOLEAN /\ raced \in BOOLEAN
  /\ changes \in Seq(ToSet(changes)) /\ \A i \in DOMAIN changes : IsChange(changes[i])
  /\ IsQuery(list) /\ IsStack(list.data) /\ (list.fetch = "read" => IsStack(list.answer))

\* What a transaction has read lets it go on.
Loaded(c) ==
  /\ IsStack(c.seen) /\ DOMAIN c.seen \subseteq used
  /\ c.op = "patch" => c.layer \in DOMAIN c.seen
  /\ c.op = "reorder" => ToSet(c.order) = DOMAIN c.seen /\ IsInjective(c.order)

LoadedFits == \A i \in DOMAIN changes : changes[i].at = "loaded" => Loaded(changes[i])

\* A layer to be added is a new one: nobody else's, and in no stack there was.
CreatesAreNew ==
  /\ DOMAIN rows \subseteq used
  /\ \A i \in DOMAIN changes : changes[i].op = "create" =>
       /\ changes[i].layer \in used
       /\ \A j \in DOMAIN changes : changes[j].op = "create" /\ changes[j].layer = changes[i].layer => j = i
       /\ changes[i].at \in {"sent", "loaded"} =>
            /\ changes[i].layer \notin DOMAIN rows
            /\ \A j \in DOMAIN changes : changes[j].at = "loaded" => changes[i].layer \notin DOMAIN changes[j].seen

\* A list that is not the database's has a change to hear of or a fetch to make.
StaleIsKnown ==
  ~missed =>
    /\ \A i \in DOMAIN changes : changes[i].heard
    /\ \/ \E i \in DOMAIN changes : changes[i].at = "done"
       \/ list.fetch = "asked"
       \/ list.fetch = "read" /\ list.answer = rows
       \/ list.fetch = "none" /\ (list.error \/ list.data = rows)

\* A loaded addition goes above all there is.
GoesOnTop(c) == \A l \in DOMAIN rows : rows[l].z < NextZ(c.seen)

\* What a loaded reorder read of the places still holds, but for layers removed
\* and layers added above.
StillStands(c) ==
  /\ \A k, l \in DOMAIN c.seen : c.seen[k].z = c.seen[l].z => k = l
  /\ \A k \in DOMAIN rows \cap DOMAIN c.seen :
       /\ rows[k].z = c.seen[k].z
       /\ \A l \in DOMAIN rows \ DOMAIN c.seen : rows[l].z > rows[k].z

PlacesAreSafe ==
  ~raced => \A i \in DOMAIN changes : changes[i].at = "loaded" =>
    /\ changes[i].op = "create" => GoesOnTop(changes[i])
    /\ changes[i].op = "reorder" => StillStands(changes[i])

ListInv ==
  ListTypeOK /\ LoadedFits /\ CreatesAreNew /\ StaleIsKnown /\ DistinctPlaces /\ PlacesAreSafe
=============================================================================
