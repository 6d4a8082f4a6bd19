--------------------------- MODULE AttributeTable ---------------------------
(***************************************************************************)
(* The table of the selected layer: which layer, page and order it shows,  *)
(* the cached pages, the cell being edited, and the writes it sends, whose *)
(* onSuccess is the closure of the last render when the write is the last  *)
(* of its kind.                                                            *)
(*                                                                         *)
(* A page is [layer, rev, ids, total]: whose rows, as of which write, which*)
(* rows, and how many the table is said to have.  A write is               *)
(* [op, layer, id, tells, latest, seen, at, heard].                        *)
(***************************************************************************)
EXTENDS Integers, SequencesExt, QueryCache

CONSTANTS
  Tables,     \* the layers, as [layer |-> the columns of its table besides its id]
  Rows,       \* the ids of its rows at first
  PageSize,
  Estimates   \* what the planner may take the rows of a table to be, from
              \* attribute_count_estimate_min on

ASSUME TablesAssumption ==
  /\ IsFiniteSet(Rows) /\ Estimates \subseteq Nat /\ None \notin DOMAIN Tables
  /\ None \notin [ids : SUBSET Rows, rev : Nat]
  /\ None \notin [layer : DOMAIN Tables, rev : Nat, total : Nat, ids : SUBSET Rows]

VARIABLES
  selected,   \* the layer store's selectedLayerId
  features,   \* per layer, what its table has: [ids, rev], or None: no such layer
  fields,     \* per layer, the query ["fields", layer]: "unknown", "loading", "loaded", "error"
  pages,      \* the queries ["attributes", ...] there are, by key
  view,       \* the hook's state: [page, sort, order, last], last the key that had data last
  editing,    \* the cell being edited: [id, column, valid, of], or None
  writes,     \* a sequence, in the order they were sent
  doubt       \* the layers whose pages may be out of date: see SavedIsShown

tableVars == <<selected, features, fields, pages, view, editing, writes, doubt>>

NewTable == [ids |-> Rows, rev |-> 0]

TableInit(layers) ==
  /\ selected = None
  /\ features = [l \in DOMAIN Tables |-> IF l \in layers THEN NewTable ELSE None]
  /\ fields = [l \in DOMAIN Tables |-> "unknown"]
  /\ pages = <<>> /\ view = [page |-> 1, sort |-> None, order |-> "asc", last |-> None]
  /\ editing = None /\ writes = <<>> /\ doubt = {}

-----------------------------------------------------------------------------
(***************************************************************************)
(* What is on the screen.                                                  *)
(***************************************************************************)
KeyOf(layer, page, sort, order) == [layer |-> layer, page |-> page, sort |-> sort, order |-> order]
Key == KeyOf(selected, view.page, view.sort, view.order)
Page == pages[Key]

\* keepPreviousData: while the page is not there, the last one that was,
\* whichever layer it is of.
Placeholder == IF view.last = None THEN None ELSE pages[view.last].data
Shown == IF Page.data # None THEN Page.data ELSE Placeholder

\* The table instead of "Select a layer", "Loading" and an error's message.
Visible == selected # None /\ fields[selected] = "loaded" /\ ~Page.error /\ Shown # None

\* Pages and fields share the id column's name.
Editable == Tables[Shown.layer] \cap Tables[selected]
InputShown == editing # None /\ Visible /\ editing.id \in Shown.ids /\ editing.column \in Tables[Shown.layer]

\* A click elsewhere takes the focus from the cell, which commits what reads.
NothingToCommit == InputShown => ~editing.valid \/ editing.column \notin Tables[selected]

-----------------------------------------------------------------------------
(***************************************************************************)
(* What the queries do when the key changes.                               *)
(***************************************************************************)
\* The component renders with another key.
Shows(key) ==
  LET known == IF key \in DOMAIN pages THEN pages[key] ELSE Unknown
  IN /\ selected' = key.layer
     /\ \E q \in Observed(known) :
          pages' = [k \in DOMAIN pages \cup {key} |-> IF k = key THEN q ELSE pages[k]]
     /\ view' = [page |-> key.page, sort |-> key.sort, order |-> key.order,
                 last |-> IF known.data # None THEN key ELSE view.last]

\* useMutation hands the last mutation of each kind the render's new options.
Retold(ws, layer) == [i \in DOMAIN ws |-> IF ws[i].latest THEN [ws[i] EXCEPT !.tells = layer] ELSE ws[i]]

SelectLayer(l) ==
  /\ l # selected /\ NothingToCommit
  /\ Shows(KeyOf(l, view.page, view.sort, view.order))
  /\ fields' = [fields EXCEPT ![l] = IF @ \in {"unknown", "error"} THEN "loading" ELSE @]
  /\ writes' = Retold(writes, l)
  /\ UNCHANGED <<features, editing, doubt>>

SetPage(n) ==
  /\ Visible /\ NothingToCommit /\ n >= 1 /\ n - view.page \in {-1, 1}
  /\ n > view.page => n <= Max({1, (Shown.total + PageSize - 1) \div PageSize})
  /\ Shows(KeyOf(selected, n, view.sort, view.order))
  /\ UNCHANGED <<features, fields, editing, writes, doubt>>

Flipped(order) == IF order = "asc" THEN "desc" ELSE "asc"
SetSort(column) ==
  /\ Visible /\ NothingToCommit /\ column \in Tables[Shown.layer]
  /\ Shows(KeyOf(selected, 1, column, IF column = view.sort THEN Flipped(view.order) ELSE "asc"))
  /\ UNCHANGED <<features, fields, editing, writes, doubt>>

FieldsSettle(l) ==
  /\ fields[l] = "loading" /\ fields' = [fields EXCEPT ![l] = IF features[l] = None THEN "error" ELSE "loaded"]
  /\ UNCHANGED <<selected, features, pages, view, editing, writes, doubt>>

-----------------------------------------------------------------------------
(***************************************************************************)
(* Editing.                                                                *)
(***************************************************************************)
Send(w) ==
  writes' = Append([i \in DOMAIN writes |-> [writes[i] EXCEPT !.latest = @ /\ writes[i].op # w.op]], w)
Write(op, id, seen) ==
  [op |-> op, layer |-> selected, id |-> id, tells |-> selected, latest |-> TRUE, seen |-> seen,
   at |-> "sent", heard |-> TRUE]

\* A double click.
BeginEdit(id, column) ==
  /\ Visible /\ NothingToCommit /\ id \in Shown.ids /\ column \in Editable
  /\ editing' = [id |-> id, column |-> column, valid |-> TRUE, of |-> Shown.layer]
  /\ UNCHANGED <<selected, features, fields, pages, view, writes, doubt>>

\* What is typed reads as the column's type or not.
Types(valid) ==
  /\ InputShown /\ valid # editing.valid /\ editing' = [editing EXCEPT !.valid = valid]
  /\ UNCHANGED <<selected, features, fields, pages, view, writes, doubt>>

Escape ==
  /\ InputShown /\ editing' = None
  /\ UNCHANGED <<selected, features, fields, pages, view, writes, doubt>>

\* Enter, or the focus goes elsewhere.
Commit ==
  /\ InputShown /\ ~NothingToCommit
  /\ editing' = None /\ Send(Write("save", editing.id, editing.of))
  /\ UNCHANGED <<selected, features, fields, pages, view, doubt>>

RemoveRow(id) ==
  /\ Visible /\ NothingToCommit /\ id \in Shown.ids
  /\ Send(Write("remove", id, Shown.layer))
  /\ UNCHANGED <<selected, features, fields, pages, view, editing, doubt>>

-----------------------------------------------------------------------------
(***************************************************************************)
(* The server: one statement per request; the pages of a key.              *)
(***************************************************************************)
After(table, w) ==
  [ids |-> IF w.op = "remove" THEN table.ids \ {w.id} ELSE table.ids, rev |-> table.rev + 1]

ServerWrites(i) ==
  LET w == writes[i]
      found == features[w.layer] # None /\ w.id \in features[w.layer].ids
  IN /\ w.at = "sent"
     /\ writes' = [writes EXCEPT ![i].at = IF found THEN "done" ELSE "refused"]
     /\ features' = IF found THEN [features EXCEPT ![w.layer] = After(@, w)] ELSE features
     /\ UNCHANGED <<selected, fields, pages, view, editing, doubt>>

Refused(key) ==
  features[key.layer] = None \/ key.sort \notin Tables[key.layer] \cup {None}

RowsOf(table, key) ==
  LET before(id) == {a \in table.ids : IF key.order = "asc" THEN a < id ELSE a > id}
  IN {id \in table.ids : Cardinality(before(id)) \div PageSize = key.page - 1}

\* The web reads without a filter: the total is a count, or the planner's
\* estimate if that is large, whatever the table has now.
PagesOf(table, key) ==
  [layer : {key.layer}, rev : {table.rev}, ids : {RowsOf(table, key)},
   total : {Cardinality(table.ids)} \cup Estimates]

PageIsRead(key) ==
  /\ pages[key].fetch = "asked"
  /\ IF Refused(key)
       THEN pages' = [pages EXCEPT ![key] = Failed(@)]
       ELSE \E page \in PagesOf(features[key.layer], key) : pages' = [pages EXCEPT ![key] = Reads(@, page)]
  /\ UNCHANGED <<selected, features, fields, view, editing, writes, doubt>>

PageArrives(key) ==
  /\ pages[key].fetch = "read" /\ pages' = [pages EXCEPT ![key] = Arrived(@)]
  /\ view' = IF key = Key THEN [view EXCEPT !.last = key] ELSE view
  /\ UNCHANGED <<selected, features, fields, editing, writes, doubt>>

PageFails(key) ==
  /\ pages[key].fetch # "none" /\ pages' = [pages EXCEPT ![key] = Failed(@)]
  /\ UNCHANGED <<selected, features, fields, view, editing, writes, doubt>>

MutantInvalidates(w, key) == key = Key
\* invalidate(): all cached pages of the closure's layer, by their key's prefix.
Invalidates(w, key) == key.layer = w.tells

\* A fetch under way that the invalidation does not start again: what it
\* brings counts as valid however old it is.
Outlives(key) == pages[key].fetch # "none" /\ (key # Key \/ ~Restarts(pages[key]))

WriteAnswered(i) ==
  LET w == writes[i]
      told == {key \in DOMAIN pages : Invalidates(w, key)}
  IN /\ w.at \in {"done", "refused"} /\ writes' = RemoveAt(writes, i)
     /\ IF w.at = "done" /\ w.heard
          THEN /\ pages' = [key \in DOMAIN pages |->
                              IF key \in told THEN Invalidated(pages[key], key = Key) ELSE pages[key]]
               /\ doubt' = doubt \cup {l \in {w.layer} : w.tells # l \/ \E key \in DOMAIN pages :
                                                            key.layer = l /\ Outlives(key)}
          ELSE UNCHANGED <<pages, doubt>>
     /\ UNCHANGED <<selected, features, fields, view, editing>>

WriteLost(i) ==
  /\ writes[i].heard /\ doubt' = doubt \cup {writes[i].layer}
  /\ writes' \in {[writes EXCEPT ![i].heard = FALSE]}
                 \cup (IF writes[i].at = "sent" THEN {RemoveAt(writes, i)} ELSE {})
  /\ UNCHANGED <<selected, features, fields, pages, view, editing>>

-----------------------------------------------------------------------------
\* At rest the table shows the rows that were saved, as of the last write, on
\* whichever page, in whichever order it is looked at; how many rows it says
\* there are may be an estimate (PagesOf).  A layer is in doubt after: an answer that was lost;
\* a write that succeeded when another layer was selected, whose success is
\* taken for the other layer's; a write that succeeded while a first fetch, or
\* one of a page no longer shown, was under way.
SavedIsShown ==
  selected # None /\ writes = <<>> /\ Page.fetch = "none" /\ ~Page.error =>
    selected \in doubt \/ features[selected] = None \/ Page.data \in PagesOf(features[selected], Key)

\* "Keep showing the previous page while a sort/page change refetches"
\* (useAttributes.ts): a write goes to the layer whose rows the user saw.
WritesWhatWasSeen == \A i \in DOMAIN writes : writes[i].seen = writes[i].layer

-----------------------------------------------------------------------------
(***************************************************************************)
(* Why SavedIsShown holds.                                                 *)
(***************************************************************************)
IsWrite(w) ==
  w \in [op : {"save", "remove"}, layer : DOMAIN Tables, id : {w.id}, tells : {w.tells}, latest : BOOLEAN,
        seen : {w.seen}, at : {"sent", "done", "refused"}, heard : BOOLEAN]

TableTypeOK ==
  /\ selected \in DOMAIN Tables \cup {None}
  /\ features \in [DOMAIN Tables -> [ids : SUBSET Rows, rev : Nat] \cup {None}]
  /\ view = [page |-> view.page, sort |-> view.sort, order |-> view.order, last |-> view.last]
  /\ pages = [key \in DOMAIN pages |-> pages[key]]
  /\ \A key \in DOMAIN pages :
       /\ key.layer \in DOMAIN Tables /\ IsQuery(pages[key])
       /\ pages[key].fetch = "read" => pages[key].answer # None
  /\ writes \in Seq(ToSet(writes)) /\ \A i \in DOMAIN writes : IsWrite(writes[i])

WritesAreHeard == \A i \in DOMAIN writes : writes[i].heard \/ writes[i].layer \in doubt

\* A cached page that is not the table's has a write to hear of, or a fetch to
\* make, or is known to be old.
OldPagesAreKnown ==
  \A key \in DOMAIN pages :
    LET q == pages[key]
        now == PagesOf(features[key.layer], key)
    IN \/ key.layer \in doubt \/ features[key.layer] = None
       \/ \E i \in DOMAIN writes : writes[i].layer = key.layer /\ writes[i].at = "done"
       \/ q.fetch = "asked"
       \/ q.fetch = "read" /\ q.answer \in now
       \/ q.fetch = "none" /\ (q.data = None \/ q.invalid \/ q.error \/ q.data \in now)

\* What is on display is fetched until it is there and valid, or fails.
DisplayIsFetched ==
  selected # None =>
    /\ Key \in DOMAIN pages
    /\ Page.fetch = "none" => Page.error \/ (Page.data # None /\ ~Page.invalid)

TableInv == TableTypeOK /\ WritesAreHeard /\ OldPagesAreKnown /\ DisplayIsFetched
=============================================================================
