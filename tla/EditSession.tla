----------------------------- MODULE EditSession -----------------------------
(***************************************************************************)
(* The edit session of one layer: the user draws, moves and deletes        *)
(* features on the map, EditQueue buffers and collapses the edits, and     *)
(* flush sends them to the server one by one.  The Save and Discard        *)
(* buttons are disabled during a flush, the map's interactions are not.    *)
(*                                                                         *)
(* flush iterates over the very array enqueue works on: an edit made while *)
(* an answer is awaited changes the array under the iteration, or leaves   *)
(* it a stale array of its own when enqueue replaces `operations`.         *)
(***************************************************************************)
EXTENDS Integers, Sequences, SequencesExt

CONSTANTS
  Geoms,      \* geometries
  NoGeom,
  InitRows,   \* rows of the layer's table at the start: 1 .. InitRows
  MaxDraws,   \* bound: features drawn
  MaxEdits,   \* bound: edits of any kind
  MaxSaves,   \* bound: flushes
  MaxFaults,  \* bound: requests the server rejects without cause on our side
  MaxLost     \* bound: answers lost after the server applied the request

ASSUME EditBounds ==
  /\ NoGeom \notin Geoms
  /\ {InitRows, MaxDraws, MaxEdits, MaxSaves, MaxFaults, MaxLost} \subseteq Nat

\* A feature the server has not numbered carries the id temp-n, here -n.  There
\* are row ids for every create the bounds allow.
Temps == -MaxDraws .. -1
RowIds == 1 .. InitRows + MaxDraws * (MaxSaves + 1)
FeatureIds == Temps \cup RowIds

Operation(kind, id, geom) == [kind |-> kind, id |-> id, geom |-> geom]
Operations ==
  [kind : {"create"}, id : Temps, geom : Geoms]
    \cup [kind : {"update"}, id : FeatureIds, geom : Geoms]
    \cup [kind : {"delete"}, id : FeatureIds, geom : {NoGeom}]
NoOp == Operation("none", 0, NoGeom)

VARIABLES
  ops,       \* EditQueue.operations
  saving,    \* a flush is running
  detached,  \* the flush iterates over an array that is no longer operations
  walk,      \* that array
  at, sent,  \* index and operation the flush awaits the answer of
  kept,      \* stillPending
  shown,     \* ids of the features on the map
  rows,      \* ids of the rows of the table
  nextRow,
  want,      \* want[f]: the last edit of f nobody has accepted or dropped
  created,   \* created[t]: rows made from the drawing t
  drawn, edits, saves, faults, lost,
  touched,   \* the features edited during some flush
  failed     \* some request failed

flushVars == <<saving, detached, walk, at, sent, kept>>
serverVars == <<rows, nextRow, created>>
historyVars == <<saves, faults, lost, failed>>
vars == <<ops, flushVars, serverVars, historyVars, shown, want, drawn, edits, touched>>

TypeOK ==
  /\ ops \in Seq(Operations) /\ walk \in Seq(Operations) /\ kept \in Seq(Operations)
  /\ sent \in Operations \cup {NoOp}
  /\ saving \in BOOLEAN /\ detached \in BOOLEAN /\ failed \in BOOLEAN
  /\ at \in Nat
  /\ shown \subseteq Int /\ touched \subseteq FeatureIds
  /\ rows \subseteq 1 .. nextRow - 1 /\ nextRow \in Nat \ {0}
  /\ want \in [FeatureIds -> Operations \cup {NoOp}]
  /\ created \in [Temps -> Nat]
  /\ drawn \in 0 .. MaxDraws /\ edits \in 0 .. MaxEdits
  /\ saves \in 0 .. MaxSaves /\ faults \in 0 .. MaxFaults /\ lost \in 0 .. MaxLost

Init ==
  /\ ops = <<>> /\ walk = <<>> /\ kept = <<>> /\ sent = NoOp /\ at = 0
  /\ saving = FALSE /\ detached = FALSE /\ failed = FALSE
  /\ rows = 1 .. InitRows
  /\ nextRow = InitRows + 1
  /\ shown = {} /\ touched = {}
  /\ want = [f \in FeatureIds |-> NoOp]
  /\ created = [t \in Temps |-> 0]
  /\ drawn = 0 /\ edits = 0 /\ saves = 0 /\ faults = 0 /\ lost = 0

-----------------------------------------------------------------------------
(***************************************************************************)
(* EditQueue.enqueue                                                       *)
(***************************************************************************)
HasCreate(queue, f) == \E i \in DOMAIN queue : queue[i].kind = "create" /\ queue[i].id = f

CreateIndex(queue, f) ==
  CHOOSE i \in DOMAIN queue : queue[i].kind = "create" /\ queue[i].id = f

\* The operation an update of f collapses into.
Changes(op, f) == op.kind \in {"create", "update"} /\ op.id = f

Collapsed(queue, f, g) ==
  LET same == {i \in DOMAIN queue : Changes(queue[i], f)}
  IN  IF same = {} THEN Append(queue, Operation("update", f, g))
      ELSE LET i == CHOOSE i \in same : \A j \in same : i <= j
           IN  [queue EXCEPT ![i].geom = g]

WithoutCreate(queue, f) == RemoveAt(queue, CreateIndex(queue, f))

\* How many elements of S come no later than i.
Rank(S, i) == Cardinality({j \in S : j <= i})

\* The queue without the updates of f, in its order.
WithoutUpdates(queue, f) ==
  LET rest == {i \in DOMAIN queue : ~(queue[i].kind = "update" /\ queue[i].id = f)}
      nth(k) == CHOOSE i \in rest : Rank(rest, i) = k
  IN  [k \in 1 .. Cardinality(rest) |-> queue[nth(k)]]

WithDelete(queue, f) == Append(WithoutUpdates(queue, f), Operation("delete", f, NoGeom))

\* What every edit of a feature f on the map does besides.
Edit(f) ==
  /\ edits < MaxEdits
  /\ edits' = edits + 1
  /\ touched' = IF saving THEN touched \cup {f} ELSE touched
  /\ UNCHANGED <<saving, at, sent, kept, serverVars, historyVars>>

\* drawend: the new feature gets a temporary id.
Draw(g) ==
  /\ drawn < MaxDraws
  /\ drawn' = drawn + 1
  /\ LET t == -(drawn + 1) IN
       /\ ops' = Append(ops, Operation("create", t, g))
       /\ want' = [want EXCEPT ![t] = Operation("create", t, g)]
       /\ shown' = shown \cup {t}
       /\ Edit(t)
  /\ UNCHANGED <<detached, walk>>

\* modifyend
Modify(f, g) ==
  /\ f \in shown
  /\ ops' = Collapsed(ops, f, g)
  /\ want' = [want EXCEPT ![f] = Operation(IF HasCreate(ops, f) THEN "create" ELSE "update", f, g)]
  /\ Edit(f)
  /\ UNCHANGED <<detached, walk, shown, drawn>>

\* The flush that runs, if any, will find the create of f removed in time.
ToBeSent(f) == ~saving \/ (~detached /\ CreateIndex(ops, f) > at)

\* A click in delete mode on a feature that is only drawn so far: the create
\* is spliced out of the array, also out of the one a flush iterates over.
DeleteDrawn(f) ==
  /\ f \in shown
  /\ HasCreate(ops, f)
  /\ ops' = WithoutCreate(ops, f)
  /\ want' = [want EXCEPT ![f] = IF ToBeSent(f) THEN NoOp ELSE Operation("delete", f, NoGeom)]
  /\ shown' = shown \ {f}
  /\ Edit(f)
  /\ UNCHANGED <<detached, walk, drawn>>

\* Otherwise `operations` becomes a new array without the updates of f.
DeleteSaved(f) ==
  /\ f \in shown
  /\ ~HasCreate(ops, f)
  /\ ops' = WithDelete(ops, f)
  /\ detached' = saving
  /\ walk' = IF saving /\ ~detached THEN ops ELSE walk
  /\ want' = [want EXCEPT ![f] = Operation("delete", f, NoGeom)]
  /\ shown' = shown \ {f}
  /\ Edit(f)
  /\ UNCHANGED drawn

-----------------------------------------------------------------------------
(***************************************************************************)
(* EditQueue.flush, save and discard                                       *)
(***************************************************************************)
Walked == IF detached THEN walk ELSE ops

Save ==
  /\ ~saving
  /\ ops # <<>>
  /\ saves < MaxSaves
  /\ saves' = saves + 1
  /\ saving' = TRUE
  /\ at' = 1
  /\ sent' = ops[1]
  /\ kept' = <<>>
  /\ UNCHANGED <<ops, detached, walk, serverVars, faults, lost, failed, shown, want,
                 drawn, edits, touched>>

\* source.refresh() after a flush without failures.
Refreshed(failures) == IF failures = <<>> THEN {} ELSE shown

MutantPutBack(pending) == <<>>

\* What flush leaves in the queue.
PutBack(pending) == pending

\* The iteration goes on with `pending` not done so far, or ends.
Continue(pending) ==
  IF at < Len(Walked)
  THEN /\ at' = at + 1
       /\ sent' = Walked[at + 1]
       /\ kept' = pending
       /\ UNCHANGED <<ops, saving, detached, walk, shown>>
  ELSE /\ ops' = PutBack(pending)
       /\ saving' = FALSE
       /\ detached' = FALSE
       /\ walk' = <<>>
       /\ at' = 0
       /\ sent' = NoOp
       /\ kept' = <<>>
       /\ shown' = Refreshed(pending)

\* create_feature, update_feature or delete_feature can apply the request.
Applicable(op) == op.kind = "create" \/ op.id \in rows

Apply(op) ==
  /\ rows' = CASE op.kind = "create" -> rows \cup {nextRow}
               [] op.kind = "delete" -> rows \ {op.id}
               [] OTHER -> rows
  /\ nextRow' = IF op.kind = "create" THEN nextRow + 1 ELSE nextRow
  /\ created' = IF op.kind = "create" THEN [created EXCEPT ![op.id] = @ + 1] ELSE created

MutantAccepted ==
  /\ saving
  /\ Applicable(sent)
  /\ Apply(sent)
  /\ want' = IF want[sent.id] = sent THEN [want EXCEPT ![sent.id] = NoOp] ELSE want
  /\ Continue(IF kept = <<>> THEN kept ELSE Append(kept, sent))
  /\ UNCHANGED <<historyVars, drawn, edits, touched>>

\* The server applies the request and the answer arrives.
Accepted ==
  /\ saving
  /\ Applicable(sent)
  /\ Apply(sent)
  /\ want' = IF want[sent.id] = sent THEN [want EXCEPT ![sent.id] = NoOp] ELSE want
  /\ Continue(kept)
  /\ UNCHANGED <<historyVars, drawn, edits, touched>>

\* The server rejects the request: its target is gone, or it is invalid.
Rejected ==
  /\ saving
  /\ \/ ~Applicable(sent) /\ UNCHANGED faults
     \/ Applicable(sent) /\ faults < MaxFaults /\ faults' = faults + 1
  /\ Continue(Append(kept, sent))
  /\ failed' = TRUE
  /\ UNCHANGED <<serverVars, want, saves, lost, drawn, edits, touched>>

\* The server applies the request and the answer is lost.
AnswerLost ==
  /\ saving
  /\ Applicable(sent)
  /\ lost < MaxLost
  /\ lost' = lost + 1
  /\ Apply(sent)
  /\ Continue(Append(kept, sent))
  /\ failed' = TRUE
  /\ UNCHANGED <<want, saves, faults, drawn, edits, touched>>

Discard ==
  /\ ~saving
  /\ ops # <<>>
  /\ ops' = <<>>
  /\ want' = [f \in FeatureIds |-> NoOp]
  /\ shown' = {}
  /\ UNCHANGED <<flushVars, serverVars, historyVars, drawn, edits, touched>>

\* The map loads the rows of an extent: those it shows already stay, pending
\* deletes are not looked at.
Load ==
  /\ shown' = shown \cup rows
  /\ UNCHANGED <<ops, flushVars, serverVars, historyVars, want, drawn, edits, touched>>

-----------------------------------------------------------------------------
UserEdit ==
  \/ \E g \in Geoms : Draw(g)
  \/ \E f \in FeatureIds, g \in Geoms : Modify(f, g)
  \/ \E f \in FeatureIds : DeleteDrawn(f) \/ DeleteSaved(f)

Answer == Accepted \/ Rejected \/ AnswerLost

Next == UserEdit \/ Save \/ Answer \/ Discard \/ Load

Spec == Init /\ [][Next]_vars

-----------------------------------------------------------------------------
(***************************************************************************)
(* Properties                                                              *)
(***************************************************************************)

Pending(f) == \E i \in DOMAIN ops : ops[i] = want[f]

\* A user who touches nothing while a save runs loses no edit: through any
\* number of saves, rejections and lost answers, what was done last to a
\* feature is pending until the server accepted it or the user dropped it.
EditsAreKept ==
  touched = {} => \A f \in FeatureIds : want[f] # NoOp => Pending(f)

\* "flush runs every operation, collects the rejections, and puts only the
\* failed operations back" (docs/learning/09-editing-and-transactions.md:614-615):
\* after a save, the last edit of a feature nobody touched meanwhile is
\* accepted or pending.  Deleting another, drawn feature during the save
\* shifts the array under the iteration, and an operation is passed over.
FlushRunsEveryOperation ==
  ~saving => \A f \in FeatureIds \ touched : want[f] # NoOp => Pending(f)

\* "Succeeded work is not retried": a drawing becomes a second row only when
\* the answer to its create was lost.
CreatedOnce ==
  \A t \in Temps : created[t] <= 1 + lost

(***************************************************************************)
(* What makes the properties inductive.                                    *)
(***************************************************************************)
FlushShape ==
  /\ saving => at > 0 /\ sent # NoOp
  /\ ~saving => at = 0 /\ sent = NoOp /\ kept = <<>> /\ ~detached

\* Ids of drawings come from drawings.
IdsAreDrawn ==
  /\ \A f \in shown : f >= -drawn
  /\ \A queue \in {ops, walk, kept} : \A i \in DOMAIN queue : queue[i].id >= -drawn
  /\ sent.id >= -drawn
  /\ \A t \in Temps : created[t] > 0 => t >= -drawn

\* What the iteration, or the next one, has not come to yet.
Ahead == {i \in DOMAIN Walked : i > at}

Creates(op, t) == op.kind = "create" /\ op.id = t

\* Where the create of t still is: a request, the rest of the array, the
\* operations to put back.
OnTheWay(t) == Creates(sent, t)
InAhead(t) == \E i \in Ahead : Creates(Walked[i], t)
InKept(t) == \E i \in DOMAIN kept : Creates(kept[i], t)

\* It is in one of these places at most, once, and only if the server made no
\* row of it, lost answers excepted.
CreateIsSingle(t) ==
  /\ \A i, j \in Ahead : Creates(Walked[i], t) /\ Creates(Walked[j], t) => i = j
  /\ \A i, j \in DOMAIN kept : Creates(kept[i], t) /\ Creates(kept[j], t) => i = j
  /\ ~(OnTheWay(t) /\ InAhead(t))
  /\ ~(OnTheWay(t) /\ InKept(t))
  /\ ~(InAhead(t) /\ InKept(t))

CreateIsNew(t) == OnTheWay(t) \/ InAhead(t) \/ InKept(t) => created[t] <= lost

\* An update collapses into one operation.
Single(queue) ==
  \A i, j \in DOMAIN queue :
    queue[i].id = queue[j].id /\ Changes(queue[i], queue[i].id) /\ Changes(queue[j], queue[j].id) => i = j

\* Where the last edit of each feature is, if nobody edits during a flush: in
\* the part of the array the flush has not come to or among what it puts back.
NothingPassedOver ==
  touched = {} =>
    /\ ~detached
    /\ saving => at \in DOMAIN ops /\ sent = ops[at]
    /\ \A i \in DOMAIN kept : \E j \in DOMAIN ops : j < at /\ kept[i] = ops[j]
    /\ Single(ops) /\ Single(kept)
    /\ \A f \in FeatureIds : want[f] # NoOp =>
         /\ want[f].id = f
         /\ \/ \E i \in DOMAIN ops : i >= at /\ ops[i] = want[f]
            \/ \E i \in DOMAIN kept : kept[i] = want[f]

EditInv ==
  /\ FlushShape
  /\ IdsAreDrawn
  /\ \A t \in Temps : CreateIsSingle(t) /\ CreateIsNew(t)
  /\ CreatedOnce
  /\ NothingPassedOver

=============================================================================
