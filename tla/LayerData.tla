------------------------------ MODULE LayerData ------------------------------
(***************************************************************************)
(* What the workspace shows of what the server owns, and how it changes    *)
(* it: the panel's list of layers and the table of the selected one.  They *)
(* meet in the selected layer and where a layer comes and goes.            *)
(***************************************************************************)
EXTENDS LayerList, AttributeTable

CONSTANT Scenarios   \* a set of [initial, left]: `left` bounds the steps of each kind

ASSUME ScenariosAssumption ==
  /\ DOMAIN Tables = Layers
  /\ \A s \in Scenarios : s.initial \in Seq(Layers) /\ IsInjective(s.initial)

VARIABLE left

vars == <<listVars, tableVars, left>>

Init ==
  \E s \in Scenarios :
    /\ ListInit(s.initial) /\ TableInit(ToSet(s.initial)) /\ left = s.left

Spend(kind) == left[kind] > 0 /\ left' = [left EXCEPT ![kind] = @ - 1]

\* A layer that is added has a table, one that is removed none one can reach.
TablesFollow ==
  features' = [l \in DOMAIN features |->
                 CASE l \notin DOMAIN rows' -> None
                   [] l \in DOMAIN rows' /\ features[l] = None -> NewTable
                   [] OTHER -> features[l]]

Columns == UNION {Tables[l] : l \in DOMAIN Tables}

UseThePanel ==
  /\ \/ Spend("patch") /\ \E l \in Listed : SetVisible(l) \/ \E o \in {0, 1} : SetOpacity(l, o)
     \/ Spend("move") /\ \E s \in Ordered, i \in 1..Cardinality(Listed), d \in {-1, 1} : Move(s, i, d)
     \/ Spend("drop") /\ \E l \in Listed : RemoveLayer(l)
     \/ Spend("add") /\ \E l \in Unused : AddLayer(l) \/ JobAddsLayer(l)
  /\ UNCHANGED tableVars

ChangesProceed ==
  \E i \in DOMAIN changes :
    \/ (Loads(i) \/ Fails(i) \/ Answered(i)) /\ UNCHANGED <<tableVars, left>>
    \/ Commits(i) /\ TablesFollow
       /\ UNCHANGED <<selected, fields, pages, view, editing, writes, doubt, left>>
    \/ ConnectionLost(i) /\ Spend("lost") /\ UNCHANGED tableVars

ListProceeds ==
  /\ \/ (ListIsRead \/ ListArrives) /\ UNCHANGED left
     \/ ListFails /\ Spend("lost")
  /\ UNCHANGED tableVars

UseTheTable ==
  /\ \/ Spend("select") /\ \E l \in Listed : SelectLayer(l)
     \/ Spend("turn") /\ \/ \E n \in {view.page - 1, view.page + 1} : SetPage(n)
                         \/ \E column \in Columns : SetSort(column)
     \/ Spend("edit") /\ \E id \in Rows : RemoveRow(id) \/ \E column \in Columns : BeginEdit(id, column)
     \/ (\E valid \in BOOLEAN : Types(valid)) /\ UNCHANGED left
     \/ (Escape \/ Commit) /\ UNCHANGED left
  /\ UNCHANGED listVars

TableProceeds ==
  /\ \/ UNCHANGED left /\ \/ \E l \in DOMAIN Tables : FieldsSettle(l)
                          \/ \E i \in DOMAIN writes : ServerWrites(i) \/ WriteAnswered(i)
                          \/ \E key \in DOMAIN pages : PageIsRead(key) \/ PageArrives(key)
     \/ Spend("lost") /\ \/ \E i \in DOMAIN writes : WriteLost(i)
                         \/ \E key \in DOMAIN pages : PageFails(key)
  /\ UNCHANGED listVars

Next == UseThePanel \/ ChangesProceed \/ ListProceeds \/ UseTheTable \/ TableProceeds

Spec == Init /\ [][Next]_vars

-----------------------------------------------------------------------------
\* The tables are those of the layers there are.
TablesAreOfLayers == \A l \in Layers : features[l] # None <=> l \in DOMAIN rows

\* Nobody has seen a layer that is not there yet.
NewIsUnseen ==
  LET seen == DOMAIN list.data \cup (IF list.fetch = "read" THEN DOMAIN list.answer ELSE {})
                \cup {key.layer : key \in DOMAIN pages}
  IN /\ seen \subseteq used
     /\ \A i \in DOMAIN changes :
          changes[i].op = "create" /\ changes[i].at \in {"sent", "loaded"} => changes[i].layer \notin seen

DataInv == ListInv /\ TableInv /\ TablesAreOfLayers /\ NewIsUnseen
=============================================================================
