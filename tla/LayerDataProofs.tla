-------------------------- MODULE LayerDataProofs --------------------------
(***************************************************************************)
(* The list comes to rest on what the database has, layers keep places of  *)
(* their own, no change undoes another, and the table shows what was       *)
(* saved: for every set of layers, every starting stack, any tables and    *)
(* any number of changes and writes under way.                             *)
(***************************************************************************)
EXTENDS LayerData, FiniteSetTheorems, TLAPS

(***************************************************************************)
(* Stacks and the places in them.                                          *)
(***************************************************************************)
LEMMA StackRows ==
  ASSUME NEW s, IsStack(s)
  PROVE  /\ DOMAIN s \subseteq Layers /\ IsFiniteSet(DOMAIN s) /\ s = [l \in DOMAIN s |-> s[l]]
         /\ \A l \in DOMAIN s : s[l] \in Row /\ s[l].z \in Nat
<1>1. DOMAIN s \subseteq Layers
  BY DEF IsStack
<1>2. IsFiniteSet(DOMAIN s)
  BY <1>1, LayersAssumption, FS_Subset
<1> QED BY <1>1, <1>2 DEF IsStack, Row

LEMMA NoneIsNoStack == ~IsStack(None)
  BY LayersAssumption DEF IsStack

\* A finite set of numbers has a greatest.
LEMMA GreatestExists ==
  ASSUME NEW S, IsFiniteSet(S), S \subseteq Int, S # {}
  PROVE  \E x \in S : \A y \in S : x >= y
<1> DEFINE HasGreatest(U) == \E x \in U : \A y \in U : x >= y
           Bad == {U \in SUBSET S : U # {} /\ ~HasGreatest(U)}
<1> SUFFICES ASSUME Bad # {} PROVE FALSE
  OBVIOUS
<1>1. IsWellFoundedOn(StrictSubsetOrdering(S), FiniteSubsetsOf(S))
  BY FS_StrictSubsetOrderingWellFounded
<1>2. Bad \subseteq FiniteSubsetsOf(S)
  BY FS_FiniteSubsetsOfFinite
<1>3. PICK U \in Bad : \A V \in Bad : <<V, U>> \notin StrictSubsetOrdering(S)
  <2> HIDE DEF Bad
  <2> QED BY <1>1, <1>2, WFMin
<1>4. PICK x \in U : TRUE
  OBVIOUS
<1> DEFINE V == U \ {x}
<1>5. V \in SUBSET S /\ V \subseteq U /\ V # U
  BY <1>3, <1>4
<1>6. <<V, U>> \in StrictSubsetOrdering(S)
  BY <1>3, <1>5 DEF StrictSubsetOrdering
<1>7. V = {} \/ HasGreatest(V)
  BY <1>3, <1>5, <1>6
<1>8. CASE V = {}
  BY <1>4, <1>8
<1>9. ASSUME NEW y \in V, \A j \in V : y >= j PROVE FALSE
  <2>1. x \in Int /\ y \in Int /\ V \subseteq Int /\ y \in U
    BY <1>3, <1>4, <1>9
  <2>2. CASE x > y
    <3>1. \A j \in U : x >= j
      BY <1>9, <2>1, <2>2
    <3> QED BY <1>4, <3>1
  <2>3. CASE y >= x
    <3>1. \A j \in U : y >= j
      BY <1>9, <2>1, <2>3
    <3> QED BY <2>1, <3>1
  <2> QED BY <2>1, <2>2, <2>3
<1> QED BY <1>7, <1>8, <1>9

\* An addition goes above every row its transaction read.
LEMMA NextZIsAbove ==
  ASSUME NEW s, IsStack(s)
  PROVE  NextZ(s) \in Nat /\ \A l \in DOMAIN s : s[l].z < NextZ(s)
<1> DEFINE places == {s[l].z : l \in DOMAIN s}
           place == [l \in DOMAIN s |-> s[l].z]
           all == {-1} \cup places
<1>1. IsFiniteSet(DOMAIN s) /\ \A l \in DOMAIN s : s[l].z \in Nat
  BY StackRows
<1>2. place \in Surjection(DOMAIN s, places)
  BY DEF Surjection
<1>3. IsFiniteSet(places)
  <2> HIDE DEF place, places
  <2> QED BY <1>1, <1>2, FS_Surjection
<1>4. IsFiniteSet(all) /\ all \subseteq Int /\ all # {} /\ -1 \in all
  <2>1. IsFiniteSet({-1})
    BY FS_Singleton
  <2>2. places \subseteq Int
    BY <1>1
  <2>3. IsFiniteSet(all)
    <3> HIDE DEF places
    <3> QED BY <1>3, <2>1, FS_Union
  <2> QED BY <2>2, <2>3
<1>5. \E x \in all : \A y \in all : x >= y
  <2> HIDE DEF all
  <2> QED BY <1>4, GreatestExists
<1>6. Max(all) \in all /\ \A y \in all : Max(all) >= y
  BY <1>5 DEF Max
<1>7. NextZ(s) = 1 + Max(all)
  BY DEF NextZ
<1>8. NextZ(s) \in Nat
  <2> DEFINE top == Max(all)
  <2>1. top \in Int /\ top >= -1
    <3> HIDE DEF all
    <3> QED BY <1>4, <1>6
  <2>2. NextZ(s) = 1 + top
    BY <1>7
  <2> HIDE DEF top
  <2> QED BY <2>1, <2>2
<1>9. ASSUME NEW l \in DOMAIN s PROVE s[l].z < NextZ(s)
  <2>1. s[l].z \in all /\ s[l].z \in Nat
    BY <1>1
  <2>2. Max(all) >= s[l].z /\ Max(all) \in Int
    BY <1>4, <1>6, <2>1
  <2> HIDE DEF all
  <2> QED BY <1>7, <2>1, <2>2
<1> QED BY <1>8, <1>9

(***************************************************************************)
(* A sequence of changes after one step: one more, one further, one less.  *)
(***************************************************************************)
LEMMA SeqOfItsOwn ==
  ASSUME NEW T, NEW q \in Seq(T)
  PROVE  q \in Seq(ToSet(q))
<1>1. Len(q) \in Nat /\ q \in [1..Len(q) -> ToSet(q)]
  BY DEF ToSet
<1> QED BY <1>1

LEMMA OneMore ==
  ASSUME NEW T, NEW s \in Seq(T), NEW c, NEW q, q = Append(s, c)
  PROVE  /\ q \in Seq(ToSet(q))
         /\ Len(s) + 1 \in DOMAIN q /\ Len(s) + 1 \notin DOMAIN s /\ q[Len(s) + 1] = c
         /\ \A i \in DOMAIN q : i \in DOMAIN s \/ i = Len(s) + 1
         /\ \A i \in DOMAIN s : i \in DOMAIN q /\ q[i] = s[i]
<1> DEFINE U == T \cup {c}
<1>1. \A i \in 1..Len(s) : s[i] \in U
  OBVIOUS
<1>2. Len(s) \in Nat /\ DOMAIN s = 1..Len(s) /\ s \in Seq(U) /\ c \in U
  BY <1>1
<1> HIDE DEF U
<1>3. /\ q \in Seq(U) /\ Len(q) = Len(s) + 1 /\ DOMAIN q = 1..(Len(s) + 1)
      /\ \A i \in 1..Len(s) : q[i] = s[i]
      /\ q[Len(s) + 1] = c
  BY <1>2
<1>4. q \in Seq(ToSet(q))
  BY <1>3, SeqOfItsOwn
<1>5. /\ Len(s) + 1 \in DOMAIN q /\ Len(s) + 1 \notin DOMAIN s
      /\ \A i \in DOMAIN q : i \in DOMAIN s \/ i = Len(s) + 1
      /\ \A i \in DOMAIN s : i \in DOMAIN q /\ q[i] = s[i]
  BY <1>2, <1>3
<1> QED BY <1>3, <1>4, <1>5

LEMMA OneFurther ==
  ASSUME NEW T, NEW s \in Seq(T), NEW i \in DOMAIN s, NEW c, NEW q, q = [s EXCEPT ![i] = c]
  PROVE  /\ q \in Seq(ToSet(q)) /\ DOMAIN q = DOMAIN s
         /\ \A j \in DOMAIN q : q[j] = IF j = i THEN c ELSE s[j]
<1> DEFINE U == T \cup {c}
<1>1. \A j \in 1..Len(s) : s[j] \in U
  OBVIOUS
<1>2. Len(s) \in Nat /\ DOMAIN s = 1..Len(s) /\ s \in Seq(U) /\ c \in U
  BY <1>1
<1> HIDE DEF U
<1>3. q \in Seq(U)
  BY <1>2
<1>4. q \in Seq(ToSet(q))
  BY <1>3, SeqOfItsOwn
<1> QED BY <1>4

LEMMA OneLess ==
  ASSUME NEW T, NEW s \in Seq(T), NEW i \in DOMAIN s, NEW q, q = RemoveAt(s, i)
  PROVE  /\ q \in Seq(ToSet(q))
         /\ \A j \in DOMAIN q : \E k \in DOMAIN s \ {i} : k = (IF j < i THEN j ELSE j + 1) /\ q[j] = s[k]
         /\ \A k \in DOMAIN s \ {i} : \E j \in DOMAIN q : q[j] = s[k]
<1> DEFINE front == SubSeq(s, 1, i - 1)
           back == SubSeq(s, i + 1, Len(s))
<1>1. /\ Len(s) \in Nat /\ i \in 1..Len(s)
      /\ \A k \in 1..Len(s) : s[k] \in T
  OBVIOUS
<1>2. /\ front \in Seq(T) /\ Len(front) = i - 1
      /\ \A k \in 1..(i - 1) : front[k] = s[k]
  BY <1>1
<1>3. /\ back \in Seq(T) /\ Len(back) = Len(s) - i
      /\ \A k \in 1..(Len(s) - i) : back[k] = s[i + k]
  BY <1>1
<1>4. q = front \o back
  BY DEF RemoveAt
<1> HIDE DEF front, back
<1>5. q \in Seq(T) /\ Len(q) = Len(s) - 1 /\ DOMAIN q = 1..(Len(s) - 1)
  BY <1>1, <1>2, <1>3, <1>4
<1>6. ASSUME NEW j \in DOMAIN q PROVE q[j] = s[IF j < i THEN j ELSE j + 1]
  <2>1. CASE j < i
    BY <1>1, <1>2, <1>3, <1>4, <1>5, <2>1
  <2>2. CASE ~(j < i)
    <3>1. q[j] = back[j - (i - 1)]
      BY <1>1, <1>2, <1>3, <1>4, <1>5, <2>2
    <3>2. j - (i - 1) \in 1..(Len(s) - i) /\ i + (j - (i - 1)) = j + 1
      BY <1>1, <1>5, <2>2
    <3> QED BY <1>3, <2>2, <3>1, <3>2
  <2> QED BY <2>1, <2>2
<1>7. ASSUME NEW j \in DOMAIN q
      PROVE  \E k \in DOMAIN s \ {i} : k = (IF j < i THEN j ELSE j + 1) /\ q[j] = s[k]
  <2> DEFINE k == IF j < i THEN j ELSE j + 1
  <2>1. k \in DOMAIN s \ {i}
    BY <1>1, <1>5
  <2>2. q[j] = s[k]
    BY <1>6
  <2> QED BY <2>1, <2>2
<1>8. ASSUME NEW k \in DOMAIN s \ {i} PROVE \E j \in DOMAIN q : q[j] = s[k]
  <2>1. CASE k < i
    BY <1>1, <1>5, <1>6, <2>1
  <2>2. CASE k > i
    <3>1. k - 1 \in DOMAIN q /\ ~(k - 1 < i) /\ (k - 1) + 1 = k
      BY <1>1, <1>5, <2>2
    <3> QED BY <1>6, <3>1
  <2> QED BY <1>1, <2>1, <2>2
<1>9. q \in Seq(ToSet(q))
  BY <1>5, SeqOfItsOwn
<1> QED BY <1>7, <1>8, <1>9

(***************************************************************************)
(* What a step of the workspace may do to the list.                        *)
(***************************************************************************)
\* Somebody asks for a change.
Asking(c) ==
  /\ Mutate(c) /\ IsChange(c) /\ c.at = "sent"
  /\ c.op = "create" => c.layer \in Unused
  /\ (c.heard /\ UNCHANGED missed) \/ missed' = TRUE

\* The order the panel sends is one of layers.
LEMMA OrdersAreOfLayers ==
  ASSUME ListTypeOK, NEW s \in Ordered, NEW i \in DOMAIN s, NEW d \in Int, i + d \in DOMAIN s
  PROVE  Reverse(MoveItem(s, i, i + d)) \in Seq(Layers)
<1>1. Listed \subseteq Layers /\ Cardinality(Listed) \in Nat
  BY StackRows, FS_CardinalityType DEF ListTypeOK, Listed
<1>2. s \in Seq(Layers)
  BY <1>1 DEF Ordered, SetToSeqs
<1>3. Clamped(i, s) = i /\ Clamped(i + d, s) = i + d
  BY <1>2 DEF Clamped
<1> DEFINE rest == RemoveAt(s, i)
           moved == InsertAt(rest, i + d, s[i])
<1>4. i \in 1..Len(s) /\ Len(s) \in Nat /\ s[i] \in Layers
  BY <1>2
<1>5. rest \in Seq(Layers) /\ Len(rest) = Len(s) - 1
  <2> DEFINE front == SubSeq(s, 1, i - 1)
             back == SubSeq(s, i + 1, Len(s))
  <2>1. /\ front \in Seq(Layers) /\ Len(front) = i - 1
        /\ back \in Seq(Layers) /\ Len(back) = Len(s) - i
    BY <1>2, <1>4
  <2>2. rest = front \o back
    BY DEF RemoveAt
  <2> HIDE DEF front, back, rest
  <2> QED BY <1>4, <2>1, <2>2
<1> HIDE DEF rest
<1>6. i + d \in 1..Len(s)
  BY <1>2
<1>7. SubSeq(rest, 1, i + d - 1) \in Seq(Layers) /\ SubSeq(rest, i + d, Len(rest)) \in Seq(Layers)
  BY <1>4, <1>5, <1>6
<1>8. moved \in Seq(Layers)
  BY <1>4, <1>7 DEF InsertAt
<1>9. MoveItem(s, i, i + d) = moved
  BY <1>3 DEF MoveItem, rest
<1> HIDE DEF moved
<1>10. Reverse(moved) \in Seq(Layers)
  <2>1. Len(moved) \in Nat /\ \A k \in 1..Len(moved) : moved[k] \in Layers
    BY <1>8
  <2>2. \A k \in 1..Len(moved) : (Len(moved) - k) + 1 \in 1..Len(moved)
    BY <2>1
  <2> QED BY <2>1, <2>2 DEF Reverse
<1> QED BY <1>9, <1>10

LEMMA ChangesAreTyped ==
  ASSUME NEW op \in {"patch", "remove", "create", "reorder"}, NEW l, NEW field, NEW value, NEW order,
         NEW heard \in BOOLEAN,
         \/ op = "patch" /\ l \in Layers /\ field \in {"visible", "opacity"} /\ value \in Values(field)
            /\ order = <<>>
         \/ op \in {"remove", "create"} /\ l \in Layers /\ field = None /\ order = <<>>
         \/ op = "reorder" /\ l = None /\ field = None /\ order \in Seq(Layers)
  PROVE  IsChange(Change(op, l, field, value, order, heard))
<1> DEFINE c == Change(op, l, field, value, order, heard)
<1>1. /\ c.op = op /\ c.layer = l /\ c.field = field /\ c.value = value /\ c.order = order
      /\ c = [op |-> op, layer |-> l, field |-> field, value |-> value, order |-> order,
              heard |-> heard, at |-> "sent", seen |-> c.seen]
  BY DEF Change
<1>2. <<>> \in Seq(Layers)
  OBVIOUS
<1> HIDE DEF c
<1>3. IsChange(c)
  <2>1. l \in Layers \cup {None} /\ field \in {"visible", "opacity", None} /\ order \in Seq(Layers)
    BY <1>2
  <2>2. c \in [op : {"patch", "remove", "create", "reorder"}, layer : Layers \cup {None},
              field : {"visible", "opacity", None}, value : {c.value}, order : Seq(Layers),
              heard : BOOLEAN, at : {"sent", "loaded", "done", "refused"}, seen : {c.seen}]
    BY <1>1, <2>1
  <2> QED BY <1>1, <2>2 DEF IsChange
<1> QED BY <1>3 DEF c

LEMMA StepsOfTheList ==
  ASSUME ListTypeOK, [Next]_vars
  PROVE  \/ UNCHANGED listVars
         \/ \E c : Asking(c)
         \/ \E i \in DOMAIN changes :
              Loads(i) \/ Commits(i) \/ Fails(i) \/ Answered(i) \/ ConnectionLost(i)
         \/ ListIsRead \/ ListArrives \/ ListFails
<1>1. CASE UNCHANGED vars \/ UseTheTable \/ TableProceeds
  BY <1>1 DEF vars, UseTheTable, TableProceeds
<1>2. CASE ListProceeds
  BY <1>2 DEF ListProceeds
<1>3. CASE ChangesProceed
  BY <1>3 DEF ChangesProceed
<1>4. CASE UseThePanel
  <2>1. Listed \subseteq Layers /\ \A l \in Listed : list.data[l] \in Row
    BY StackRows DEF ListTypeOK, Listed
  <2>2. ASSUME NEW l \in Listed, SetVisible(l) PROVE \E c : Asking(c)
    <3> DEFINE c == Change("patch", l, "visible", ~list.data[l].visible, <<>>, TRUE)
    <3>1. list.data[l].visible \in BOOLEAN
      BY <2>1 DEF Row
    <3>2. (~list.data[l].visible) \in Values("visible")
      BY <3>1 DEF Values
    <3>3. IsChange(c)
      BY <2>1, <3>2, ChangesAreTyped
    <3> QED BY <2>2, <3>3 DEF SetVisible, Asks, Asking, Change
  <2>3. ASSUME NEW l \in Listed, NEW o \in {0, 1}, SetOpacity(l, o) PROVE \E c : Asking(c)
    <3> DEFINE c == Change("patch", l, "opacity", o, <<>>, TRUE)
    <3>1. IsChange(c)
      BY <2>1, ChangesAreTyped DEF Values
    <3> QED BY <2>3, <3>1 DEF SetOpacity, Asks, Asking, Change
  <2>4. ASSUME NEW s \in Ordered, NEW i, NEW d \in {-1, 1}, Move(s, i, d) PROVE \E c : Asking(c)
    <3> DEFINE c == Change("reorder", None, None, None, Reverse(MoveItem(s, i, i + d)), TRUE)
    <3>1. i \in DOMAIN s /\ i + d \in DOMAIN s
      BY <2>4 DEF Move
    <3>2. Reverse(MoveItem(s, i, i + d)) \in Seq(Layers)
      BY <3>1, OrdersAreOfLayers
    <3>3. IsChange(c)
      BY <3>2, ChangesAreTyped
    <3> QED BY <2>4, <3>3 DEF Move, Reordered, Asks, Asking, Change
  <2>5. ASSUME NEW l \in Listed, RemoveLayer(l) PROVE \E c : Asking(c)
    <3> DEFINE c == Change("remove", l, None, None, <<>>, TRUE)
    <3>1. IsChange(c)
      BY <2>1, ChangesAreTyped
    <3> QED BY <2>5, <3>1 DEF RemoveLayer, Asks, Asking, Change
  <2>6. ASSUME NEW l \in Unused, AddLayer(l) PROVE \E c : Asking(c)
    <3> DEFINE c == Change("create", l, None, None, <<>>, TRUE)
    <3>1. IsChange(c)
      BY ChangesAreTyped DEF Unused
    <3> QED BY <2>6, <3>1 DEF AddLayer, Asks, Asking, Change
  <2>7. ASSUME NEW l \in Unused, JobAddsLayer(l) PROVE \E c : Asking(c)
    <3> DEFINE c == Change("create", l, None, None, <<>>, FALSE)
    <3>1. IsChange(c)
      BY ChangesAreTyped DEF Unused
    <3> QED BY <2>7, <3>1 DEF JobAddsLayer, Asking, Change
  <2> QED BY <1>4, <2>2, <2>3, <2>4, <2>5, <2>6, <2>7 DEF UseThePanel
<1> QED BY <1>1, <1>2, <1>3, <1>4 DEF Next

(***************************************************************************)
(* What the changes are after a step.                                      *)
(***************************************************************************)
\* The same request, further.
LEMMA FurtherChange ==
  ASSUME NEW c, IsChange(c), NEW at \in {"sent", "loaded", "done", "refused"}, NEW s,
         NEW d, d = [op |-> c.op, layer |-> c.layer, field |-> c.field, value |-> c.value,
                     order |-> c.order, heard |-> c.heard, at |-> at, seen |-> s]
  PROVE  /\ IsChange(d) /\ d.op = c.op /\ d.layer = c.layer /\ d.order = c.order
         /\ d.heard = c.heard /\ d.at = at /\ d.seen = s
<1>1. /\ d.op = c.op /\ d.layer = c.layer /\ d.field = c.field /\ d.value = c.value /\ d.order = c.order
      /\ d.heard = c.heard /\ d.at = at /\ d.seen = s
  OBVIOUS
<1>2. /\ c.op \in {"patch", "remove", "create", "reorder"} /\ c.layer \in Layers \cup {None}
      /\ c.field \in {"visible", "opacity", None} /\ c.order \in Seq(Layers)
      /\ c.op # "reorder" => c.layer \in Layers
      /\ c.op = "patch" => c.field \in {"visible", "opacity"} /\ c.value \in Values(c.field)
      /\ c.heard \in BOOLEAN /\ c.at \in {"sent", "loaded", "done", "refused"}
  BY DEF IsChange
<1>3. d \in [op : {"patch", "remove", "create", "reorder"}, layer : Layers \cup {None},
            field : {"visible", "opacity", None}, value : {d.value}, order : Seq(Layers),
            heard : BOOLEAN, at : {"sent", "loaded", "done", "refused"}, seen : {d.seen}]
  BY <1>1, <1>2
<1> QED BY <1>1, <1>2, <1>3 DEF IsChange

\* The same request, with nobody listening.
LEMMA UnheardChange ==
  ASSUME NEW c, IsChange(c), NEW d, d = [c EXCEPT !.heard = FALSE]
  PROVE  /\ IsChange(d) /\ d.op = c.op /\ d.layer = c.layer /\ d.order = c.order
         /\ d.at = c.at /\ d.seen = c.seen
<1>1. d = [op |-> c.op, layer |-> c.layer, field |-> c.field, value |-> c.value, order |-> c.order,
           heard |-> FALSE, at |-> c.at, seen |-> c.seen]
  BY DEF IsChange
<1>2. /\ c.op \in {"patch", "remove", "create", "reorder"} /\ c.layer \in Layers \cup {None}
      /\ c.field \in {"visible", "opacity", None} /\ c.order \in Seq(Layers)
      /\ c.op # "reorder" => c.layer \in Layers
      /\ c.op = "patch" => c.field \in {"visible", "opacity"} /\ c.value \in Values(c.field)
      /\ c.heard \in BOOLEAN /\ c.at \in {"sent", "loaded", "done", "refused"}
  BY DEF IsChange
<1>3. d \in [op : {"patch", "remove", "create", "reorder"}, layer : Layers \cup {None},
            field : {"visible", "opacity", None}, value : {d.value}, order : Seq(Layers),
            heard : BOOLEAN, at : {"sent", "loaded", "done", "refused"}, seen : {d.seen}]
  BY <1>1, <1>2
<1> QED BY <1>1, <1>2, <1>3 DEF IsChange

\* One change more, the others as they were.
LEMMA AfterAsking ==
  ASSUME ListTypeOK, NEW c, Asking(c)
  PROVE  /\ changes' \in Seq(ToSet(changes'))
         /\ Len(changes) + 1 \in DOMAIN changes' /\ Len(changes) + 1 \notin DOMAIN changes
         /\ changes'[Len(changes) + 1] = c
         /\ \A j \in DOMAIN changes' : j \in DOMAIN changes \/ j = Len(changes) + 1
         /\ \A j \in DOMAIN changes : j \in DOMAIN changes' /\ changes'[j] = changes[j]
         /\ \A j \in DOMAIN changes' : IsChange(changes'[j])
<1> DEFINE q == Append(changes, c)
<1>1. changes' = q
  BY DEF Asking, Mutate
<1>2. /\ q \in Seq(ToSet(q))
      /\ Len(changes) + 1 \in DOMAIN q /\ Len(changes) + 1 \notin DOMAIN changes /\ q[Len(changes) + 1] = c
      /\ \A i \in DOMAIN q : i \in DOMAIN changes \/ i = Len(changes) + 1
      /\ \A i \in DOMAIN changes : i \in DOMAIN q /\ q[i] = changes[i]
  <2> HIDE DEF q
  <2> QED BY OneMore DEF ListTypeOK, q
<1> HIDE DEF q
<1>3. \A j \in DOMAIN q : IsChange(q[j])
  BY <1>2 DEF Asking, ListTypeOK
<1> QED BY <1>1, <1>2, <1>3

\* One change is further.
LEMMA AfterAdvance ==
  ASSUME ListTypeOK, NEW i \in DOMAIN changes, NEW at \in {"sent", "loaded", "done", "refused"}, NEW s,
         Advances(i, at, s)
  PROVE  /\ changes' \in Seq(ToSet(changes')) /\ DOMAIN changes' = DOMAIN changes
         /\ \A j \in DOMAIN changes \ {i} : changes'[j] = changes[j]
         /\ \A j \in DOMAIN changes :
              /\ IsChange(changes'[j])
              /\ changes'[j].op = changes[j].op /\ changes'[j].layer = changes[j].layer
              /\ changes'[j].order = changes[j].order /\ changes'[j].heard = changes[j].heard
         /\ changes'[i].at = at /\ changes'[i].seen = s
<1>1. PICK c : c = changes[i]
  OBVIOUS
<1>2. PICK d : d = [c EXCEPT !.at = at, !.seen = s]
  OBVIOUS
<1>3. IsChange(c)
  BY <1>1 DEF ListTypeOK
<1>4. /\ IsChange(d) /\ d.op = c.op /\ d.layer = c.layer /\ d.order = c.order /\ d.heard = c.heard
      /\ d.at = at /\ d.seen = s
  <2>1. d = [op |-> c.op, layer |-> c.layer, field |-> c.field, value |-> c.value, order |-> c.order,
             heard |-> c.heard, at |-> at, seen |-> s]
    BY <1>2, <1>3 DEF IsChange
  <2> QED BY <1>3, <2>1, FurtherChange
<1> DEFINE q == [changes EXCEPT ![i] = d]
<1>5. changes' = q
  BY <1>1, <1>2 DEF Advances
<1>6. /\ q \in Seq(ToSet(q)) /\ DOMAIN q = DOMAIN changes
      /\ \A j \in DOMAIN q : q[j] = IF j = i THEN d ELSE changes[j]
  <2> HIDE DEF q
  <2> QED BY OneFurther DEF ListTypeOK, q
<1> HIDE DEF q
<1> QED BY <1>1, <1>4, <1>5, <1>6 DEF ListTypeOK

\* Nobody listens for one of the answers any more.
LEMMA AfterLoss ==
  ASSUME ListTypeOK, NEW i \in DOMAIN changes, changes' = [changes EXCEPT ![i].heard = FALSE]
  PROVE  /\ changes' \in Seq(ToSet(changes')) /\ DOMAIN changes' = DOMAIN changes
         /\ \A j \in DOMAIN changes :
              /\ IsChange(changes'[j])
              /\ changes'[j].op = changes[j].op /\ changes'[j].layer = changes[j].layer
              /\ changes'[j].order = changes[j].order
              /\ changes'[j].at = changes[j].at /\ changes'[j].seen = changes[j].seen
<1> DEFINE c == changes[i]
           d == [c EXCEPT !.heard = FALSE]
           q == [changes EXCEPT ![i] = d]
<1>1. IsChange(c)
  BY DEF ListTypeOK
<1>2. d = [c EXCEPT !.heard = FALSE]
  OBVIOUS
<1>3. /\ IsChange(d) /\ d.op = c.op /\ d.layer = c.layer /\ d.order = c.order
      /\ d.at = c.at /\ d.seen = c.seen
  <2> HIDE DEF c, d
  <2> QED BY <1>1, <1>2, UnheardChange
<1>4. changes' = q
  BY DEF ListTypeOK
<1> HIDE DEF d
<1>5. /\ q \in Seq(ToSet(q)) /\ DOMAIN q = DOMAIN changes
      /\ \A j \in DOMAIN q : q[j] = IF j = i THEN d ELSE changes[j]
  <2> HIDE DEF q
  <2> QED BY OneFurther DEF ListTypeOK, q
<1> HIDE DEF q
<1> QED BY <1>3, <1>4, <1>5 DEF ListTypeOK

\* One change is no more.
LEMMA AfterRemoval ==
  ASSUME ListTypeOK, NEW i \in DOMAIN changes, changes' = RemoveAt(changes, i)
  PROVE  /\ changes' \in Seq(ToSet(changes'))
         /\ \A j \in DOMAIN changes' : \E k \in DOMAIN changes \ {i} :
              k = (IF j < i THEN j ELSE j + 1) /\ changes'[j] = changes[k]
         /\ \A k \in DOMAIN changes \ {i} : \E j \in DOMAIN changes' : changes'[j] = changes[k]
         /\ \A j \in DOMAIN changes' : j \in Int /\ IsChange(changes'[j])
<1> DEFINE q == RemoveAt(changes, i)
<1>1. changes' = q
  OBVIOUS
<1>2. /\ q \in Seq(ToSet(q))
      /\ \A j \in DOMAIN q : \E k \in DOMAIN changes \ {i} :
            k = (IF j < i THEN j ELSE j + 1) /\ q[j] = changes[k]
      /\ \A k \in DOMAIN changes \ {i} : \E j \in DOMAIN q : q[j] = changes[k]
  <2> HIDE DEF q
  <2> QED BY OneLess DEF ListTypeOK, q
<1> HIDE DEF q
<1>3. ASSUME NEW j \in DOMAIN q PROVE j \in Int /\ IsChange(q[j])
  <2>1. j \in 1..Len(q)
    BY <1>2
  <2> QED BY <1>2, <2>1 DEF ListTypeOK
<1> QED BY <1>1, <1>2, <1>3

(***************************************************************************)
(* The rows a transaction writes.                                          *)
(***************************************************************************)
LEMMA PlaceIsFound ==
  ASSUME NEW order \in Seq(Layers), NEW l \in ToSet(order)
  PROVE  Place(order, l) \in Nat /\ Place(order, l) + 1 \in DOMAIN order /\ order[Place(order, l) + 1] = l
<1>1. \E i \in DOMAIN order : order[i] = l
  BY DEF ToSet
<1> DEFINE i == CHOOSE i \in DOMAIN order : order[i] = l
<1>2. i \in DOMAIN order /\ order[i] = l
  BY <1>1
<1>3. i \in 1..Len(order) /\ Len(order) \in Nat
  BY <1>2
<1>4. Place(order, l) = i - 1
  BY DEF Place
<1> HIDE DEF i
<1> QED BY <1>2, <1>3, <1>4

LEMMA UpdatedRows ==
  ASSUME NEW c, NEW l
  PROVE  /\ DOMAIN Updated(c, l) = LayerColumns
         /\ \A f \in LayerColumns :
              Updated(c, l)[f] = IF Dirty(c, l, f) THEN IF c.op = "patch" THEN c.value ELSE Place(c.order, l)
                                 ELSE rows[l][f]
  BY DEF Updated

LEMMA WrittenIsStack ==
  ASSUME ListTypeOK, NEW c, IsChange(c), Loaded(c)
  PROVE  IsStack(Written(c))
<1>1. DOMAIN rows \subseteq Layers /\ \A l \in DOMAIN rows : rows[l] \in Row
  BY StackRows DEF ListTypeOK
<1>2. CASE c.op = "remove"
  <2> DEFINE w == [l \in DOMAIN rows \ {c.layer} |-> rows[l]]
  <2>1. Written(c) = w
    BY <1>2 DEF Written
  <2>2. w \in [DOMAIN rows \ {c.layer} -> Row]
    BY <1>1
  <2> HIDE DEF w
  <2> QED BY <1>1, <2>1, <2>2 DEF IsStack
<1>3. CASE c.op = "create"
  <2> DEFINE new == [z |-> NextZ(c.seen), visible |-> TRUE, opacity |-> 1]
             w == [l \in DOMAIN rows \cup {c.layer} |-> IF l = c.layer THEN new ELSE rows[l]]
  <2>1. Written(c) = w
    BY <1>3 DEF Written
  <2>2. new \in Row /\ c.layer \in Layers
    BY <1>3, NextZIsAbove DEF Loaded, Row, IsChange
  <2> HIDE DEF new
  <2>3. w \in [DOMAIN rows \cup {c.layer} -> Row]
    BY <1>1, <2>2
  <2> HIDE DEF w
  <2> QED BY <1>1, <2>1, <2>2, <2>3 DEF IsStack
<1>4. CASE c.op \in {"patch", "reorder"}
  <2>1. ASSUME NEW l \in DOMAIN rows PROVE Updated(c, l) \in Row
    <3>1. rows[l].z \in Nat /\ rows[l].visible \in BOOLEAN /\ rows[l].opacity \in {0, 1}
      BY <1>1, <2>1 DEF Row
    <3>2. c.op = "patch" => c.field \in {"visible", "opacity"} /\ c.value \in Values(c.field)
      BY DEF IsChange
    <3>3. c.op = "reorder" /\ l \in ToSet(c.order) => Place(c.order, l) \in Nat
      BY PlaceIsFound DEF IsChange
    <3>4. Updated(c, l)["z"] \in Nat
      BY <1>4, <3>1, <3>2, <3>3, UpdatedRows DEF Dirty, LayerColumns
    <3>5. Updated(c, l)["visible"] \in BOOLEAN
      BY <1>4, <3>1, <3>2, UpdatedRows DEF Dirty, LayerColumns, Values
    <3>6. Updated(c, l)["opacity"] \in {0, 1}
      BY <1>4, <3>1, <3>2, UpdatedRows DEF Dirty, LayerColumns, Values
    <3> QED BY <3>4, <3>5, <3>6 DEF Updated, LayerColumns, Row
  <2>2. Written(c) = [l \in DOMAIN rows |-> Updated(c, l)]
    BY <1>4 DEF Written
  <2>3. Written(c) \in [DOMAIN rows -> Row]
    BY <2>1, <2>2
  <2> QED BY <1>1, <2>3 DEF IsStack
<1> QED BY <1>2, <1>3, <1>4 DEF IsChange

\* The query of the list stays one.
LEMMA ListStaysTyped ==
  ASSUME ListTypeOK,
         \/ UNCHANGED list
         \/ \E i \in DOMAIN changes : list' = OnSuccess(changes[i])
         \/ ListIsRead \/ ListArrives \/ ListFails
  PROVE  IsQuery(list') /\ IsStack(list'.data) /\ (list'.fetch = "read" => IsStack(list'.answer))
<1>1. CASE UNCHANGED list
  BY <1>1 DEF ListTypeOK
<1>2. ASSUME NEW i \in DOMAIN changes, list' = OnSuccess(changes[i])
      PROVE  list' = Query(list.data, TRUE, list.error, "asked", None)
  <2>1. Restarts(list) /\ list.data # None
    BY NoneIsNoStack DEF Restarts, ListTypeOK
  <2> QED BY <1>2, <2>1, Zenon DEF OnSuccess, Invalidated, ListTypeOK, IsQuery
<1>3. CASE \E i \in DOMAIN changes : list' = OnSuccess(changes[i])
  <2>1. list' = Query(list.data, TRUE, list.error, "asked", None)
    BY <1>2, <1>3
  <2>2. IsStack(list.data) /\ list.error \in BOOLEAN
    BY DEF ListTypeOK, IsQuery
  <2> QED BY <2>1, <2>2 DEF Query, IsQuery
<1>4. CASE ListIsRead
  BY <1>4 DEF ListIsRead, Reads, Query, ListTypeOK, IsQuery
<1>5. CASE ListArrives
  <2>1. IsStack(list.answer) /\ list' = Query(list.answer, FALSE, FALSE, "none", None)
    BY <1>5 DEF ListArrives, Arrived, ListTypeOK
  <2> QED BY <2>1 DEF Query, IsQuery
<1>6. CASE ListFails
  <2>1. list' = Query(list.data, list.invalid, TRUE, "none", None)
    BY <1>6 DEF ListFails, Failed
  <2> QED BY <2>1 DEF Query, ListTypeOK, IsQuery
<1> QED BY <1>1, <1>3, <1>4, <1>5, <1>6

(***************************************************************************)
(* The parts of the invariant, step by step.                               *)
(***************************************************************************)
LEMMA TypeKept ==
  ASSUME ListTypeOK, LoadedFits, [Next]_vars
  PROVE  ListTypeOK'
<1> DEFINE Unchanged == UNCHANGED <<rows, missed, raced, used>>
           Same == changes' \in Seq(ToSet(changes')) /\ \A i \in DOMAIN changes' : IsChange(changes'[i])
<1>1. ASSUME Same, IsStack(rows'), used' \in SUBSET Layers, missed' \in BOOLEAN, raced' \in BOOLEAN,
             \/ UNCHANGED list
             \/ \E i \in DOMAIN changes : list' = OnSuccess(changes[i])
             \/ ListIsRead \/ ListArrives \/ ListFails
      PROVE  ListTypeOK'
  BY <1>1, ListStaysTyped DEF ListTypeOK
<1>2. IsStack(rows) /\ used \in SUBSET Layers /\ missed \in BOOLEAN /\ raced \in BOOLEAN
  BY DEF ListTypeOK
<1>3. UNCHANGED changes => Same
  BY DEF ListTypeOK
<1> HIDE DEF Same
<1>4. CASE UNCHANGED listVars
  BY <1>1, <1>2, <1>3, <1>4 DEF listVars
<1>5. ASSUME NEW c, Asking(c) PROVE ListTypeOK'
  <2>1. Same
    BY <1>5, AfterAsking DEF Same
  <2>2. used' \in SUBSET Layers /\ missed' \in BOOLEAN
    BY <1>2, <1>5 DEF Asking, Mutate, Unused
  <2> QED BY <1>1, <1>2, <1>5, <2>1, <2>2 DEF Asking, Mutate
<1>6. ASSUME NEW i \in DOMAIN changes, Loads(i) PROVE ListTypeOK'
  <2>1. Same
    BY <1>6, AfterAdvance DEF Loads, Same
  <2> QED BY <1>1, <1>2, <1>6, <2>1 DEF Loads
<1>7. ASSUME NEW i \in DOMAIN changes, Commits(i) PROVE ListTypeOK'
  <2>1. Same
    BY <1>7, AfterAdvance DEF Commits, Same
  <2>2. IsStack(rows')
    BY <1>7, WrittenIsStack DEF Commits, LoadedFits, ListTypeOK
  <2>3. raced' \in BOOLEAN
    BY <1>2, <1>7 DEF Commits
  <2> QED BY <1>1, <1>2, <1>7, <2>1, <2>2, <2>3 DEF Commits
<1>8. ASSUME NEW i \in DOMAIN changes, Fails(i) PROVE ListTypeOK'
  <2>1. Same
    BY <1>8, AfterAdvance DEF Fails, Same
  <2> QED BY <1>1, <1>2, <1>8, <2>1 DEF Fails
<1>9. ASSUME NEW i \in DOMAIN changes, Answered(i) PROVE ListTypeOK'
  <2>1. Same
    BY <1>9, AfterRemoval DEF Answered, Same
  <2>2. UNCHANGED list \/ list' = OnSuccess(changes[i])
    BY <1>9 DEF Answered
  <2> QED BY <1>1, <1>2, <1>9, <2>1, <2>2 DEF Answered
<1>10. ASSUME NEW i \in DOMAIN changes, ConnectionLost(i) PROVE ListTypeOK'
  <2>1. Same
    BY <1>10, AfterLoss, AfterRemoval DEF ConnectionLost, Same
  <2> QED BY <1>1, <1>2, <1>10, <2>1 DEF ConnectionLost
<1>11. CASE ListIsRead \/ ListArrives \/ ListFails
  BY <1>1, <1>2, <1>3, <1>11 DEF ListIsRead, ListArrives, ListFails
<1> QED BY <1>4, <1>5, <1>6, <1>7, <1>8, <1>9, <1>10, <1>11, StepsOfTheList

\* What a transaction has read is never taken from it.
LEMMA LoadedKept ==
  ASSUME ListTypeOK, LoadedFits, CreatesAreNew, [Next]_vars
  PROVE  LoadedFits'
<1> DEFINE Fits(q, ids) ==
      \A j \in DOMAIN q : q[j].at = "loaded" =>
        /\ IsStack(q[j].seen) /\ DOMAIN q[j].seen \subseteq ids
        /\ q[j].op = "patch" => q[j].layer \in DOMAIN q[j].seen
        /\ q[j].op = "reorder" => ToSet(q[j].order) = DOMAIN q[j].seen /\ IsInjective(q[j].order)
<1>1. LoadedFits <=> Fits(changes, used)
  BY DEF LoadedFits, Loaded
<1>2. LoadedFits' <=> Fits(changes', used')
  BY DEF LoadedFits, Loaded
<1>3. CASE UNCHANGED <<changes, used>>
  BY <1>1, <1>2, <1>3
<1>4. ASSUME NEW c, Asking(c) PROVE Fits(changes', used')
  <2>1. used \subseteq used' /\ c.at = "sent"
    BY <1>4 DEF Asking, Mutate
  <2> QED BY <1>1, <1>4, <2>1, AfterAsking
<1>5. ASSUME NEW i \in DOMAIN changes, Loads(i) PROVE Fits(changes', used')
  <2>1. CASE Found(changes[i])
    <3>1. /\ DOMAIN changes' = DOMAIN changes
          /\ \A j \in DOMAIN changes \ {i} : changes'[j] = changes[j]
          /\ changes'[i].op = changes[i].op /\ changes'[i].layer = changes[i].layer
          /\ changes'[i].order = changes[i].order /\ changes'[i].seen = rows
      BY <1>5, <2>1, AfterAdvance DEF Loads
    <3>2. IsStack(rows) /\ DOMAIN rows \subseteq used
      BY DEF ListTypeOK, CreatesAreNew
    <3> QED BY <1>1, <1>5, <2>1, <3>1, <3>2 DEF Loads, Found
  <2>2. CASE ~Found(changes[i])
    <3>1. /\ DOMAIN changes' = DOMAIN changes
          /\ \A j \in DOMAIN changes \ {i} : changes'[j] = changes[j]
          /\ changes'[i].at = "refused"
      BY <1>5, <2>2, AfterAdvance DEF Loads
    <3> QED BY <1>1, <1>5, <3>1 DEF Loads
  <2> QED BY <2>1, <2>2
<1>6. ASSUME NEW i \in DOMAIN changes, Commits(i) \/ Fails(i) PROVE Fits(changes', used')
  <2>1. /\ DOMAIN changes' = DOMAIN changes
        /\ \A j \in DOMAIN changes \ {i} : changes'[j] = changes[j]
        /\ changes'[i].at \in {"done", "refused"} /\ used' = used
    BY <1>6, AfterAdvance DEF Commits, Fails
  <2> QED BY <1>1, <2>1
<1>7. ASSUME NEW i \in DOMAIN changes, changes' = RemoveAt(changes, i), used' = used
      PROVE  Fits(changes', used')
  BY <1>1, <1>7, AfterRemoval
<1>8. ASSUME NEW i \in DOMAIN changes, ConnectionLost(i) PROVE Fits(changes', used')
  <2>1. CASE changes' = [changes EXCEPT ![i].heard = FALSE]
    BY <1>1, <1>8, <2>1, AfterLoss DEF ConnectionLost
  <2> QED BY <1>7, <1>8, <2>1 DEF ConnectionLost
<1> QED
  <2> HIDE DEF Fits
  <2>1. ASSUME NEW i \in DOMAIN changes, Answered(i) PROVE Fits(changes', used')
    BY <1>7, <2>1 DEF Answered
  <2>2. CASE UNCHANGED listVars \/ ListIsRead \/ ListArrives \/ ListFails
    BY <1>3, <2>2 DEF listVars, ListIsRead, ListArrives, ListFails
  <2> QED BY <1>2, <1>4, <1>5, <1>6, <1>8, <2>1, <2>2, StepsOfTheList

\* The layers of additions stay new until they are there.
LEMMA CreatesKept ==
  ASSUME ListTypeOK, LoadedFits, CreatesAreNew, [Next]_vars
  PROVE  CreatesAreNew'
<1>1. /\ DOMAIN rows \subseteq used
      /\ \A i \in DOMAIN changes : changes[i].op = "create" =>
           /\ changes[i].layer \in used
           /\ \A j \in DOMAIN changes :
                changes[j].op = "create" /\ changes[j].layer = changes[i].layer => j = i
           /\ changes[i].at \in {"sent", "loaded"} =>
                /\ changes[i].layer \notin DOMAIN rows
                /\ \A j \in DOMAIN changes :
                     changes[j].at = "loaded" => changes[i].layer \notin DOMAIN changes[j].seen
  BY DEF CreatesAreNew
<1>2. \A j \in DOMAIN changes : changes[j].at = "loaded" => DOMAIN changes[j].seen \subseteq used
  BY DEF LoadedFits, Loaded
<1>3. CASE UNCHANGED <<rows, changes, used>>
  BY <1>3 DEF CreatesAreNew
<1>4. ASSUME NEW c, Asking(c) PROVE CreatesAreNew'
  <2>1. /\ rows' = rows /\ c.at = "sent" /\ used \subseteq used'
        /\ c.op = "create" => c.layer \notin used /\ c.layer \in used'
    BY <1>4 DEF Asking, Mutate, Unused
  <2>2. /\ Len(changes) + 1 \in DOMAIN changes' /\ Len(changes) + 1 \notin DOMAIN changes
        /\ changes'[Len(changes) + 1] = c
        /\ \A j \in DOMAIN changes' : j \in DOMAIN changes \/ j = Len(changes) + 1
        /\ \A j \in DOMAIN changes : j \in DOMAIN changes' /\ changes'[j] = changes[j]
    BY <1>4, AfterAsking
  <2> QED BY <1>1, <1>2, <2>1, <2>2 DEF CreatesAreNew
<1>5. ASSUME NEW i \in DOMAIN changes, Loads(i) PROVE CreatesAreNew'
  <2>1. /\ DOMAIN changes' = DOMAIN changes
        /\ \A j \in DOMAIN changes \ {i} : changes'[j] = changes[j]
        /\ changes'[i].op = changes[i].op /\ changes'[i].layer = changes[i].layer
        /\ (changes'[i].at = "loaded" /\ changes'[i].seen = rows) \/ changes'[i].at = "refused"
    BY <1>5, AfterAdvance DEF Loads
  <2>2. rows' = rows /\ used' = used /\ changes[i].at = "sent"
    BY <1>5 DEF Loads
  <2> QED BY <1>1, <2>1, <2>2 DEF CreatesAreNew
<1>6. ASSUME NEW i \in DOMAIN changes, Commits(i) \/ Fails(i) PROVE CreatesAreNew'
  <2>1. /\ DOMAIN changes' = DOMAIN changes
        /\ \A j \in DOMAIN changes \ {i} : changes'[j] = changes[j]
        /\ changes'[i].op = changes[i].op /\ changes'[i].layer = changes[i].layer
        /\ changes'[i].at \in {"done", "refused"} /\ used' = used
    BY <1>6, AfterAdvance DEF Commits, Fails
  <2>2. DOMAIN rows' \subseteq DOMAIN rows \cup (IF changes[i].op = "create" THEN {changes[i].layer} ELSE {})
    <3>1. CASE Fails(i)
      BY <3>1 DEF Fails
    <3>2. CASE Commits(i)
      BY <3>2 DEF Commits, Written
    <3> QED BY <1>6, <3>1, <3>2
  <2> QED BY <1>1, <2>1, <2>2 DEF CreatesAreNew
<1>7. ASSUME NEW i \in DOMAIN changes, changes' = RemoveAt(changes, i), used' = used, rows' = rows
      PROVE  CreatesAreNew'
  <2>1. \A j \in DOMAIN changes' : j \in Int /\ \E k \in DOMAIN changes \ {i} :
          k = (IF j < i THEN j ELSE j + 1) /\ changes'[j] = changes[k]
    BY <1>7, AfterRemoval
  <2>2. i \in Int
    BY DEF ListTypeOK
  <2>3. ASSUME NEW j \in DOMAIN changes', NEW k \in DOMAIN changes',
               changes'[j].op = "create", changes'[k].op = "create", changes'[k].layer = changes'[j].layer
        PROVE  k = j
    BY <1>1, <2>1, <2>2, <2>3
  <2> QED BY <1>1, <1>7, <2>1, <2>3 DEF CreatesAreNew
<1>8. ASSUME NEW i \in DOMAIN changes, ConnectionLost(i) PROVE CreatesAreNew'
  <2>1. CASE changes' = [changes EXCEPT ![i].heard = FALSE]
    <3>1. /\ DOMAIN changes' = DOMAIN changes /\ rows' = rows /\ used' = used
          /\ \A j \in DOMAIN changes :
               /\ changes'[j].op = changes[j].op /\ changes'[j].layer = changes[j].layer
               /\ changes'[j].at = changes[j].at /\ changes'[j].seen = changes[j].seen
      BY <1>8, <2>1, AfterLoss DEF ConnectionLost
    <3> QED BY <1>1, <3>1 DEF CreatesAreNew
  <2> QED BY <1>7, <1>8, <2>1 DEF ConnectionLost
<1>9. ASSUME NEW i \in DOMAIN changes, Answered(i) PROVE CreatesAreNew'
  BY <1>7, <1>9 DEF Answered
<1>10. CASE UNCHANGED listVars \/ ListIsRead \/ ListArrives \/ ListFails
  BY <1>3, <1>10 DEF listVars, ListIsRead, ListArrives, ListFails
<1> QED BY <1>4, <1>5, <1>6, <1>8, <1>9, <1>10, StepsOfTheList

\* A list that is not the database's has a change to hear of or a fetch to make.
LEMMA StaleKept ==
  ASSUME ListTypeOK, StaleIsKnown, [Next]_vars
  PROVE  StaleIsKnown'
<1> DEFINE Waits(q, l, r) ==
      \/ \E i \in DOMAIN q : q[i].at = "done"
      \/ l.fetch = "asked"
      \/ l.fetch = "read" /\ l.answer = r
      \/ l.fetch = "none" /\ (l.error \/ l.data = r)
<1>1. ~missed => Waits(changes, list, rows) /\ \A i \in DOMAIN changes : changes[i].heard
  BY DEF StaleIsKnown
<1>2. StaleIsKnown' <=> (~missed' => Waits(changes', list', rows') /\ \A i \in DOMAIN changes' : changes'[i].heard)
  BY DEF StaleIsKnown
<1>3. CASE UNCHANGED listVars
  BY <1>3 DEF listVars, StaleIsKnown
<1>4. ASSUME NEW c, Asking(c), ~missed'
      PROVE  Waits(changes', list', rows') /\ \A i \in DOMAIN changes' : changes'[i].heard
  <2>1. rows' = rows /\ list' = list /\ c.heard /\ ~missed
    BY <1>4 DEF Asking, Mutate
  <2>2. \A i \in DOMAIN changes' : changes'[i].heard
    BY <1>1, <1>4, <2>1, AfterAsking
  <2>3. (\E i \in DOMAIN changes : changes[i].at = "done") => \E i \in DOMAIN changes' : changes'[i].at = "done"
    BY <1>4, AfterAsking
  <2> QED BY <1>1, <2>1, <2>2, <2>3
<1>5. ASSUME NEW i \in DOMAIN changes, Loads(i) \/ Fails(i), ~missed'
      PROVE  Waits(changes', list', rows') /\ \A j \in DOMAIN changes' : changes'[j].heard
  <2>1. /\ DOMAIN changes' = DOMAIN changes /\ rows' = rows /\ list' = list /\ ~missed
        /\ \A j \in DOMAIN changes \ {i} : changes'[j] = changes[j]
        /\ changes'[i].heard = changes[i].heard /\ changes[i].at # "done"
    BY <1>5, AfterAdvance DEF Loads, Fails
  <2>2. (\E j \in DOMAIN changes : changes[j].at = "done") => \E j \in DOMAIN changes' : changes'[j].at = "done"
    BY <2>1
  <2> QED BY <1>1, <2>1, <2>2
<1>6. ASSUME NEW i \in DOMAIN changes, Commits(i), ~missed'
      PROVE  Waits(changes', list', rows') /\ \A j \in DOMAIN changes' : changes'[j].heard
  <2>1. /\ DOMAIN changes' = DOMAIN changes /\ ~missed
        /\ \A j \in DOMAIN changes \ {i} : changes'[j] = changes[j]
        /\ changes'[i].heard = changes[i].heard /\ changes'[i].at = "done"
    BY <1>6, AfterAdvance DEF Commits
  <2> QED BY <1>1, <2>1
<1>7. ASSUME NEW i \in DOMAIN changes, Answered(i), ~missed'
      PROVE  Waits(changes', list', rows') /\ \A j \in DOMAIN changes' : changes'[j].heard
  <2>1. rows' = rows /\ ~missed /\ changes[i].heard /\ changes' = RemoveAt(changes, i)
    BY <1>1, <1>7 DEF Answered
  <2>2. \A j \in DOMAIN changes' : changes'[j].heard
    BY <1>1, <2>1, AfterRemoval
  <2>3. CASE changes[i].at = "done"
    <3>1. list' = Invalidated(list, TRUE) /\ list.data # None
      BY <1>7, <2>1, <2>3, NoneIsNoStack DEF Answered, OnSuccess, ListTypeOK
    <3>2. list'.fetch = "asked"
      BY <3>1 DEF Invalidated, Restarts, Query
    <3> QED BY <2>2, <3>2
  <2>4. CASE changes[i].at # "done"
    <3>1. list' = list
      BY <1>7, <2>4 DEF Answered
    <3>2. (\E j \in DOMAIN changes : changes[j].at = "done") => \E j \in DOMAIN changes' : changes'[j].at = "done"
      <4> SUFFICES ASSUME NEW j \in DOMAIN changes, changes[j].at = "done"
                   PROVE  \E k \in DOMAIN changes' : changes'[k].at = "done"
        OBVIOUS
      <4>1. j \in DOMAIN changes \ {i}
        BY <2>4
      <4>2. \E k \in DOMAIN changes' : changes'[k] = changes[j]
        BY <2>1, <4>1, AfterRemoval
      <4> QED BY <4>2
    <3> QED BY <1>1, <2>1, <2>2, <3>1, <3>2
  <2> QED BY <2>3, <2>4
<1>8. ASSUME NEW i \in DOMAIN changes, ConnectionLost(i) PROVE missed'
  BY <1>8 DEF ConnectionLost
<1>9. ASSUME ListIsRead \/ ListArrives \/ ListFails, ~missed'
      PROVE  Waits(changes', list', rows') /\ \A j \in DOMAIN changes' : changes'[j].heard
  <2>1. changes' = changes /\ rows' = rows /\ ~missed
    BY <1>9 DEF ListIsRead, ListArrives, ListFails
  <2>2. CASE ListIsRead
    BY <1>1, <2>1, <2>2 DEF ListIsRead, Reads, Query
  <2>3. CASE ListArrives
    BY <1>1, <2>1, <2>3 DEF ListArrives, Arrived, Query
  <2>4. CASE ListFails
    BY <1>1, <2>1, <2>4 DEF ListFails, Failed, Query
  <2> QED BY <1>9, <2>2, <2>3, <2>4
<1> QED
  <2> HIDE DEF Waits
  <2> QED BY <1>2, <1>3, <1>4, <1>5, <1>6, <1>7, <1>8, <1>9, StepsOfTheList

(***************************************************************************)
(* Places.  A reorder leaves in place what it finds in place, so a layer   *)
(* removed since it read the stack was where it should be: the places left *)
(* are too few for all that stay to be below the place one of them takes.  *)
(***************************************************************************)
LEMMA SomeLayerIsAsHigh ==
  ASSUME ListTypeOK, NEW c, IsChange(c), Loaded(c), c.op = "reorder", StillStands(c), MayFlush(c),
         NEW l \in DOMAIN rows \cap DOMAIN c.seen
  PROVE  \E k \in DOMAIN rows \cap DOMAIN c.seen : rows[k].z >= Place(c.order, l)
<1> DEFINE order == c.order
           seen == c.seen
           m == Place(order, l)
           f == [p \in 1..(m + 1) |-> seen[order[p]].z]
<1>1. /\ order \in Seq(Layers) /\ ToSet(order) = DOMAIN seen /\ DOMAIN seen \subseteq Layers
      /\ \A p, q \in DOMAIN order : order[p] = order[q] => p = q
      /\ \A k \in DOMAIN seen : seen[k].z \in Nat
  BY StackRows DEF IsChange, Loaded, IsInjective
<1>2. /\ \A j, k \in DOMAIN seen : seen[j].z = seen[k].z => j = k
      /\ \A k \in DOMAIN rows \cap DOMAIN seen : rows[k].z = seen[k].z
  BY DEF StillStands
<1>3. \A k \in DOMAIN seen : k \notin DOMAIN rows => seen[k].z = Place(order, k)
  BY <1>1 DEF MayFlush, Dirty, LayerColumns
<1> HIDE DEF order, seen
<1>4. m \in Nat /\ m + 1 \in DOMAIN order /\ order[m + 1] = l
  BY <1>1, PlaceIsFound DEF seen
<1> HIDE DEF m
<1>5. DOMAIN order = 1..Len(order) /\ Len(order) \in Nat
  BY <1>1
<1>6. SUFFICES ASSUME \A k \in DOMAIN rows \cap DOMAIN seen : ~(rows[k].z >= m)
               PROVE  FALSE
  BY DEF m, seen, order
<1>7. ASSUME NEW p \in 1..(m + 1) PROVE seen[order[p]].z \in 0..(m - 1)
  <2>1. p \in DOMAIN order /\ order[p] \in DOMAIN seen
    BY <1>1, <1>4, <1>5 DEF ToSet
  <2>2. seen[order[p]].z \in Nat
    BY <1>1, <2>1
  <2>3. CASE order[p] \in DOMAIN rows
    BY <1>2, <1>4, <1>6, <2>1, <2>2, <2>3
  <2>4. CASE order[p] \notin DOMAIN rows
    <3>1. Place(order, order[p]) + 1 \in DOMAIN order /\ order[Place(order, order[p]) + 1] = order[p]
          /\ Place(order, order[p]) \in Nat
      BY <1>1, <2>1, PlaceIsFound
    <3>2. Place(order, order[p]) + 1 = p
      BY <1>1, <2>1, <3>1
    <3>3. p # m + 1
      BY <1>4, <2>4
    <3> QED BY <1>3, <1>4, <2>1, <2>2, <2>4, <3>1, <3>2, <3>3
  <2> QED BY <2>3, <2>4
<1>8. f \in [1..(m + 1) -> 0..(m - 1)]
  BY <1>7
<1>9. /\ IsFiniteSet(1..(m + 1)) /\ Cardinality(1..(m + 1)) = m + 1
      /\ IsFiniteSet(0..(m - 1)) /\ Cardinality(0..(m - 1)) = m
  BY <1>4, FS_Interval
<1>10. \E p, q \in 1..(m + 1) : p # q /\ f[p] = f[q]
  <2> DEFINE P == 1..(m + 1)
             N == 0..(m - 1)
  <2> HIDE DEF f
  <2>1. IsFiniteSet(P) /\ IsFiniteSet(N) /\ f \in [P -> N]
    BY <1>8, <1>9
  <2>2. Cardinality(N) < Cardinality(P)
    BY <1>4, <1>9
  <2> HIDE DEF P, N
  <2>3. \E p, q \in P : p # q /\ f[p] = f[q]
    BY <2>1, <2>2, FS_PigeonHole
  <2> QED BY <2>3 DEF P
<1>11. PICK p \in 1..(m + 1), q \in 1..(m + 1) : p # q /\ seen[order[p]].z = seen[order[q]].z
  BY <1>10
<1>12. p \in DOMAIN order /\ q \in DOMAIN order /\ order[p] \in DOMAIN seen /\ order[q] \in DOMAIN seen
  BY <1>1, <1>4, <1>5 DEF ToSet
<1> QED BY <1>1, <1>2, <1>11, <1>12

\* The places after a transaction.
LEMMA WrittenPlaces ==
  ASSUME ListTypeOK, NEW c, IsChange(c), Loaded(c), MayFlush(c)
  PROVE  /\ c.op \in {"patch", "remove"} =>
              \A l \in DOMAIN Written(c) : l \in DOMAIN rows /\ Written(c)[l].z = rows[l].z
         /\ c.op = "create" =>
              /\ DOMAIN Written(c) = DOMAIN rows \cup {c.layer}
              /\ Written(c)[c.layer].z = NextZ(c.seen)
              /\ \A l \in DOMAIN rows : l # c.layer => Written(c)[l].z = rows[l].z
         /\ c.op = "reorder" /\ StillStands(c) =>
              /\ DOMAIN Written(c) = DOMAIN rows
              /\ \A l \in DOMAIN rows :
                   Written(c)[l].z = IF l \in DOMAIN c.seen THEN Place(c.order, l) ELSE rows[l].z
<1>1. CASE c.op = "remove"
  BY <1>1 DEF Written
<1>2. CASE c.op = "create"
  BY <1>2 DEF Written
<1>3. CASE c.op = "patch"
  <2>1. c.field \in {"visible", "opacity"}
    BY <1>3 DEF IsChange
  <2>2. \A l : Updated(c, l)["z"] = rows[l].z
    BY <1>3, <2>1, UpdatedRows DEF Dirty, LayerColumns
  <2>3. Written(c) = [l \in DOMAIN rows |-> Updated(c, l)]
    BY <1>3 DEF Written
  <2> QED BY <1>3, <2>2, <2>3
<1>4. CASE c.op = "reorder" /\ StillStands(c)
  <2>1. Written(c) = [l \in DOMAIN rows |-> Updated(c, l)]
    BY <1>4 DEF Written
  <2>2. \A l : Updated(c, l)["z"] = IF Dirty(c, l, "z") THEN Place(c.order, l) ELSE rows[l].z
    BY <1>4, UpdatedRows DEF LayerColumns
  <2>3. ToSet(c.order) = DOMAIN c.seen /\ \A l \in DOMAIN rows \cap DOMAIN c.seen : rows[l].z = c.seen[l].z
    BY <1>4 DEF Loaded, StillStands
  <2>4. \A l \in DOMAIN rows :
          Updated(c, l)["z"] = IF l \in DOMAIN c.seen THEN Place(c.order, l) ELSE rows[l].z
    BY <1>4, <2>2, <2>3 DEF Dirty
  <2>5. DOMAIN Written(c) = DOMAIN rows /\ \A l \in DOMAIN rows : Written(c)[l].z = Updated(c, l)["z"]
    BY <2>1
  <2> QED BY <1>4, <2>4, <2>5
<1>5. CASE c.op = "reorder" /\ ~StillStands(c)
  BY <1>5
<1> QED BY <1>1, <1>2, <1>3, <1>4, <1>5 DEF IsChange

LEMMA PlacesKept ==
  ASSUME ListInv, [Next]_vars
  PROVE  DistinctPlaces' /\ PlacesAreSafe'
<1> DEFINE OnTop(r, s) == \A l \in DOMAIN r : r[l].z < NextZ(s)
           Stands(r, s) ==
             /\ \A k, l \in DOMAIN s : s[k].z = s[l].z => k = l
             /\ \A k \in DOMAIN r \cap DOMAIN s :
                  r[k].z = s[k].z /\ \A l \in DOMAIN r \ DOMAIN s : r[l].z > r[k].z
           Distinct(r) == \A k, l \in DOMAIN r : r[k].z = r[l].z => k = l
           Safe(r, q) == \A i \in DOMAIN q : q[i].at = "loaded" =>
                           /\ q[i].op = "create" => OnTop(r, q[i].seen)
                           /\ q[i].op = "reorder" => Stands(r, q[i].seen)
<1>1. ListTypeOK /\ LoadedFits /\ CreatesAreNew
  BY DEF ListInv
<1>2. ~raced => Distinct(rows) /\ Safe(rows, changes)
  BY DEF ListInv, DistinctPlaces, PlacesAreSafe, GoesOnTop, StillStands
<1>3. (~raced' => Distinct(rows') /\ Safe(rows', changes')) => DistinctPlaces' /\ PlacesAreSafe'
  BY DEF DistinctPlaces, PlacesAreSafe, GoesOnTop, StillStands
<1>4. ASSUME UNCHANGED <<rows, raced>>,
             \A j \in DOMAIN changes' : changes'[j].at = "loaded" =>
               \E k \in DOMAIN changes : /\ changes'[j].op = changes[k].op /\ changes[k].at = "loaded"
                                        /\ changes'[j].seen = changes[k].seen
      PROVE  ~raced' => Distinct(rows') /\ Safe(rows', changes')
  <2> HIDE DEF OnTop, Stands, Distinct
  <2> QED BY <1>2, <1>4
<1>5. CASE UNCHANGED listVars \/ ListIsRead \/ ListArrives \/ ListFails
  <2>1. UNCHANGED <<rows, raced, changes>>
    BY <1>5 DEF listVars, ListIsRead, ListArrives, ListFails
  <2> HIDE DEF Distinct, Safe
  <2> QED BY <1>3, <1>4, <2>1
<1>6. ASSUME NEW c, Asking(c) PROVE ~raced' => Distinct(rows') /\ Safe(rows', changes')
  <2>1. UNCHANGED <<rows, raced>> /\ c.at = "sent"
    BY <1>6 DEF Asking, Mutate
  <2> HIDE DEF Distinct, Safe
  <2> QED BY <1>1, <1>4, <1>6, <2>1, AfterAsking
<1>7. ASSUME NEW i \in DOMAIN changes, changes' = RemoveAt(changes, i), UNCHANGED <<rows, raced>>
      PROVE  ~raced' => Distinct(rows') /\ Safe(rows', changes')
  <2> HIDE DEF Distinct, Safe
  <2> QED BY <1>1, <1>4, <1>7, AfterRemoval
<1>8. ASSUME NEW i \in DOMAIN changes, Answered(i) \/ ConnectionLost(i)
      PROVE  ~raced' => Distinct(rows') /\ Safe(rows', changes')
  <2> HIDE DEF Distinct, Safe
  <2>1. CASE changes' = [changes EXCEPT ![i].heard = FALSE]
    BY <1>1, <1>4, <1>8, <2>1, AfterLoss DEF Answered, ConnectionLost
  <2> QED BY <1>7, <1>8, <2>1 DEF Answered, ConnectionLost
<1>9. ASSUME NEW i \in DOMAIN changes, Fails(i)
      PROVE  ~raced' => Distinct(rows') /\ Safe(rows', changes')
  <2>1. /\ DOMAIN changes' = DOMAIN changes /\ changes'[i].at = "refused" /\ UNCHANGED <<rows, raced>>
        /\ \A j \in DOMAIN changes \ {i} : changes'[j] = changes[j]
    BY <1>1, <1>9, AfterAdvance DEF Fails
  <2> HIDE DEF Distinct, Safe
  <2> QED BY <1>4, <2>1
<1>10. ASSUME NEW i \in DOMAIN changes, Loads(i)
       PROVE  ~raced' => Distinct(rows') /\ Safe(rows', changes')
  <2>1. /\ DOMAIN changes' = DOMAIN changes /\ UNCHANGED <<rows, raced>>
        /\ \A j \in DOMAIN changes \ {i} : changes'[j] = changes[j]
        /\ (changes'[i].seen = rows /\ changes'[i].at = "loaded") \/ changes'[i].at = "refused"
    BY <1>1, <1>10, AfterAdvance DEF Loads
  <2>2. OnTop(rows, rows)
    BY <1>1, NextZIsAbove DEF ListTypeOK
  <2>3. Distinct(rows) => Stands(rows, rows)
    OBVIOUS
  <2> HIDE DEF OnTop, Stands, Distinct
  <2> QED BY <1>2, <2>1, <2>2, <2>3
<1>11. ASSUME NEW i \in DOMAIN changes, Commits(i), ~raced'
       PROVE  Distinct(rows') /\ Safe(rows', changes')
  <2> DEFINE c == changes[i]
             w == Written(c)
  <2>1. /\ DOMAIN changes' = DOMAIN changes /\ changes'[i].at = "done"
        /\ \A j \in DOMAIN changes \ {i} : changes'[j] = changes[j]
    BY <1>1, <1>11, AfterAdvance DEF Commits
  <2>2. rows' = w /\ MayFlush(c) /\ ~raced /\ ~Overlaps(i) /\ c.at = "loaded" /\ IsChange(c) /\ Loaded(c)
    BY <1>1, <1>11 DEF Commits, ListTypeOK, LoadedFits
  <2>3. Distinct(rows) /\ Safe(rows, changes)
    BY <1>2, <2>2
  <2>4. \A l \in DOMAIN rows : rows[l].z \in Nat
    BY <1>1, StackRows DEF ListTypeOK
  <2>5. SUFFICES /\ Distinct(w)
                 /\ \A j \in DOMAIN changes \ {i} : changes[j].at = "loaded" =>
                      /\ changes[j].op = "create" => OnTop(w, changes[j].seen)
                      /\ changes[j].op = "reorder" => Stands(w, changes[j].seen)
    <3> HIDE DEF w, c, OnTop, Stands, Distinct
    <3> QED BY <2>1, <2>2
  <2>6. CASE c.op \in {"patch", "remove"}
    <3>1. \A l \in DOMAIN w : l \in DOMAIN rows /\ w[l].z = rows[l].z
      BY <1>1, <2>2, <2>6, WrittenPlaces
    <3> HIDE DEF w
    <3>2. Distinct(w)
      BY <2>3, <3>1
    <3>3. ASSUME NEW s, OnTop(rows, s) PROVE OnTop(w, s)
      BY <3>1, <3>3
    <3>4. ASSUME NEW s, Stands(rows, s) PROVE Stands(w, s)
      BY <3>1, <3>4
    <3> HIDE DEF OnTop, Stands, Distinct
    <3> QED BY <2>3, <3>2, <3>3, <3>4
  <2>7. CASE c.op = "create"
    <3>1. /\ DOMAIN w = DOMAIN rows \cup {c.layer} /\ w[c.layer].z = NextZ(c.seen)
          /\ \A l \in DOMAIN rows : l # c.layer => w[l].z = rows[l].z
      BY <1>1, <2>2, <2>7, WrittenPlaces
    <3>2. c.layer \notin DOMAIN rows /\ OnTop(rows, c.seen) /\ NextZ(c.seen) \in Nat
      BY <1>1, <2>2, <2>3, <2>7, NextZIsAbove DEF CreatesAreNew, Loaded
    <3>3. ASSUME NEW j \in DOMAIN changes \ {i}, changes[j].at = "loaded"
          PROVE  changes[j].op # "create" /\ c.layer \notin DOMAIN changes[j].seen
      BY <1>1, <2>2, <2>7, <3>3 DEF Overlaps, CreatesAreNew
    <3> HIDE DEF w, c
    <3>4. Distinct(w)
      BY <2>3, <2>4, <3>1, <3>2
    <3>5. ASSUME NEW s, Stands(rows, s), c.layer \notin DOMAIN s PROVE Stands(w, s)
      BY <2>4, <3>1, <3>2, <3>5
    <3> HIDE DEF OnTop, Stands, Distinct
    <3> QED BY <2>3, <3>3, <3>4, <3>5
  <2>8. CASE c.op = "reorder"
    <3>1. Stands(rows, c.seen)
      BY <2>2, <2>3, <2>8
    <3>2. StillStands(c)
      BY <3>1 DEF StillStands
    <3>3. /\ DOMAIN w = DOMAIN rows
          /\ \A l \in DOMAIN rows : w[l].z = IF l \in DOMAIN c.seen THEN Place(c.order, l) ELSE rows[l].z
      BY <1>1, <2>2, <2>8, <3>2, WrittenPlaces
    <3>4. \A l \in DOMAIN rows \cap DOMAIN c.seen :
            \E k \in DOMAIN rows \cap DOMAIN c.seen : rows[k].z >= Place(c.order, l)
      BY <1>1, <2>2, <2>8, <3>2, SomeLayerIsAsHigh
    <3>5. \A l \in DOMAIN c.seen :
            /\ Place(c.order, l) \in Nat
            /\ \A k \in DOMAIN c.seen : Place(c.order, k) = Place(c.order, l) => k = l
      <4>1. c.order \in Seq(Layers) /\ ToSet(c.order) = DOMAIN c.seen
        BY <2>2, <2>8 DEF IsChange, Loaded
      <4> HIDE DEF c
      <4> QED BY <4>1, PlaceIsFound
    <3>6. \A j \in DOMAIN changes \ {i} : changes[j].at = "loaded" => changes[j].op # "reorder"
      BY <2>8 , <2>2 DEF Overlaps
    <3> HIDE DEF w, c
    <3>7. Distinct(w)
      <4> SUFFICES ASSUME NEW k \in DOMAIN rows, NEW l \in DOMAIN rows, w[k].z = w[l].z PROVE k = l
        BY <3>3
      <4>1. ASSUME NEW a \in DOMAIN rows \cap DOMAIN c.seen, NEW b \in DOMAIN rows \ DOMAIN c.seen
            PROVE  w[a].z # w[b].z
        <5>1. PICK d \in DOMAIN rows \cap DOMAIN c.seen : rows[d].z >= Place(c.order, a)
          BY <3>4
        <5>2. rows[b].z > rows[d].z
          BY <3>1
        <5>3. w[a].z = Place(c.order, a) /\ w[b].z = rows[b].z /\ Place(c.order, a) \in Nat
          BY <3>3, <3>5
        <5> QED BY <2>4, <5>1, <5>2, <5>3
      <4>2. CASE k \in DOMAIN c.seen /\ l \in DOMAIN c.seen
        BY <3>3, <3>5, <4>2
      <4>3. CASE k \notin DOMAIN c.seen /\ l \notin DOMAIN c.seen
        BY <2>3, <3>3, <4>3
      <4> QED BY <4>1, <4>2, <4>3
    <3>8. ASSUME NEW s, OnTop(rows, s), NextZ(s) \in Nat PROVE OnTop(w, s)
      <4> SUFFICES ASSUME NEW l \in DOMAIN rows PROVE w[l].z < NextZ(s)
        BY <3>3
      <4>1. CASE l \in DOMAIN c.seen
        <5>1. PICK d \in DOMAIN rows \cap DOMAIN c.seen : rows[d].z >= Place(c.order, l)
          BY <3>4, <4>1
        <5>2. rows[d].z < NextZ(s) /\ rows[d].z \in Nat /\ Place(c.order, l) \in Nat
          BY <2>4, <3>5, <3>8, <4>1
        <5>3. w[l].z = Place(c.order, l)
          BY <3>3, <4>1
        <5> QED BY <3>8, <5>1, <5>2, <5>3
      <4>2. CASE l \notin DOMAIN c.seen
        BY <3>3, <3>8, <4>2
      <4> QED BY <4>1, <4>2
    <3>9. \A j \in DOMAIN changes : changes[j].at = "loaded" => NextZ(changes[j].seen) \in Nat
      BY <1>1, NextZIsAbove DEF LoadedFits, Loaded
    <3> HIDE DEF OnTop, Stands, Distinct
    <3> QED BY <2>3, <3>6, <3>7, <3>8, <3>9
  <2> QED BY <2>2, <2>6, <2>7, <2>8 DEF IsChange
<1> QED
  <2> HIDE DEF Distinct, Safe
  <2> QED BY <1>1, <1>3, <1>5, <1>6, <1>8, <1>9, <1>10, <1>11, StepsOfTheList

(***************************************************************************)
(* The theorems.                                                           *)
(***************************************************************************)
LEMMA ListStarts ==
  ASSUME NEW initial \in Seq(Layers), IsInjective(initial), ListInit(initial)
  PROVE  ListInv
<1> DEFINE place(l) == CHOOSE i \in 0..(Len(initial) - 1) : initial[i + 1] = l
<1>1. ASSUME NEW l \in ToSet(initial)
      PROVE  l \in Layers /\ place(l) \in Nat /\ initial[place(l) + 1] = l
  <2>1. PICK j \in 1..Len(initial) : initial[j] = l
    BY DEF ToSet
  <2>2. j - 1 \in 0..(Len(initial) - 1) /\ initial[(j - 1) + 1] = l
    BY <2>1
  <2>3. \E i \in 0..(Len(initial) - 1) : initial[i + 1] = l
    BY <2>2
  <2>4. place(l) \in 0..(Len(initial) - 1) /\ initial[place(l) + 1] = l
    BY <2>3
  <2> HIDE DEF place
  <2> QED BY <2>1, <2>4
<1>2. rows = [l \in ToSet(initial) |-> [z |-> place(l), visible |-> TRUE, opacity |-> 1]]
  BY DEF ListInit
<1> HIDE DEF place
<1>3. IsStack(rows) /\ DOMAIN rows = ToSet(initial) /\ \A l \in DOMAIN rows : rows[l].z = place(l)
  <2>1. ToSet(initial) \in SUBSET Layers
    BY <1>1
  <2>2. rows \in [ToSet(initial) -> Row]
    BY <1>1, <1>2 DEF Row
  <2> QED BY <1>2, <2>1, <2>2 DEF IsStack
<1>4. /\ changes = <<>> /\ DOMAIN changes = {} /\ missed = FALSE /\ raced = FALSE /\ used = ToSet(initial)
      /\ list = Query(rows, FALSE, FALSE, "none", None)
  BY DEF ListInit
<1>5. ListTypeOK
  <2>1. changes \in Seq(ToSet(changes)) /\ used \in SUBSET Layers
    BY <1>1, <1>4
  <2> QED BY <1>3, <1>4, <2>1 DEF ListTypeOK, Query, IsQuery
<1>6. DistinctPlaces
  BY <1>1, <1>3 DEF DistinctPlaces
<1> QED BY <1>3, <1>4, <1>5, <1>6
       DEF ListInv, LoadedFits, CreatesAreNew, StaleIsKnown, PlacesAreSafe, Query

\* The types of the list, its changes and the rows, what the transactions rely
\* on, who knows of a stale list, and the places, hold in every state.
THEOREM ListInvariance == Spec => []ListInv
<1>1. Init => ListInv
  BY ListStarts, ScenariosAssumption DEF Init
<1>2. ListInv /\ [Next]_vars => ListInv'
  BY TypeKept, LoadedKept, CreatesKept, StaleKept, PlacesKept DEF ListInv
<1> QED BY <1>1, <1>2, PTL DEF Spec

\* When no change and no fetch is under way, the panel's list is what the
\* database has, unless a change was not heard of or the last fetch failed
\* (useLayerMutations.ts invalidates the project on every success).
THEOREM ListSettlesHolds == Spec => []ListSettles
<1>1. ListInv => ListSettles
  BY DEF ListInv, StaleIsKnown, ListSettles, ListTypeOK
<1> QED BY <1>1, ListInvariance, PTL

\* Two layers never share a place in the stack, for any number of additions,
\* removals, patches and reorders under way at once, as long as no two reorders
\* and no two additions overlap (layer_repository.py's next_z_index and
\* set_z_indexes).
THEOREM DistinctPlacesHolds == Spec => []DistinctPlaces
<1>1. ListInv => DistinctPlaces
  BY DEF ListInv
<1> QED BY <1>1, ListInvariance, PTL

\* A column of a layer changes only by a request about that column: what a
\* transaction read and did not change is not written back.
THEOREM OtherChangesStandHolds == Spec => OtherChangesStand
<1> DEFINE A == \A l \in DOMAIN rows \cap DOMAIN rows' : \A f \in LayerColumns :
                  rows'[l][f] # rows[l][f] =>
                    \E i \in DOMAIN changes : LET c == changes[i] IN
                      /\ Commits(i)
                      /\ \/ c.op = "patch" /\ c.layer = l /\ c.field = f
                         \/ c.op = "reorder" /\ f = "z"
<1>1. ASSUME ListInv, [Next]_vars PROVE A
  <2>1. CASE UNCHANGED rows
    BY <2>1
  <2>2. ASSUME NEW i \in DOMAIN changes, Commits(i) PROVE A
    <3> DEFINE c == changes[i]
    <3>1. rows' = Written(c) /\ c.at = "loaded" /\ IsChange(c)
      BY <1>1, <2>2 DEF Commits, ListInv, ListTypeOK
    <3>2. c.op = "create" => c.layer \notin DOMAIN rows
      BY <1>1, <3>1 DEF ListInv, CreatesAreNew
    <3> SUFFICES ASSUME NEW l \in DOMAIN rows \cap DOMAIN rows', NEW f \in LayerColumns,
                        rows'[l][f] # rows[l][f]
                 PROVE  \/ c.op = "patch" /\ c.layer = l /\ c.field = f
                        \/ c.op = "reorder" /\ f = "z"
      BY <2>2
    <3> HIDE DEF c
    <3>3. CASE c.op = "remove"
      BY <3>1, <3>3 DEF Written
    <3>4. CASE c.op = "create"
      BY <3>1, <3>2, <3>4 DEF Written
    <3>5. CASE c.op \in {"patch", "reorder"}
      <4>1. rows'[l] = Updated(c, l)
        BY <3>1, <3>5 DEF Written
      <4>2. Dirty(c, l, f)
        BY <4>1, UpdatedRows
      <4> QED BY <4>2 DEF Dirty
    <3> QED BY <3>1, <3>3, <3>4, <3>5 DEF IsChange
  <2>3. UNCHANGED rows \/ \E i \in DOMAIN changes : Commits(i)
    BY <1>1, StepsOfTheList
       DEF ListInv, listVars, Asking, Mutate, Loads, Fails, Answered, ConnectionLost,
           ListIsRead, ListArrives, ListFails
  <2> QED BY <2>1, <2>2, <2>3
<1>2. ListInv /\ [Next]_vars => [A]_listVars
  BY <1>1
<1>3. Spec => [][A]_listVars
  <2> HIDE DEF A
  <2> QED BY <1>2, ListInvariance, PTL DEF Spec
<1> QED BY <1>3 DEF OtherChangesStand

-----------------------------------------------------------------------------
(***************************************************************************)
(* The table: its cached queries.                                          *)
(***************************************************************************)
\* What a page is worth, if the table is `now`: it is that, or it will be
\* fetched, or is known to be old.
Fits(q, now) ==
  \/ q.fetch = "asked"
  \/ q.fetch = "read" /\ q.answer \in now
  \/ q.fetch = "none" /\ (q.data = None \/ q.invalid \/ q.error \/ q.data \in now)

LEMMA QueriesAreTyped ==
  ASSUME NEW data, NEW invalid \in BOOLEAN, NEW error \in BOOLEAN, NEW fetch \in {"none", "asked", "read"},
         NEW answer, NEW q, q = Query(data, invalid, error, fetch, answer)
  PROVE  /\ IsQuery(q)
         /\ q.data = data /\ q.invalid = invalid /\ q.error = error /\ q.fetch = fetch /\ q.answer = answer
<1>1. q.data = data /\ q.invalid = invalid /\ q.error = error /\ q.fetch = fetch /\ q.answer = answer
  BY DEF Query
<1> QED BY <1>1 DEF IsQuery

LEMMA QueriesProceed ==
  ASSUME NEW q, IsQuery(q)
  PROVE  /\ \A answer : /\ IsQuery(Reads(q, answer)) /\ Reads(q, answer).fetch = "read"
                        /\ Reads(q, answer).answer = answer
         /\ IsQuery(Arrived(q)) /\ Arrived(q).fetch = "none" /\ Arrived(q).data = q.answer /\ ~Arrived(q).invalid
         /\ IsQuery(Failed(q)) /\ Failed(q).fetch = "none" /\ Failed(q).error
         /\ IsQuery(Refetched(q)) /\ Refetched(q).fetch = "asked"
<1>1. q.invalid \in BOOLEAN /\ q.error \in BOOLEAN /\ (q.error /\ q.data # None) \in BOOLEAN
  BY DEF IsQuery
<1>2. ASSUME NEW answer
      PROVE  IsQuery(Reads(q, answer)) /\ Reads(q, answer).fetch = "read" /\ Reads(q, answer).answer = answer
  BY <1>1, QueriesAreTyped DEF Reads
<1>3. IsQuery(Arrived(q)) /\ Arrived(q).fetch = "none" /\ Arrived(q).data = q.answer /\ ~Arrived(q).invalid
  BY DEF Arrived, Query, IsQuery
<1>4. IsQuery(Failed(q)) /\ Failed(q).fetch = "none" /\ Failed(q).error
  BY <1>1 DEF Failed, Query, IsQuery
<1>5. IsQuery(Refetched(q)) /\ Refetched(q).fetch = "asked"
  <2> DEFINE e == q.error /\ q.data # None
  <2>1. Refetched(q) = Query(q.data, q.invalid, e, "asked", None)
    BY Zenon DEF Refetched
  <2>2. e \in BOOLEAN
    BY <1>1
  <2> HIDE DEF e
  <2> QED BY <1>1, <2>1, <2>2 DEF Query, IsQuery
<1> QED BY <1>2, <1>3, <1>4, <1>5

\* A query somebody looks at is as it was, or fetched.
LEMMA ObservedQuery ==
  ASSUME NEW q, IsQuery(q), NEW r \in Observed(q)
  PROVE  /\ IsQuery(r) /\ (r = q \/ r.fetch = "asked")
         /\ r.fetch = "none" => r = q /\ r.data # None /\ ~r.invalid /\ ~r.error
<1>1. IsQuery(Refetched(q)) /\ Refetched(q).fetch = "asked"
  BY QueriesProceed
<1>2. q.invalid \in BOOLEAN /\ q.error \in BOOLEAN /\ q.fetch \in {"none", "asked", "read"}
  BY DEF IsQuery
<1>3. CASE q.fetch # "none"
  <2>1. r = q
    BY <1>3, Zenon DEF Observed
  <2> QED BY <1>3, <2>1
<1>4. CASE q.fetch = "none" /\ (q.data = None \/ q.invalid \/ q.error)
  <2>1. r = Refetched(q)
    BY <1>4 DEF Observed
  <2> QED BY <1>1, <2>1
<1>5. CASE q.fetch = "none" /\ ~(q.data = None \/ q.invalid \/ q.error)
  <2>1. r \in {q, Refetched(q)}
    BY <1>5 DEF Observed
  <2> QED BY <1>1, <1>5, <2>1
<1> QED BY <1>3, <1>4, <1>5

LEMMA UnknownQuery ==
  /\ IsQuery(Unknown) /\ \A r \in Observed(Unknown) : r.fetch = "asked"
<1>1. IsQuery(Unknown) /\ Unknown.fetch = "none" /\ Unknown.data = None
  BY DEF Unknown, Query, IsQuery
<1> QED BY <1>1, ObservedQuery

\* A query that is invalidated is fetched at once, or keeps its fetch.
LEMMA InvalidatedQuery ==
  ASSUME NEW q, IsQuery(q), NEW displayed \in BOOLEAN, NEW r, r = Invalidated(q, displayed)
  PROVE  /\ IsQuery(r)
         /\ displayed /\ Restarts(q) => r.fetch = "asked"
         /\ ~(displayed /\ Restarts(q)) => r.fetch = q.fetch /\ r.answer = q.answer /\ r.data = q.data /\ r.invalid
<1>1. /\ q.invalid \in BOOLEAN /\ q.error \in BOOLEAN /\ (q.error /\ q.data # None) \in BOOLEAN
      /\ q.fetch \in {"none", "asked", "read"}
  BY DEF IsQuery
<1>2. CASE displayed /\ Restarts(q)
  <2> DEFINE e == q.error /\ q.data # None
  <2>1. r = Query(q.data, TRUE, e, "asked", None)
    BY <1>2, Zenon DEF Invalidated
  <2>2. e \in BOOLEAN
    BY <1>1
  <2> HIDE DEF e
  <2>3. IsQuery(r) /\ r.fetch = "asked"
    BY <2>1, <2>2 DEF Query, IsQuery
  <2> QED BY <1>2, <2>3, Zenon
<1>3. CASE ~(displayed /\ Restarts(q))
  <2>1. r = Query(q.data, TRUE, q.error, q.fetch, q.answer)
    BY <1>3 DEF Invalidated
  <2> QED BY <1>1, <1>3, <2>1 DEF Query, IsQuery
<1> QED BY <1>2, <1>3

(***************************************************************************)
(* A table and the pages of it.                                            *)
(***************************************************************************)
LEMMA TablesAreNotNone ==
  ASSUME TableTypeOK, NEW l \in DOMAIN Tables, features[l] # None
  PROVE  /\ features[l].ids \in SUBSET Rows /\ features[l].rev \in Nat
         /\ \A w : After(features[l], w) \in [ids : SUBSET Rows, rev : Nat] /\ After(features[l], w) # None
         /\ \A key : key.layer = l => None \notin PagesOf(features[l], key)
<1>1. features[l] \in [ids : SUBSET Rows, rev : Nat]
  BY DEF TableTypeOK
<1>2. ASSUME NEW w PROVE After(features[l], w) \in [ids : SUBSET Rows, rev : Nat] /\ After(features[l], w) # None
  <2>1. After(features[l], w) \in [ids : SUBSET Rows, rev : Nat]
    BY <1>1 DEF After
  <2> QED BY <2>1, TablesAssumption
<1>3. ASSUME NEW key, key.layer = l PROVE None \notin PagesOf(features[l], key)
  <2> DEFINE ids == features[l].ids
             some == RowsOf(features[l], key)
  <2>1. Cardinality(ids) \in Nat /\ ids \subseteq Rows
    BY <1>1, TablesAssumption, FS_Subset, FS_CardinalityType
  <2>2. some \subseteq Rows
    BY <2>1 DEF RowsOf
  <2>3. {Cardinality(ids)} \cup Estimates \subseteq Nat
    BY <2>1, TablesAssumption
  <2> HIDE DEF ids, some
  <2>4. PagesOf(features[l], key) \subseteq [layer : DOMAIN Tables, rev : Nat, total : Nat, ids : SUBSET Rows]
    BY <1>1, <1>3, <2>2, <2>3 DEF PagesOf, ids, some
  <2> QED BY <2>4, TablesAssumption
<1> QED BY <1>1, <1>2, <1>3

(***************************************************************************)
(* The writes after a step.                                                *)
(***************************************************************************)
LEMMA WriteStays ==
  ASSUME NEW w, IsWrite(w), NEW v, v.latest \in BOOLEAN, v.at \in {"sent", "done", "refused"}, v.heard \in BOOLEAN,
         v = [op |-> w.op, layer |-> w.layer, id |-> w.id, tells |-> v.tells, latest |-> v.latest,
              seen |-> w.seen, at |-> v.at, heard |-> v.heard]
  PROVE  IsWrite(v) /\ v.layer = w.layer
<1>1. w.op \in {"save", "remove"} /\ w.layer \in DOMAIN Tables
  BY DEF IsWrite
<1>2. v.op = w.op /\ v.layer = w.layer /\ v.id = w.id /\ v.seen = w.seen
  OBVIOUS
<1>3. v \in [op : {"save", "remove"}, layer : DOMAIN Tables, id : {v.id}, tells : {v.tells}, latest : BOOLEAN,
            seen : {v.seen}, at : {"sent", "done", "refused"}, heard : BOOLEAN]
  BY <1>1, <1>2
<1> QED BY <1>2, <1>3 DEF IsWrite

LEMMA WritesAreRecords ==
  ASSUME NEW w, IsWrite(w)
  PROVE  /\ w = [op |-> w.op, layer |-> w.layer, id |-> w.id, tells |-> w.tells, latest |-> w.latest,
                 seen |-> w.seen, at |-> w.at, heard |-> w.heard]
         /\ w.op \in {"save", "remove"} /\ w.layer \in DOMAIN Tables /\ w.latest \in BOOLEAN
         /\ w.at \in {"sent", "done", "refused"} /\ w.heard \in BOOLEAN
  BY DEF IsWrite

\* The same write, for the closure of another render.
LEMMA RetoldWrite ==
  ASSUME NEW w, IsWrite(w), NEW l, NEW v, v = [w EXCEPT !.tells = l]
  PROVE  IsWrite(v) /\ v.layer = w.layer /\ v.at = w.at /\ v.heard = w.heard
<1>1. /\ v = [op |-> w.op, layer |-> w.layer, id |-> w.id, tells |-> v.tells, latest |-> v.latest,
              seen |-> w.seen, at |-> v.at, heard |-> v.heard]
      /\ v.latest = w.latest /\ v.at = w.at /\ v.heard = w.heard
  BY WritesAreRecords
<1> QED BY <1>1, WriteStays, WritesAreRecords

\* The same write, no longer the last of its kind.
LEMMA EarlierWrite ==
  ASSUME NEW w, IsWrite(w), NEW b \in BOOLEAN, NEW v, v = [w EXCEPT !.latest = b]
  PROVE  IsWrite(v) /\ v.layer = w.layer /\ v.at = w.at /\ v.heard = w.heard
<1>1. /\ v = [op |-> w.op, layer |-> w.layer, id |-> w.id, tells |-> v.tells, latest |-> v.latest,
              seen |-> w.seen, at |-> v.at, heard |-> v.heard]
      /\ v.latest = b /\ v.at = w.at /\ v.heard = w.heard
  BY WritesAreRecords
<1> QED BY <1>1, WriteStays, WritesAreRecords

\* The same write, which the server has dealt with.
LEMMA FinishedWrite ==
  ASSUME NEW w, IsWrite(w), NEW a \in {"done", "refused"}, NEW v, v = [w EXCEPT !.at = a]
  PROVE  IsWrite(v) /\ v.layer = w.layer /\ v.at = a /\ v.heard = w.heard
<1>1. /\ v = [op |-> w.op, layer |-> w.layer, id |-> w.id, tells |-> v.tells, latest |-> v.latest,
              seen |-> w.seen, at |-> v.at, heard |-> v.heard]
      /\ v.latest = w.latest /\ v.at = a /\ v.heard = w.heard
  BY WritesAreRecords
<1> QED BY <1>1, WriteStays, WritesAreRecords

\* The same write, with nobody listening.
LEMMA UnheardWrite ==
  ASSUME NEW w, IsWrite(w), NEW v, v = [w EXCEPT !.heard = FALSE]
  PROVE  IsWrite(v) /\ v.layer = w.layer /\ v.at = w.at
<1>1. v = [op |-> w.op, layer |-> w.layer, id |-> w.id, tells |-> w.tells, latest |-> w.latest,
           seen |-> w.seen, at |-> w.at, heard |-> FALSE]
  BY DEF IsWrite
<1>2. v.tells = w.tells /\ v.latest = w.latest /\ v.at = w.at /\ v.layer = w.layer /\ v.id = w.id /\ v.seen = w.seen
  BY <1>1
<1>3. v \in [op : {"save", "remove"}, layer : DOMAIN Tables, id : {v.id}, tells : {v.tells}, latest : BOOLEAN,
            seen : {v.seen}, at : {"sent", "done", "refused"}, heard : BOOLEAN]
  BY <1>1, <1>2, WritesAreRecords
<1> QED BY <1>2, <1>3 DEF IsWrite

LEMMA AfterSending ==
  ASSUME TableTypeOK, NEW w, Send(w)
  PROVE  /\ writes' \in Seq(ToSet(writes'))
         /\ Len(writes) + 1 \in DOMAIN writes' /\ writes'[Len(writes) + 1] = w
         /\ \A j \in DOMAIN writes' : j \in DOMAIN writes \/ j = Len(writes) + 1
         /\ \A j \in DOMAIN writes :
              /\ j \in DOMAIN writes' /\ IsWrite(writes'[j])
              /\ writes'[j].layer = writes[j].layer /\ writes'[j].at = writes[j].at
              /\ writes'[j].heard = writes[j].heard
<1> DEFINE earlier == [j \in DOMAIN writes |-> [writes[j] EXCEPT !.latest = @ /\ writes[j].op # w.op]]
<1>1. ASSUME NEW j \in DOMAIN writes
      PROVE  /\ IsWrite(earlier[j]) /\ earlier[j].layer = writes[j].layer
             /\ earlier[j].at = writes[j].at /\ earlier[j].heard = writes[j].heard
  <2>1. PICK v : v = writes[j]
    OBVIOUS
  <2>2. IsWrite(v)
    BY <2>1 DEF TableTypeOK
  <2> DEFINE b == v.latest /\ v.op # w.op
  <2>3. b \in BOOLEAN /\ earlier[j] = [v EXCEPT !.latest = b]
    BY <2>1, <2>2, Zenon DEF IsWrite
  <2> HIDE DEF b, earlier
  <2> QED BY <2>1, <2>2, <2>3, EarlierWrite
<1>2. earlier \in Seq(ToSet(earlier)) /\ DOMAIN earlier = DOMAIN writes /\ Len(earlier) = Len(writes)
  <2>1. Len(writes) \in Nat /\ DOMAIN writes = 1..Len(writes)
    BY DEF TableTypeOK
  <2>2. DOMAIN earlier = 1..Len(writes) /\ earlier = [j \in 1..Len(writes) |-> earlier[j]]
    BY <2>1
  <2> HIDE DEF earlier
  <2>3. \A j \in 1..Len(writes) : earlier[j] \in ToSet(earlier)
    BY <2>2 DEF ToSet
  <2>4. earlier \in [1..Len(writes) -> ToSet(earlier)]
    BY <2>2, <2>3
  <2> QED BY <2>1, <2>2, <2>4
<1>3. PICK e : e = earlier
  OBVIOUS
<1>4. PICK q : q = Append(e, w)
  OBVIOUS
<1>5. writes' = q
  BY <1>3, <1>4 DEF Send
<1> HIDE DEF earlier
<1>6. e \in Seq(ToSet(e))
  BY <1>2, <1>3
<1>7. /\ q \in Seq(ToSet(q))
      /\ Len(e) + 1 \in DOMAIN q /\ q[Len(e) + 1] = w
      /\ \A i \in DOMAIN q : i \in DOMAIN e \/ i = Len(e) + 1
      /\ \A i \in DOMAIN e : i \in DOMAIN q /\ q[i] = e[i]
  BY <1>4, <1>6, OneMore
<1>8. DOMAIN e = DOMAIN writes /\ Len(e) = Len(writes)
  BY <1>2, <1>3
<1> QED BY <1>1, <1>3, <1>5, <1>7, <1>8

LEMMA AfterRetelling ==
  ASSUME TableTypeOK, NEW l, writes' = Retold(writes, l)
  PROVE  /\ writes' \in Seq(ToSet(writes')) /\ DOMAIN writes' = DOMAIN writes
         /\ \A j \in DOMAIN writes :
              /\ IsWrite(writes'[j]) /\ writes'[j].layer = writes[j].layer
              /\ writes'[j].at = writes[j].at /\ writes'[j].heard = writes[j].heard
<1> DEFINE q == Retold(writes, l)
<1>1. ASSUME NEW j \in DOMAIN writes
      PROVE  IsWrite(q[j]) /\ q[j].layer = writes[j].layer /\ q[j].at = writes[j].at /\ q[j].heard = writes[j].heard
  <2>1. PICK v : v = writes[j]
    OBVIOUS
  <2>2. IsWrite(v)
    BY <2>1 DEF TableTypeOK
  <2>3. q[j] = v \/ q[j] = [v EXCEPT !.tells = l]
    BY <2>1 DEF Retold
  <2> HIDE DEF q
  <2> QED BY <2>1, <2>2, <2>3, RetoldWrite
<1>2. q \in Seq(ToSet(q)) /\ DOMAIN q = DOMAIN writes
  <2>1. Len(writes) \in Nat /\ DOMAIN writes = 1..Len(writes)
    BY DEF TableTypeOK
  <2>2. DOMAIN q = 1..Len(writes) /\ q = [j \in 1..Len(writes) |-> q[j]]
    BY <2>1 DEF Retold
  <2> HIDE DEF q
  <2>3. \A j \in 1..Len(writes) : q[j] \in ToSet(q)
    BY <2>2 DEF ToSet
  <2>4. q \in [1..Len(writes) -> ToSet(q)]
    BY <2>2, <2>3
  <2> QED BY <2>1, <2>2, <2>4
<1> HIDE DEF q
<1> QED BY <1>1, <1>2 DEF q

LEMMA AfterWriting ==
  ASSUME TableTypeOK, NEW i \in DOMAIN writes, NEW a \in {"done", "refused"}, writes' = [writes EXCEPT ![i].at = a]
  PROVE  /\ writes' \in Seq(ToSet(writes')) /\ DOMAIN writes' = DOMAIN writes /\ writes'[i].at = a
         /\ \A j \in DOMAIN writes \ {i} : writes'[j] = writes[j]
         /\ \A j \in DOMAIN writes :
              /\ IsWrite(writes'[j]) /\ writes'[j].layer = writes[j].layer /\ writes'[j].heard = writes[j].heard
<1>1. PICK w : w = writes[i]
  OBVIOUS
<1>2. PICK v : v = [w EXCEPT !.at = a]
  OBVIOUS
<1>3. IsWrite(v) /\ v.layer = w.layer /\ v.at = a /\ v.heard = w.heard
  BY <1>1, <1>2, FinishedWrite DEF TableTypeOK
<1> DEFINE q == [writes EXCEPT ![i] = v]
<1>4. writes' = q
  BY <1>1, <1>2 DEF TableTypeOK
<1>5. /\ q \in Seq(ToSet(q)) /\ DOMAIN q = DOMAIN writes
      /\ \A j \in DOMAIN q : q[j] = IF j = i THEN v ELSE writes[j]
  <2> HIDE DEF q
  <2> QED BY OneFurther DEF TableTypeOK, q
<1> HIDE DEF q
<1> QED BY <1>1, <1>3, <1>4, <1>5 DEF TableTypeOK

LEMMA AfterSilence ==
  ASSUME TableTypeOK, NEW i \in DOMAIN writes, writes' = [writes EXCEPT ![i].heard = FALSE]
  PROVE  /\ writes' \in Seq(ToSet(writes')) /\ DOMAIN writes' = DOMAIN writes
         /\ \A j \in DOMAIN writes \ {i} : writes'[j] = writes[j]
         /\ \A j \in DOMAIN writes :
              /\ IsWrite(writes'[j]) /\ writes'[j].layer = writes[j].layer /\ writes'[j].at = writes[j].at
<1> DEFINE w == writes[i]
           v == [w EXCEPT !.heard = FALSE]
           q == [writes EXCEPT ![i] = v]
<1>1. IsWrite(w) /\ v = [w EXCEPT !.heard = FALSE]
  BY DEF TableTypeOK
<1>2. IsWrite(v) /\ v.layer = w.layer /\ v.at = w.at
  <2> HIDE DEF v, w
  <2> QED BY <1>1, UnheardWrite
<1>3. writes' = q
  BY DEF TableTypeOK
<1> HIDE DEF v
<1>4. /\ q \in Seq(ToSet(q)) /\ DOMAIN q = DOMAIN writes
      /\ \A j \in DOMAIN q : q[j] = IF j = i THEN v ELSE writes[j]
  <2> HIDE DEF q
  <2> QED BY OneFurther DEF TableTypeOK, q
<1> HIDE DEF q
<1> QED BY <1>2, <1>3, <1>4 DEF TableTypeOK

LEMMA AfterAnswer ==
  ASSUME TableTypeOK, NEW i \in DOMAIN writes, writes' = RemoveAt(writes, i)
  PROVE  /\ writes' \in Seq(ToSet(writes'))
         /\ \A j \in DOMAIN writes' : \E k \in DOMAIN writes \ {i} : writes'[j] = writes[k]
         /\ \A k \in DOMAIN writes \ {i} : \E j \in DOMAIN writes' : writes'[j] = writes[k]
         /\ \A j \in DOMAIN writes' : IsWrite(writes'[j])
<1> DEFINE q == RemoveAt(writes, i)
<1>1. writes' = q
  OBVIOUS
<1>2. /\ q \in Seq(ToSet(q))
      /\ \A j \in DOMAIN q : \E k \in DOMAIN writes \ {i} : q[j] = writes[k]
      /\ \A k \in DOMAIN writes \ {i} : \E j \in DOMAIN q : q[j] = writes[k]
  <2> HIDE DEF q
  <2> QED BY OneLess DEF TableTypeOK, q
<1> HIDE DEF q
<1> QED BY <1>1, <1>2 DEF TableTypeOK
(***************************************************************************)
(* What a step of the workspace may do to the table.                       *)
(***************************************************************************)
\* The table shows another page, of a layer the user sees.
Showing(key) ==
  /\ Shows(key) /\ key = KeyOf(key.layer, key.page, key.sort, key.order)
  /\ key.layer \in Listed \cup {k.layer : k \in DOMAIN pages}
  /\ UNCHANGED writes \/ writes' = Retold(writes, key.layer)
  /\ UNCHANGED <<features, doubt>>

Sending(w) ==
  /\ Send(w) /\ IsWrite(w) /\ w.at = "sent" /\ w.heard
  /\ UNCHANGED <<selected, features, pages, view, doubt>>

\* A transaction commits, and the tables of the layers it adds or removes go
\* with them.
Following(i) == Commits(i) /\ TablesFollow /\ UNCHANGED <<selected, pages, view, writes, doubt>>

LEMMA WritesAreTyped ==
  ASSUME TableTypeOK, selected # None, NEW op \in {"save", "remove"}, NEW id, NEW seen
  PROVE  LET w == Write(op, id, seen) IN IsWrite(w) /\ w.at = "sent" /\ w.heard
<1> DEFINE w == Write(op, id, seen)
<1>1. selected \in DOMAIN Tables
  BY DEF TableTypeOK
<1>2. /\ w = [op |-> op, layer |-> selected, id |-> id, tells |-> selected, latest |-> TRUE, seen |-> seen,
              at |-> "sent", heard |-> TRUE]
      /\ w.op = op /\ w.layer = selected /\ w.id = id /\ w.tells = selected /\ w.seen = seen
      /\ w.at = "sent" /\ w.heard
  BY DEF Write
<1> HIDE DEF w
<1>3. w \in [op : {"save", "remove"}, layer : DOMAIN Tables, id : {w.id}, tells : {w.tells}, latest : BOOLEAN,
            seen : {w.seen}, at : {"sent", "done", "refused"}, heard : BOOLEAN]
  BY <1>1, <1>2
<1> QED BY <1>2, <1>3 DEF IsWrite, w

LEMMA StepsOfTheTable ==
  ASSUME TableTypeOK, DisplayIsFetched, [Next]_vars
  PROVE  \/ UNCHANGED <<selected, features, pages, view, writes, doubt, rows>>
         \/ /\ UNCHANGED listVars
            /\ \/ \E key : Showing(key)
               \/ \E w : Sending(w)
               \/ \E i \in DOMAIN writes : ServerWrites(i) \/ WriteAnswered(i) \/ WriteLost(i)
               \/ \E key \in DOMAIN pages : PageIsRead(key) \/ PageArrives(key) \/ PageFails(key)
         \/ \E i \in DOMAIN changes : Following(i)
<1>1. CASE UNCHANGED vars
  BY <1>1 DEF vars, listVars, tableVars
<1>2. CASE UseThePanel
  <2>1. UNCHANGED tableVars
    BY <1>2 DEF UseThePanel
  <2>2. UNCHANGED rows
    BY <1>2 DEF UseThePanel, SetVisible, SetOpacity, Move, RemoveLayer, AddLayer, JobAddsLayer, Asks, Mutate
  <2> QED BY <2>1, <2>2 DEF tableVars
<1>3. CASE ChangesProceed
  <2>1. PICK i \in DOMAIN changes :
          \/ (Loads(i) \/ Fails(i) \/ Answered(i) \/ ConnectionLost(i)) /\ UNCHANGED tableVars
          \/ Following(i)
    BY <1>3 DEF ChangesProceed, Following
  <2> QED BY <2>1 DEF Loads, Fails, Answered, ConnectionLost, tableVars
<1>4. CASE ListProceeds
  BY <1>4 DEF ListProceeds, ListIsRead, ListArrives, ListFails, tableVars
<1>5. CASE UseTheTable
  <2>1. UNCHANGED listVars
    BY <1>5 DEF UseTheTable
  <2>2. Visible => selected # None /\ selected \in {k.layer : k \in DOMAIN pages}
    BY DEF Visible, DisplayIsFetched, Key, KeyOf
  <2>3. ASSUME NEW l \in Listed, SelectLayer(l) PROVE \E key : Showing(key)
    <3> DEFINE key == KeyOf(l, view.page, view.sort, view.order)
    <3>1. key = KeyOf(key.layer, key.page, key.sort, key.order) /\ key.layer = l
      BY DEF KeyOf
    <3>2. Shows(key) /\ writes' = Retold(writes, l) /\ UNCHANGED <<features, doubt>>
      BY <2>3 DEF SelectLayer
    <3> HIDE DEF key
    <3> QED BY <3>1, <3>2 DEF Showing
  <2>4. ASSUME NEW n, SetPage(n) PROVE \E key : Showing(key)
    <3> DEFINE key == KeyOf(selected, n, view.sort, view.order)
    <3>1. key = KeyOf(key.layer, key.page, key.sort, key.order) /\ key.layer = selected
      BY DEF KeyOf
    <3>2. Shows(key) /\ UNCHANGED <<writes, features, doubt>> /\ Visible
      BY <2>4 DEF SetPage
    <3> HIDE DEF key
    <3> QED BY <2>2, <3>1, <3>2 DEF Showing
  <2>5. ASSUME NEW column, SetSort(column) PROVE \E key : Showing(key)
    <3> DEFINE order == IF column = view.sort THEN Flipped(view.order) ELSE "asc"
               key == KeyOf(selected, 1, column, order)
    <3>1. key = KeyOf(key.layer, key.page, key.sort, key.order) /\ key.layer = selected
      BY DEF KeyOf
    <3>2. Shows(key) /\ UNCHANGED <<writes, features, doubt>> /\ Visible
      BY <2>5 DEF SetSort
    <3> HIDE DEF key
    <3> QED BY <2>2, <3>1, <3>2 DEF Showing
  <2>6. ASSUME NEW id, RemoveRow(id) PROVE \E w : Sending(w)
    <3> DEFINE w == Write("remove", id, Shown.layer)
    <3>1. selected # None
      BY <2>6 DEF RemoveRow, Visible
    <3>2. IsWrite(w) /\ w.at = "sent" /\ w.heard
      BY <3>1, WritesAreTyped
    <3>3. Send(w) /\ UNCHANGED <<selected, features, pages, view, doubt>>
      BY <2>6 DEF RemoveRow
    <3> HIDE DEF w
    <3> QED BY <3>2, <3>3 DEF Sending
  <2>7. ASSUME Commit PROVE \E w : Sending(w)
    <3> DEFINE w == Write("save", editing.id, editing.of)
    <3>1. selected # None
      BY <2>7 DEF Commit, InputShown, Visible
    <3>2. IsWrite(w) /\ w.at = "sent" /\ w.heard
      BY <3>1, WritesAreTyped
    <3>3. Send(w) /\ UNCHANGED <<selected, features, pages, view, doubt>>
      BY <2>7 DEF Commit
    <3> HIDE DEF w
    <3> QED BY <3>2, <3>3 DEF Sending
  <2>8. ASSUME \/ \E id \in Rows, column \in Columns : BeginEdit(id, column)
               \/ \E valid \in BOOLEAN : Types(valid)
               \/ Escape
        PROVE  UNCHANGED <<selected, features, pages, view, writes, doubt>>
    BY <2>8 DEF BeginEdit, Types, Escape
  <2>9. UNCHANGED rows
    BY <2>1 DEF listVars
  <2> QED BY <1>5, <2>1, <2>3, <2>4, <2>5, <2>6, <2>7, <2>8, <2>9 DEF UseTheTable
<1>6. CASE TableProceeds
  <2>1. UNCHANGED listVars /\ UNCHANGED rows
    BY <1>6 DEF TableProceeds, listVars
  <2>2. ASSUME NEW l, FieldsSettle(l) PROVE UNCHANGED <<selected, features, pages, view, writes, doubt>>
    BY <2>2 DEF FieldsSettle
  <2> QED BY <1>6, <2>1, <2>2 DEF TableProceeds
<1> QED BY <1>1, <1>2, <1>3, <1>4, <1>5, <1>6 DEF Next

(***************************************************************************)
(* The pages after a step.                                                 *)
(***************************************************************************)
\* What the user turns to is fetched, or is there and valid.
LEMMA ShownPages ==
  ASSUME TableTypeOK, NEW key, Shows(key), key = KeyOf(key.layer, key.page, key.sort, key.order)
  PROVE  /\ selected' = key.layer /\ Key' = key
         /\ view' = [page |-> view'.page, sort |-> view'.sort, order |-> view'.order, last |-> view'.last]
         /\ DOMAIN pages' = DOMAIN pages \cup {key} /\ pages' = [k \in DOMAIN pages' |-> pages'[k]]
         /\ \A k \in DOMAIN pages \ {key} : pages'[k] = pages[k]
         /\ IsQuery(pages'[key])
         /\ \/ pages'[key].fetch = "asked"
            \/ /\ key \in DOMAIN pages /\ pages'[key] = pages[key]
               /\ pages'[key].fetch = "none" =>
                    pages'[key].data # None /\ ~pages'[key].invalid /\ ~pages'[key].error
<1> DEFINE known == IF key \in DOMAIN pages THEN pages[key] ELSE Unknown
<1>1. PICK q \in Observed(known) :
        pages' = [k \in DOMAIN pages \cup {key} |-> IF k = key THEN q ELSE pages[k]]
  BY DEF Shows
<1>2. IsQuery(known)
  BY UnknownQuery DEF TableTypeOK
<1>3. /\ IsQuery(q) /\ (q = known \/ q.fetch = "asked")
      /\ q.fetch = "none" => q = known /\ q.data # None /\ ~q.invalid /\ ~q.error
  <2> HIDE DEF known
  <2> QED BY <1>1, <1>2, ObservedQuery
<1>4. q.fetch = "asked" \/ (key \in DOMAIN pages /\ q = pages[key])
  <2>1. CASE key \in DOMAIN pages
    <3>1. known = pages[key]
      BY <2>1
    <3> HIDE DEF known
    <3> QED BY <1>3, <2>1, <3>1
  <2>2. CASE key \notin DOMAIN pages
    <3>1. known = Unknown
      BY <2>2
    <3> HIDE DEF known
    <3> QED BY <1>1, <3>1, UnknownQuery
  <2> QED BY <2>1, <2>2
<1>5. /\ selected' = key.layer
      /\ view' = [page |-> key.page, sort |-> key.sort, order |-> key.order,
                  last |-> IF known.data # None THEN key ELSE view.last]
  BY DEF Shows
<1>6. /\ view'.page = key.page /\ view'.sort = key.sort /\ view'.order = key.order
      /\ view' = [page |-> view'.page, sort |-> view'.sort, order |-> view'.order, last |-> view'.last]
  <2> HIDE DEF known
  <2> QED BY <1>5
<1>7. Key' = key
  BY <1>5, <1>6 DEF Key
<1>8. /\ DOMAIN pages' = DOMAIN pages \cup {key} /\ pages'[key] = q
      /\ \A k \in DOMAIN pages \ {key} : pages'[k] = pages[k]
      /\ pages' = [k \in DOMAIN pages' |-> pages'[k]]
  BY <1>1
<1> HIDE DEF known
<1> QED BY <1>3, <1>4, <1>5, <1>6, <1>7, <1>8

LEMMA PagesProceed ==
  ASSUME TableTypeOK, NEW key \in DOMAIN pages, PageIsRead(key) \/ PageArrives(key) \/ PageFails(key)
  PROVE  /\ UNCHANGED <<selected, features, writes, doubt>> /\ Key' = Key
         /\ view' = [page |-> view'.page, sort |-> view'.sort, order |-> view'.order, last |-> view'.last]
         /\ DOMAIN pages' = DOMAIN pages /\ pages' = [k \in DOMAIN pages' |-> pages'[k]]
         /\ \A k \in DOMAIN pages \ {key} : pages'[k] = pages[k]
         /\ IsQuery(pages'[key])
         /\ \/ /\ pages'[key].fetch = "read" /\ features[key.layer] # None
               /\ pages'[key].answer \in PagesOf(features[key.layer], key)
            \/ pages'[key].fetch = "none" /\ pages'[key].error
            \/ /\ pages'[key].fetch = "none" /\ ~pages'[key].invalid
               /\ pages[key].fetch = "read" /\ pages'[key].data = pages[key].answer
<1> DEFINE q == pages[key]
           Same(r) ==
             /\ DOMAIN pages' = DOMAIN pages /\ pages' = [k \in DOMAIN pages' |-> pages'[k]]
             /\ \A k \in DOMAIN pages \ {key} : pages'[k] = pages[k]
             /\ pages'[key] = r
           SameView ==
             /\ view' = [page |-> view'.page, sort |-> view'.sort, order |-> view'.order, last |-> view'.last]
             /\ Key' = Key
<1>1. IsQuery(q)
  BY DEF TableTypeOK
<1>2. ASSUME NEW r, pages' = [pages EXCEPT ![key] = r] PROVE Same(r)
  BY <1>2 DEF TableTypeOK
<1>3. ASSUME UNCHANGED selected, UNCHANGED view \/ view' = [view EXCEPT !.last = key] PROVE SameView
  BY <1>3 DEF TableTypeOK, Key
<1>4. CASE PageIsRead(key) /\ Refused(key)
  <2>1. pages' = [pages EXCEPT ![key] = Failed(q)]
    BY <1>4 DEF PageIsRead
  <2>2. Same(Failed(q))
    BY <1>2, <2>1
  <2>3. UNCHANGED <<selected, features, writes, doubt>> /\ SameView
    BY <1>3, <1>4 DEF PageIsRead
  <2>4. IsQuery(Failed(q)) /\ Failed(q).fetch = "none" /\ Failed(q).error
    BY <1>1, QueriesProceed
  <2> QED BY <2>2, <2>3, <2>4
<1>5. CASE PageIsRead(key) /\ ~Refused(key)
  <2>1. features[key.layer] # None
    BY <1>5 DEF Refused
  <2>5. PICK now \in PagesOf(features[key.layer], key) : pages' = [pages EXCEPT ![key] = Reads(q, now)]
    BY <1>5 DEF PageIsRead
  <2>2. Same(Reads(q, now))
    BY <1>2, <2>5
  <2>3. UNCHANGED <<selected, features, writes, doubt>> /\ SameView
    BY <1>3, <1>5 DEF PageIsRead
  <2>4. IsQuery(Reads(q, now)) /\ Reads(q, now).fetch = "read" /\ Reads(q, now).answer = now
    BY <1>1, QueriesProceed
  <2> QED BY <2>1, <2>2, <2>3, <2>4
<1>6. CASE PageArrives(key)
  <2>1. pages' = [pages EXCEPT ![key] = Arrived(q)] /\ q.fetch = "read"
    BY <1>6 DEF PageArrives
  <2>2. Same(Arrived(q))
    BY <1>2, <2>1
  <2>3. UNCHANGED <<selected, features, writes, doubt>> /\ SameView
    BY <1>3, <1>6 DEF PageArrives
  <2>4. IsQuery(Arrived(q)) /\ Arrived(q).fetch = "none" /\ Arrived(q).data = q.answer /\ ~Arrived(q).invalid
    BY <1>1, QueriesProceed
  <2> QED BY <2>1, <2>2, <2>3, <2>4
<1>7. CASE PageFails(key)
  <2>1. pages' = [pages EXCEPT ![key] = Failed(q)]
    BY <1>7 DEF PageFails
  <2>2. Same(Failed(q))
    BY <1>2, <2>1
  <2>3. UNCHANGED <<selected, features, writes, doubt>> /\ SameView
    BY <1>3, <1>7 DEF PageFails
  <2>4. IsQuery(Failed(q)) /\ Failed(q).fetch = "none" /\ Failed(q).error
    BY <1>1, QueriesProceed
  <2> QED BY <2>2, <2>3, <2>4
<1> QED BY <1>4, <1>5, <1>6, <1>7

\* An answer leaves each page as it was, or invalidates it: those of the layer
\* the write is told of, when it succeeded and somebody listens.
LEMMA ToldPages ==
  ASSUME TableTypeOK, NEW i \in DOMAIN writes, WriteAnswered(i)
  PROVE  /\ UNCHANGED <<selected, features, view>> /\ Key' = Key
         /\ DOMAIN pages' = DOMAIN pages /\ pages' = [k \in DOMAIN pages' |-> pages'[k]]
         /\ doubt \subseteq doubt'
         /\ \A k \in DOMAIN pages :
              /\ IsQuery(pages'[k])
              /\ \/ pages'[k] = pages[k]
                 \/ pages'[k].fetch = "asked"
                 \/ /\ pages'[k].fetch = pages[k].fetch /\ pages'[k].answer = pages[k].answer
                    /\ pages'[k].data = pages[k].data /\ pages'[k].invalid
                    /\ k = Key => pages[k].data = None /\ pages[k].fetch # "none"
         /\ writes[i].at = "done" /\ writes[i].heard =>
              \A k \in DOMAIN pages :
                \/ k.layer # writes[i].layer \/ writes[i].layer \in doubt'
                \/ pages'[k].fetch = "asked"
                \/ pages'[k].fetch = "none" /\ pages'[k].invalid
<1> DEFINE w == writes[i]
           inv(k) == Invalidated(pages[k], k = Key)
<1>1. UNCHANGED <<selected, features, view>> /\ Key' = Key
  BY DEF WriteAnswered, Key
<1>2. ASSUME NEW k \in DOMAIN pages
      PROVE  /\ IsQuery(pages[k])
             /\ IsQuery(inv(k))
             /\ k = Key /\ Restarts(pages[k]) => inv(k).fetch = "asked"
             /\ ~(k = Key /\ Restarts(pages[k])) =>
                  /\ inv(k).fetch = pages[k].fetch
                  /\ inv(k).answer = pages[k].answer
                  /\ inv(k).data = pages[k].data
                  /\ inv(k).invalid
  <2>1. PICK q : q = pages[k]
    OBVIOUS
  <2>2. IsQuery(q)
    BY <2>1 DEF TableTypeOK
  <2> DEFINE shown == k = Key
  <2>3. shown \in BOOLEAN
    OBVIOUS
  <2> HIDE DEF shown
  <2>4. PICK r : r = Invalidated(q, shown)
    OBVIOUS
  <2>5. /\ IsQuery(r)
        /\ shown /\ Restarts(q) => r.fetch = "asked"
        /\ ~(shown /\ Restarts(q)) => r.fetch = q.fetch /\ r.answer = q.answer /\ r.data = q.data /\ r.invalid
    BY <2>2, <2>3, <2>4, InvalidatedQuery
  <2>6. inv(k) = r
    BY <2>1, <2>4 DEF shown
  <2>7. shown <=> k = Key
    BY DEF shown
  <2> QED BY <2>1, <2>2, <2>5, <2>6, <2>7
<1> HIDE DEF inv
<1>3. CASE ~(w.at = "done" /\ w.heard)
  <2>1. UNCHANGED <<pages, doubt>>
    BY <1>3 DEF WriteAnswered
  <2>2. pages = [k \in DOMAIN pages |-> pages[k]]
    BY DEF TableTypeOK
  <2> QED BY <1>1, <1>2, <1>3, <2>1, <2>2
<1>4. CASE w.at = "done" /\ w.heard
  <2> DEFINE told == {k \in DOMAIN pages : Invalidates(w, k)}
  <2>1. /\ pages' = [k \in DOMAIN pages |-> IF k \in told THEN inv(k) ELSE pages[k]]
        /\ doubt' = doubt \cup {l \in {w.layer} : w.tells # l \/ \E k \in DOMAIN pages :
                                                     k.layer = l /\ Outlives(k)}
    BY <1>4, Zenon DEF WriteAnswered, inv
  <2>2. /\ DOMAIN pages' = DOMAIN pages /\ pages' = [k \in DOMAIN pages' |-> pages'[k]]
        /\ \A k \in DOMAIN pages :
             pages'[k] = IF k \in told THEN inv(k) ELSE pages[k]
    BY <2>1, Zenon
  <2>3. doubt \subseteq doubt'
    BY <2>1
  <2>4. ASSUME NEW k \in DOMAIN pages
        PROVE  /\ IsQuery(pages'[k])
               /\ \/ pages'[k] = pages[k]
                  \/ pages'[k].fetch = "asked"
                  \/ /\ pages'[k].fetch = pages[k].fetch /\ pages'[k].answer = pages[k].answer
                     /\ pages'[k].data = pages[k].data /\ pages'[k].invalid
                     /\ k = Key => pages[k].data = None /\ pages[k].fetch # "none"
    <3>1. CASE k \in told
      BY <1>2, <2>2, <3>1 DEF Restarts
    <3>2. CASE k \notin told
      BY <1>2, <2>2, <3>2
    <3> QED BY <3>1, <3>2
  <2>5. ASSUME NEW k \in DOMAIN pages, k.layer = w.layer, w.layer \notin doubt'
        PROVE  pages'[k].fetch = "asked" \/ (pages'[k].fetch = "none" /\ pages'[k].invalid)
    <3>1. w.tells = w.layer /\ ~Outlives(k)
      BY <2>1, <2>5
    <3>2. k \in told
      BY <2>5, <3>1 DEF Invalidates
    <3>3. pages'[k] = inv(k)
      BY <2>2, <3>2
    <3>4. pages[k].fetch = "none" \/ (k = Key /\ Restarts(pages[k]))
      BY <3>1, Zenon DEF Outlives
    <3>5. CASE k = Key /\ Restarts(pages[k])
      BY <1>2, <3>3, <3>5
    <3>6. CASE pages[k].fetch = "none" /\ ~(k = Key /\ Restarts(pages[k]))
      <4>1. pages'[k].fetch = pages[k].fetch /\ pages'[k].invalid
        BY <1>2, <3>3, <3>6
      <4> QED BY <3>6, <4>1
    <3> QED BY <3>4, <3>5, <3>6
  <2> QED BY <1>1, <1>4, <2>2, <2>3, <2>4, <2>5
<1> QED BY <1>3, <1>4

(***************************************************************************)
(* The parts of the table's invariant, step by step.                       *)
(***************************************************************************)
\* Which writes there are after each kind of step.
LEMMA WritesStayTyped ==
  ASSUME TableTypeOK, WritesAreHeard, DisplayIsFetched, [Next]_vars
  PROVE  /\ writes' \in Seq(ToSet(writes')) /\ \A j \in DOMAIN writes' : IsWrite(writes'[j])
         /\ WritesAreHeard'
<1> DEFINE Typed == writes' \in Seq(ToSet(writes')) /\ \A j \in DOMAIN writes' : IsWrite(writes'[j])
           Heard == \A j \in DOMAIN writes' : writes'[j].heard \/ writes'[j].layer \in doubt'
<1> SUFFICES Typed /\ Heard
  BY DEF WritesAreHeard
<1>1. \A j \in DOMAIN writes : writes[j].heard \/ writes[j].layer \in doubt
  BY DEF WritesAreHeard
<1>2. CASE UNCHANGED <<selected, features, pages, view, writes, doubt, rows>>
  BY <1>1, <1>2 DEF TableTypeOK
<1>3. ASSUME NEW key, Showing(key) PROVE Typed /\ Heard
  <2>1. CASE UNCHANGED writes
    BY <1>1, <1>3, <2>1 DEF Showing, TableTypeOK
  <2>2. CASE writes' = Retold(writes, key.layer)
    BY <1>1, <1>3, <2>2, AfterRetelling DEF Showing
  <2> QED BY <1>3, <2>1, <2>2 DEF Showing
<1>4. ASSUME NEW w, Sending(w) PROVE Typed /\ Heard
  <2>1. Send(w) /\ IsWrite(w) /\ w.heard /\ doubt' = doubt
    BY <1>4 DEF Sending
  <2> QED BY <1>1, <2>1, AfterSending
<1>5. ASSUME NEW i \in DOMAIN writes, ServerWrites(i) PROVE Typed /\ Heard
  <2>1. PICK a \in {"done", "refused"} : writes' = [writes EXCEPT ![i].at = a]
    BY <1>5 DEF ServerWrites
  <2>2. doubt' = doubt
    BY <1>5 DEF ServerWrites
  <2>3. /\ writes' \in Seq(ToSet(writes')) /\ DOMAIN writes' = DOMAIN writes
        /\ \A j \in DOMAIN writes :
             /\ IsWrite(writes'[j]) /\ writes'[j].layer = writes[j].layer /\ writes'[j].heard = writes[j].heard
    BY <2>1, AfterWriting
  <2> QED BY <1>1, <2>2, <2>3
<1>6. ASSUME NEW i \in DOMAIN writes, WriteAnswered(i) PROVE Typed /\ Heard
  <2>1. writes' = RemoveAt(writes, i) /\ doubt \subseteq doubt'
    BY <1>6, ToldPages DEF WriteAnswered
  <2> QED BY <1>1, <2>1, AfterAnswer
<1>7. ASSUME NEW i \in DOMAIN writes, WriteLost(i) PROVE Typed /\ Heard
  <2>1. doubt' = doubt \cup {writes[i].layer}
    BY <1>7 DEF WriteLost
  <2>2. CASE writes' = [writes EXCEPT ![i].heard = FALSE]
    <3>1. /\ writes' \in Seq(ToSet(writes')) /\ DOMAIN writes' = DOMAIN writes
          /\ \A j \in DOMAIN writes \ {i} : writes'[j] = writes[j]
          /\ \A j \in DOMAIN writes : IsWrite(writes'[j]) /\ writes'[j].layer = writes[j].layer
      BY <2>2, AfterSilence
    <3> QED BY <1>1, <2>1, <3>1
  <2>3. CASE writes' = RemoveAt(writes, i)
    <3>1. /\ writes' \in Seq(ToSet(writes')) /\ \A j \in DOMAIN writes' : IsWrite(writes'[j])
          /\ \A j \in DOMAIN writes' : \E k \in DOMAIN writes \ {i} : writes'[j] = writes[k]
      BY <2>3, AfterAnswer
    <3> QED BY <1>1, <2>1, <3>1
  <2> QED BY <1>7, <2>2, <2>3 DEF WriteLost
<1>8. ASSUME NEW key \in DOMAIN pages, PageIsRead(key) \/ PageArrives(key) \/ PageFails(key) PROVE Typed /\ Heard
  <2>1. UNCHANGED <<writes, doubt>>
    BY <1>8 DEF PageIsRead, PageArrives, PageFails
  <2> QED BY <1>1, <2>1 DEF TableTypeOK
<1>9. ASSUME NEW i \in DOMAIN changes, Following(i) PROVE Typed /\ Heard
  BY <1>1, <1>9 DEF Following, TableTypeOK
<1> HIDE DEF Typed, Heard
<1> QED BY <1>2, <1>3, <1>4, <1>5, <1>6, <1>7, <1>8, <1>9, StepsOfTheTable

\* A layer that somebody has seen has been given, and is a table's.
LEMMA SeenIsALayer ==
  ASSUME ListTypeOK, TableTypeOK, NEW l \in Listed \cup {k.layer : k \in DOMAIN pages}
  PROVE  l \in DOMAIN Tables
<1>1. Listed \subseteq Layers
  BY StackRows DEF ListTypeOK, Listed
<1> QED BY <1>1, ScenariosAssumption DEF TableTypeOK

LEMMA FeaturesStayTyped ==
  ASSUME TableTypeOK, DisplayIsFetched, [Next]_vars
  PROVE  features' \in [DOMAIN Tables -> [ids : SUBSET Rows, rev : Nat] \cup {None}]
<1> DEFINE Contents == [ids : SUBSET Rows, rev : Nat] \cup {None}
<1>1. features \in [DOMAIN Tables -> Contents]
  BY DEF TableTypeOK
<1>2. CASE UNCHANGED features
  BY <1>1, <1>2
<1>3. ASSUME NEW i \in DOMAIN writes, ServerWrites(i) PROVE features' \in [DOMAIN Tables -> Contents]
  <2> DEFINE l == writes[i].layer
  <2>1. l \in DOMAIN Tables
    BY WritesAreRecords DEF TableTypeOK
  <2>2. CASE features[l] # None
    <3>1. After(features[l], writes[i]) \in Contents
      BY <2>1, <2>2, TablesAreNotNone
    <3>2. features' = features \/ features' = [features EXCEPT ![l] = After(features[l], writes[i])]
      BY <1>3 DEF ServerWrites
    <3> HIDE DEF Contents, l
    <3> QED BY <1>1, <2>1, <3>1, <3>2
  <2>3. CASE features[l] = None
    BY <1>1, <1>3, <2>3 DEF ServerWrites
  <2> QED BY <2>2, <2>3
<1>4. ASSUME TablesFollow PROVE features' \in [DOMAIN Tables -> Contents]
  <2>1. NewTable \in Contents
    BY DEF NewTable
  <2> HIDE DEF Contents
  <2>2. None \in Contents
    BY DEF Contents
  <2> QED BY <1>1, <1>4, <2>1, <2>2 DEF TablesFollow
<1> HIDE DEF Contents
<1>5. UNCHANGED features \/ (\E i \in DOMAIN writes : ServerWrites(i)) \/ TablesFollow
  BY StepsOfTheTable DEF Showing, Sending, Following, PageIsRead, PageArrives, PageFails, WriteAnswered, WriteLost
<1> QED BY <1>2, <1>3, <1>4, <1>5 DEF Contents

LEMMA TableTypeKept ==
  ASSUME ListTypeOK, TableTypeOK, WritesAreHeard, DisplayIsFetched, [Next]_vars
  PROVE  TableTypeOK'
<1> DEFINE Typed ==
             /\ selected' \in DOMAIN Tables \cup {None}
             /\ view' = [page |-> view'.page, sort |-> view'.sort, order |-> view'.order, last |-> view'.last]
             /\ pages' = [k \in DOMAIN pages' |-> pages'[k]]
             /\ \A k \in DOMAIN pages' :
                  /\ k.layer \in DOMAIN Tables /\ IsQuery(pages'[k])
                  /\ pages'[k].fetch = "read" => pages'[k].answer # None
<1> SUFFICES Typed
  BY WritesStayTyped, FeaturesStayTyped DEF TableTypeOK
<1>1. /\ selected \in DOMAIN Tables \cup {None}
      /\ view = [page |-> view.page, sort |-> view.sort, order |-> view.order, last |-> view.last]
      /\ pages = [k \in DOMAIN pages |-> pages[k]]
      /\ \A k \in DOMAIN pages :
           /\ k.layer \in DOMAIN Tables /\ IsQuery(pages[k])
           /\ pages[k].fetch = "read" => pages[k].answer # None
  BY DEF TableTypeOK
<1>2. CASE UNCHANGED <<selected, pages, view>>
  BY <1>1, <1>2
<1>3. ASSUME NEW key, Showing(key) PROVE Typed
  <2>1. key.layer \in DOMAIN Tables
    BY <1>3, SeenIsALayer DEF Showing
  <2>2. Shows(key) /\ key = KeyOf(key.layer, key.page, key.sort, key.order)
    BY <1>3 DEF Showing
  <2>3. /\ selected' = key.layer
        /\ view' = [page |-> view'.page, sort |-> view'.sort, order |-> view'.order, last |-> view'.last]
        /\ DOMAIN pages' = DOMAIN pages \cup {key} /\ pages' = [k \in DOMAIN pages' |-> pages'[k]]
        /\ \A k \in DOMAIN pages \ {key} : pages'[k] = pages[k]
        /\ IsQuery(pages'[key])
        /\ pages'[key].fetch = "asked" \/ (key \in DOMAIN pages /\ pages'[key] = pages[key])
    BY <2>2, ShownPages
  <2> QED BY <1>1, <2>1, <2>3
<1>4. ASSUME NEW i \in DOMAIN writes, WriteAnswered(i) PROVE Typed
  <2>1. /\ UNCHANGED <<selected, view>>
        /\ DOMAIN pages' = DOMAIN pages /\ pages' = [k \in DOMAIN pages' |-> pages'[k]]
        /\ \A k \in DOMAIN pages :
             /\ IsQuery(pages'[k])
             /\ \/ pages'[k] = pages[k]
                \/ pages'[k].fetch = "asked"
                \/ pages'[k].fetch = pages[k].fetch /\ pages'[k].answer = pages[k].answer
    BY <1>4, ToldPages
  <2> QED BY <1>1, <2>1
<1>5. ASSUME NEW key \in DOMAIN pages, PageIsRead(key) \/ PageArrives(key) \/ PageFails(key) PROVE Typed
  <2>1. /\ UNCHANGED <<selected, features>>
        /\ view' = [page |-> view'.page, sort |-> view'.sort, order |-> view'.order, last |-> view'.last]
        /\ DOMAIN pages' = DOMAIN pages /\ pages' = [k \in DOMAIN pages' |-> pages'[k]]
        /\ \A k \in DOMAIN pages \ {key} : pages'[k] = pages[k]
        /\ IsQuery(pages'[key])
        /\ pages'[key].fetch = "none" \/ (/\ features[key.layer] # None
                                          /\ pages'[key].answer \in PagesOf(features[key.layer], key))
    BY <1>5, PagesProceed
  <2>2. features[key.layer] # None => None \notin PagesOf(features[key.layer], key)
    BY <1>1, TablesAreNotNone
  <2> QED BY <1>1, <2>1, <2>2
<1> HIDE DEF Typed
<1>6. \/ UNCHANGED <<selected, pages, view>> \/ \E key : Showing(key)
      \/ \E i \in DOMAIN writes : WriteAnswered(i)
      \/ \E key \in DOMAIN pages : PageIsRead(key) \/ PageArrives(key) \/ PageFails(key)
  BY StepsOfTheTable DEF Sending, Following, ServerWrites, WriteLost
<1> QED BY <1>2, <1>3, <1>4, <1>5, <1>6

\* What is on display is being fetched, is there and valid, or has failed.
LEMMA DisplayKept ==
  ASSUME TableTypeOK, DisplayIsFetched, [Next]_vars
  PROVE  DisplayIsFetched'
<1> DEFINE Served(l, k, p) ==
      l # None => k \in DOMAIN p /\ (p[k].fetch = "none" => p[k].error \/ (p[k].data # None /\ ~p[k].invalid))
<1>1. Served(selected, Key, pages)
  BY DEF DisplayIsFetched, Page
<1>2. Served(selected', Key', pages') => DisplayIsFetched'
  BY DEF DisplayIsFetched, Page
<1>3. CASE UNCHANGED <<selected, pages, view>>
  <2>1. Key' = Key
    BY <1>3 DEF Key
  <2> QED BY <1>1, <1>2, <1>3, <2>1
<1>4. ASSUME NEW key, Showing(key) PROVE Served(selected', Key', pages')
  <2>1. Shows(key) /\ key = KeyOf(key.layer, key.page, key.sort, key.order)
    BY <1>4 DEF Showing
  <2>2. Key' = key /\ key \in DOMAIN pages'
    BY <2>1, ShownPages
  <2>3. pages'[key].fetch = "none" => pages'[key].data # None /\ ~pages'[key].invalid
    BY <2>1, ShownPages
  <2> QED BY <2>2, <2>3
<1>5. ASSUME NEW i \in DOMAIN writes, WriteAnswered(i) PROVE Served(selected', Key', pages')
  <2>1. /\ selected' = selected /\ Key' = Key /\ DOMAIN pages' = DOMAIN pages
        /\ \A k \in DOMAIN pages :
             \/ pages'[k] = pages[k]
             \/ pages'[k].fetch = "asked"
             \/ pages'[k].fetch = pages[k].fetch /\ (k = Key => pages[k].fetch # "none")
    BY <1>5, ToldPages
  <2> QED BY <1>1, <2>1
<1>6. ASSUME NEW key \in DOMAIN pages, PageIsRead(key) \/ PageArrives(key) \/ PageFails(key)
      PROVE  Served(selected', Key', pages')
  <2>1. /\ selected' = selected /\ Key' = Key /\ DOMAIN pages' = DOMAIN pages
        /\ \A k \in DOMAIN pages \ {key} : pages'[k] = pages[k]
        /\ \/ pages'[key].fetch = "read"
           \/ pages'[key].fetch = "none" /\ pages'[key].error
           \/ /\ pages'[key].fetch = "none" /\ ~pages'[key].invalid
              /\ pages[key].fetch = "read" /\ pages'[key].data = pages[key].answer
    BY <1>6, PagesProceed
  <2>2. pages[key].fetch = "read" => pages[key].answer # None
    BY DEF TableTypeOK
  <2> QED BY <1>1, <2>1, <2>2
<1>7. \/ UNCHANGED <<selected, pages, view>> \/ \E key : Showing(key)
      \/ \E i \in DOMAIN writes : WriteAnswered(i)
      \/ \E key \in DOMAIN pages : PageIsRead(key) \/ PageArrives(key) \/ PageFails(key)
  BY StepsOfTheTable DEF Sending, Following, ServerWrites, WriteLost
<1> HIDE DEF Served
<1> QED BY <1>2, <1>3, <1>4, <1>5, <1>6, <1>7

\* A layer that comes into the database is the one its transaction adds.
LEMMA NewRowsAreCreated ==
  ASSUME NEW i \in DOMAIN changes, Commits(i), NEW l \in DOMAIN rows', l \notin DOMAIN rows
  PROVE  changes[i].op = "create" /\ changes[i].layer = l /\ changes[i].at = "loaded"
<1>1. rows' = Written(changes[i]) /\ changes[i].at = "loaded"
  BY DEF Commits
<1>2. CASE changes[i].op = "remove"
  <2>1. rows' = [k \in DOMAIN rows \ {changes[i].layer} |-> rows[k]]
    BY <1>1, <1>2 DEF Written
  <2> QED BY <2>1
<1>3. CASE changes[i].op = "create"
  <2>1. DOMAIN rows' = DOMAIN rows \cup {changes[i].layer}
    BY <1>1, <1>3 DEF Written
  <2> QED BY <1>1, <1>3, <2>1
<1>4. CASE changes[i].op \notin {"remove", "create"}
  <2>1. rows' = [k \in DOMAIN rows |-> Updated(changes[i], k)]
    BY <1>1, <1>4 DEF Written
  <2> QED BY <2>1
<1> QED BY <1>2, <1>3, <1>4

LEMMA TablesFollowLayers ==
  ASSUME TableTypeOK, TablesAreOfLayers, DisplayIsFetched, [Next]_vars
  PROVE  TablesAreOfLayers'
<1>1. \A l \in Layers : features[l] # None <=> l \in DOMAIN rows
  BY DEF TablesAreOfLayers
<1>2. DOMAIN features = Layers
  BY ScenariosAssumption DEF TableTypeOK
<1>3. CASE UNCHANGED <<features, rows>>
  BY <1>1, <1>3 DEF TablesAreOfLayers
<1>4. ASSUME NEW i \in DOMAIN writes, ServerWrites(i), UNCHANGED rows PROVE TablesAreOfLayers'
  <2> DEFINE k == writes[i].layer
  <2>1. k \in DOMAIN Tables /\ k \in Layers
    BY WritesAreRecords, ScenariosAssumption DEF TableTypeOK
  <2>2. CASE features[k] = None
    BY <1>1, <1>4, <2>2 DEF ServerWrites, TablesAreOfLayers
  <2>3. CASE features[k] # None
    <3>1. After(features[k], writes[i]) # None
      BY <2>1, <2>3, TablesAreNotNone
    <3>2. features' = features \/ features' = [features EXCEPT ![k] = After(features[k], writes[i])]
      BY <1>4 DEF ServerWrites
    <3> HIDE DEF k
    <3>3. \A l \in Layers : features'[l] # None <=> features[l] # None
      BY <1>2, <2>1, <2>3, <3>1, <3>2
    <3> QED BY <1>1, <1>4, <3>3 DEF TablesAreOfLayers
  <2> QED BY <2>2, <2>3
<1>5. ASSUME TablesFollow PROVE TablesAreOfLayers'
  <2>1. NewTable # None
    <3>1. NewTable \in [ids : SUBSET Rows, rev : Nat]
      BY DEF NewTable
    <3> QED BY <3>1, TablesAssumption
  <2> QED BY <1>2, <1>5, <2>1 DEF TablesFollow, TablesAreOfLayers
<1>6. \/ UNCHANGED <<features, rows>> \/ TablesFollow
      \/ \E i \in DOMAIN writes : ServerWrites(i) /\ UNCHANGED rows
  BY StepsOfTheTable
     DEF listVars, Showing, Sending, Following, PageIsRead, PageArrives, PageFails, WriteAnswered, WriteLost
<1> QED BY <1>3, <1>4, <1>5, <1>6

\* A page that is not the table's waits for an answer, is fetched, or is known
\* to be old.
LEMMA OldPagesKept ==
  ASSUME TableInv, TablesAreOfLayers, NewIsUnseen, [Next]_vars
  PROVE  OldPagesAreKnown'
<1> DEFINE Done(ws, l) == \E j \in DOMAIN ws : ws[j].layer = l /\ ws[j].at = "done"
           Known(k, d, fs, ws, p) ==
             k.layer \in d \/ fs[k.layer] = None \/ Done(ws, k.layer) \/ Fits(p[k], PagesOf(fs[k.layer], k))
           Kept == \A k \in DOMAIN pages' : Known(k, doubt', features', writes', pages')
<1>1. \A k \in DOMAIN pages : Known(k, doubt, features, writes, pages)
  BY DEF TableInv, OldPagesAreKnown, Fits
<1>2. Kept => OldPagesAreKnown'
  BY DEF OldPagesAreKnown, Fits
<1>3. TableTypeOK /\ WritesAreHeard /\ DisplayIsFetched
  BY DEF TableInv
<1> HIDE DEF Done
<1>4. CASE UNCHANGED <<selected, features, pages, view, writes, doubt, rows>>
  BY <1>1, <1>2, <1>4
<1>5. ASSUME NEW key, Showing(key) PROVE Kept
  <2>1. UNCHANGED <<features, doubt>> /\ \A l : Done(writes, l) => Done(writes', l)
    BY <1>3, <1>5, AfterRetelling DEF Showing, Done
  <2>2. Shows(key) /\ key = KeyOf(key.layer, key.page, key.sort, key.order)
    BY <1>5 DEF Showing
  <2>3. /\ DOMAIN pages' = DOMAIN pages \cup {key}
        /\ \A k \in DOMAIN pages \ {key} : pages'[k] = pages[k]
        /\ pages'[key].fetch = "asked" \/ (key \in DOMAIN pages /\ pages'[key] = pages[key])
    BY <1>3, <2>2, ShownPages
  <2>4. CASE pages'[key].fetch = "asked"
    <3>1. \A now : Fits(pages'[key], now)
      BY <2>4 DEF Fits
    <3> QED BY <1>1, <2>1, <2>3, <3>1
  <2>5. CASE key \in DOMAIN pages /\ pages'[key] = pages[key]
    BY <1>1, <2>1, <2>3, <2>5
  <2> QED BY <2>3, <2>4, <2>5
<1>6. ASSUME NEW w, Sending(w) PROVE Kept
  <2>1. UNCHANGED <<features, doubt, pages>> /\ Send(w)
    BY <1>6 DEF Sending
  <2>2. \A l : Done(writes, l) => Done(writes', l)
    BY <1>3, <2>1, AfterSending DEF Done
  <2> QED BY <1>1, <2>1, <2>2
<1>7. ASSUME NEW i \in DOMAIN writes, ServerWrites(i) PROVE Kept
  <2>1. UNCHANGED <<pages, doubt>> /\ writes[i].at = "sent"
    BY <1>7 DEF ServerWrites
  <2> DEFINE l == writes[i].layer
             found == features[l] # None /\ writes[i].id \in features[l].ids
  <2>2. PICK a \in {"done", "refused"} : writes' = [writes EXCEPT ![i].at = a] /\ (found => a = "done")
    BY <1>7 DEF ServerWrites
  <2>3. /\ DOMAIN writes' = DOMAIN writes /\ writes'[i].at = a
        /\ \A j \in DOMAIN writes \ {i} : writes'[j] = writes[j]
        /\ \A j \in DOMAIN writes : writes'[j].layer = writes[j].layer
    BY <1>3, <2>2, AfterWriting
  <2>4. \A k : Done(writes, k) => Done(writes', k)
    BY <2>1, <2>3 DEF Done
  <2>5. found => Done(writes', l)
    BY <2>2, <2>3 DEF Done
  <2>6. \/ found /\ features' = [features EXCEPT ![l] = After(features[l], writes[i])]
        \/ features' = features
    BY <1>7 DEF ServerWrites
  <2>7. features = [k \in DOMAIN features |-> features[k]]
    BY <1>3 DEF TableTypeOK
  <2> HIDE DEF l, found
  <2>8. \A k \in DOMAIN features : k # l \/ ~found => features'[k] = features[k]
    BY <2>6, <2>7
  <2>9. \A k \in DOMAIN pages : k.layer \in DOMAIN features
    BY <1>3 DEF TableTypeOK
  <2> QED BY <1>1, <2>1, <2>4, <2>5, <2>8, <2>9
<1>8. ASSUME NEW i \in DOMAIN writes, WriteAnswered(i) PROVE Kept
  <2> DEFINE w == writes[i]
  <2>1. writes' = RemoveAt(writes, i)
    BY <1>8 DEF WriteAnswered
  <2>2. \A k \in DOMAIN writes \ {i} : \E j \in DOMAIN writes' : writes'[j] = writes[k]
    BY <1>3, <2>1, AfterAnswer
  <2>3. \A l : Done(writes, l) => Done(writes', l) \/ (w.at = "done" /\ l = w.layer)
    BY <2>2 DEF Done
  <2>4. /\ features' = features /\ DOMAIN pages' = DOMAIN pages /\ doubt \subseteq doubt'
        /\ \A k \in DOMAIN pages :
             \/ pages'[k] = pages[k]
             \/ pages'[k].fetch = "asked"
             \/ /\ pages'[k].fetch = pages[k].fetch /\ pages'[k].answer = pages[k].answer
                /\ pages'[k].data = pages[k].data /\ pages'[k].invalid
        /\ w.at = "done" /\ w.heard =>
             \A k \in DOMAIN pages :
               \/ k.layer # w.layer \/ w.layer \in doubt'
               \/ pages'[k].fetch = "asked"
               \/ pages'[k].fetch = "none" /\ pages'[k].invalid
    BY <1>3, <1>8, ToldPages
  <2>5. ASSUME NEW k \in DOMAIN pages, NEW now, Fits(pages[k], now) PROVE Fits(pages'[k], now)
    BY <2>4, <2>5 DEF Fits
  <2>6. w.heard \/ w.layer \in doubt'
    BY <1>3, <2>4 DEF WritesAreHeard
  <2>7. ASSUME NEW k \in DOMAIN pages, w.at = "done", k.layer = w.layer, w.layer \notin doubt', NEW now
        PROVE  Fits(pages'[k], now)
    BY <2>4, <2>6, <2>7 DEF Fits
  <2> HIDE DEF w
  <2>8. ASSUME NEW k \in DOMAIN pages PROVE Known(k, doubt', features', writes', pages')
    <3>1. CASE w.at = "done" /\ k.layer = w.layer
      BY <2>7, <3>1
    <3>2. CASE ~(w.at = "done" /\ k.layer = w.layer)
      BY <1>1, <2>3, <2>4, <2>5, <3>2
    <3> QED BY <3>1, <3>2
  <2> QED BY <2>4, <2>8
<1>9. ASSUME NEW i \in DOMAIN writes, WriteLost(i) PROVE Kept
  <2>1. UNCHANGED <<features, pages>> /\ doubt' = doubt \cup {writes[i].layer}
    BY <1>9 DEF WriteLost
  <2>2. CASE writes' = [writes EXCEPT ![i].heard = FALSE]
    <3>1. /\ DOMAIN writes' = DOMAIN writes
          /\ \A j \in DOMAIN writes : writes'[j].layer = writes[j].layer /\ writes'[j].at = writes[j].at
      BY <1>3, <2>2, AfterSilence
    <3>2. \A l : Done(writes, l) => Done(writes', l)
      BY <3>1 DEF Done
    <3> QED BY <1>1, <2>1, <3>2
  <2>3. CASE writes' = RemoveAt(writes, i)
    <3>1. \A k \in DOMAIN writes \ {i} : \E j \in DOMAIN writes' : writes'[j] = writes[k]
      BY <1>3, <2>3, AfterAnswer
    <3>2. \A l : Done(writes, l) => Done(writes', l) \/ l = writes[i].layer
      BY <3>1 DEF Done
    <3> QED BY <1>1, <2>1, <3>2
  <2> QED BY <1>9, <2>2, <2>3 DEF WriteLost
<1>10. ASSUME NEW key \in DOMAIN pages, PageIsRead(key) \/ PageArrives(key) \/ PageFails(key) PROVE Kept
  <2>1. /\ UNCHANGED <<features, writes, doubt>> /\ DOMAIN pages' = DOMAIN pages
        /\ \A k \in DOMAIN pages \ {key} : pages'[k] = pages[k]
        /\ \/ pages'[key].fetch = "read" /\ pages'[key].answer \in PagesOf(features[key.layer], key)
           \/ pages'[key].fetch = "none" /\ pages'[key].error
           \/ pages'[key].fetch = "none" /\ pages[key].fetch = "read" /\ pages'[key].data = pages[key].answer
    BY <1>3, <1>10, PagesProceed
  <2>2. ASSUME NEW now, Fits(pages[key], now), now = PagesOf(features[key.layer], key) PROVE Fits(pages'[key], now)
    BY <2>1, <2>2 DEF Fits
  <2>3. Known(key, doubt, features, writes, pages')
    <3>1. CASE Fits(pages[key], PagesOf(features[key.layer], key))
      BY <2>2, <3>1
    <3> QED BY <1>1, <3>1
  <2> QED BY <1>1, <2>1, <2>3
<1>11. ASSUME NEW i \in DOMAIN changes, Following(i) PROVE Kept
  <2>1. UNCHANGED <<pages, writes, doubt>> /\ Commits(i) /\ TablesFollow
    BY <1>11 DEF Following
  <2>2. ASSUME NEW k \in DOMAIN pages PROVE features'[k.layer] = None \/ features'[k.layer] = features[k.layer]
    <3> DEFINE l == k.layer
    <3>1. l \in Layers /\ l \in DOMAIN features
      BY <1>3, ScenariosAssumption DEF TableTypeOK
    <3>2. CASE l \notin DOMAIN rows'
      BY <2>1, <3>1, <3>2 DEF TablesFollow
    <3>3. CASE l \in DOMAIN rows' /\ features[l] # None
      BY <2>1, <3>1, <3>3 DEF TablesFollow
    <3>4. CASE l \in DOMAIN rows' /\ features[l] = None
      <4>1. l \notin DOMAIN rows
        BY <3>1, <3>4 DEF TablesAreOfLayers
      <4>2. changes[i].op = "create" /\ changes[i].layer = l /\ changes[i].at = "loaded"
        BY <2>1, <3>4, <4>1, NewRowsAreCreated
      <4> QED BY <4>2 DEF NewIsUnseen
    <3> QED BY <3>2, <3>3, <3>4
  <2>3. ASSUME NEW k \in DOMAIN pages PROVE Known(k, doubt', features', writes', pages')
    BY <1>1, <2>1, <2>2
  <2> QED BY <2>1, <2>3
<1> HIDE DEF Kept
<1> QED BY <1>2, <1>3, <1>4, <1>5, <1>6, <1>7, <1>8, <1>9, <1>10, <1>11, StepsOfTheTable

\* Nobody sees a layer before it is there.
LEMMA UnseenKept ==
  ASSUME ListInv, TableInv, NewIsUnseen, [Next]_vars
  PROVE  NewIsUnseen'
<1> DEFINE Seen(q, p) == DOMAIN q.data \cup (IF q.fetch = "read" THEN DOMAIN q.answer ELSE {})
                           \cup {k.layer : k \in DOMAIN p}
           Unseen(cs, seen) ==
             \A j \in DOMAIN cs : cs[j].op = "create" /\ cs[j].at \in {"sent", "loaded"} => cs[j].layer \notin seen
<1>1. Seen(list, pages) \subseteq used /\ Unseen(changes, Seen(list, pages))
  BY DEF NewIsUnseen
<1>2. ASSUME Seen(list', pages') \subseteq used', Unseen(changes', Seen(list', pages')) PROVE NewIsUnseen'
  BY <1>2 DEF NewIsUnseen
<1>3. /\ ListTypeOK /\ TableTypeOK /\ DisplayIsFetched
      /\ DOMAIN rows \subseteq used /\ Unseen(changes, DOMAIN rows)
      /\ \A j \in DOMAIN changes : changes[j].op = "create" => changes[j].layer \in used
  BY DEF ListInv, TableInv, CreatesAreNew
<1>4. CASE UNCHANGED listVars
  <2>1. Seen(list', pages') \subseteq Seen(list, pages)
    <3>1. \A k \in DOMAIN pages' : k.layer \in Listed \cup {j.layer : j \in DOMAIN pages}
      <4>1. CASE UNCHANGED pages
        BY <4>1
      <4>2. ASSUME NEW key, Showing(key)
            PROVE  \A k \in DOMAIN pages' : k.layer \in Listed \cup {j.layer : j \in DOMAIN pages}
        <5>1. DOMAIN pages' = DOMAIN pages \cup {key}
          BY <1>3, <4>2, ShownPages DEF Showing
        <5> QED BY <4>2, <5>1 DEF Showing
      <4>3. ASSUME NEW i \in DOMAIN writes, WriteAnswered(i) PROVE DOMAIN pages' = DOMAIN pages
        BY <1>3, <4>3, ToldPages
      <4>4. ASSUME NEW key \in DOMAIN pages, PageIsRead(key) \/ PageArrives(key) \/ PageFails(key)
            PROVE  DOMAIN pages' = DOMAIN pages
        BY <1>3, <4>4, PagesProceed
      <4>5. \/ UNCHANGED pages \/ (\E key : Showing(key)) \/ (\E i \in DOMAIN writes : WriteAnswered(i))
            \/ \E key \in DOMAIN pages : PageIsRead(key) \/ PageArrives(key) \/ PageFails(key)
        BY <1>3, StepsOfTheTable DEF Sending, Following, ServerWrites, WriteLost
      <4> QED BY <4>1, <4>2, <4>3, <4>4, <4>5
    <3> QED BY <1>4, <3>1 DEF listVars, Listed
  <2>2. changes' = changes /\ used' = used
    BY <1>4 DEF listVars
  <2> HIDE DEF Seen
  <2> QED BY <1>1, <1>2, <2>1, <2>2
<1>5. ASSUME UNCHANGED pages,
             \/ \E c : Asking(c)
             \/ \E i \in DOMAIN changes :
                  Loads(i) \/ Commits(i) \/ Fails(i) \/ Answered(i) \/ ConnectionLost(i)
             \/ ListIsRead \/ ListArrives \/ ListFails
      PROVE  NewIsUnseen'
  <2>1. Seen(list', pages') \subseteq Seen(list, pages) \cup DOMAIN rows
    <3>1. CASE UNCHANGED list
      BY <1>5, <3>1
    <3>2. ASSUME NEW i \in DOMAIN changes, list' = OnSuccess(changes[i])
          PROVE  list'.data = list.data /\ list'.fetch = "asked"
      <4>1. Restarts(list)
        BY <1>3, NoneIsNoStack DEF ListTypeOK, Restarts
      <4> QED BY <3>2, <4>1 DEF OnSuccess, Invalidated, Query
    <3>3. CASE \E i \in DOMAIN changes : list' = OnSuccess(changes[i])
      BY <1>5, <3>2, <3>3
    <3>4. CASE ListIsRead
      BY <1>5, <3>4 DEF ListIsRead, Reads, Query
    <3>5. CASE ListArrives
      BY <1>5, <3>5 DEF ListArrives, Arrived, Query
    <3>6. CASE ListFails
      BY <1>5, <3>6 DEF ListFails, Failed, Query
    <3> QED BY <1>5, <3>1, <3>3, <3>4, <3>5, <3>6
            DEF Asking, Mutate, Loads, Commits, Fails, Answered, ConnectionLost
  <2> HIDE DEF Seen
  <2>2. Seen(list', pages') \subseteq used /\ Unseen(changes, Seen(list', pages'))
    BY <1>1, <1>3, <2>1
  <2>3. ASSUME NEW c, Asking(c) PROVE NewIsUnseen'
    <3>1. used \subseteq used' /\ (c.op = "create" => c.layer \notin used)
      BY <2>3 DEF Asking, Mutate, Unused
    <3>2. /\ changes'[Len(changes) + 1] = c
          /\ \A j \in DOMAIN changes' : j \in DOMAIN changes \/ j = Len(changes) + 1
          /\ \A j \in DOMAIN changes : changes'[j] = changes[j]
      BY <1>3, <2>3, AfterAsking
    <3>3. Unseen(changes', Seen(list', pages'))
      BY <2>2, <3>1, <3>2
    <3> QED BY <1>2, <2>2, <3>1, <3>3
  <2>4. ASSUME NEW i \in DOMAIN changes, Loads(i) \/ Commits(i) \/ Fails(i) PROVE NewIsUnseen'
    <3>1. UNCHANGED used
      BY <2>4 DEF Loads, Commits, Fails
    <3>2. changes[i].at \in {"sent", "loaded"}
      BY <2>4 DEF Loads, Commits, Fails
    <3>3. PICK at \in {"sent", "loaded", "done", "refused"} : \E s : Advances(i, at, s)
      BY <2>4 DEF Loads, Commits, Fails
    <3>4. /\ DOMAIN changes' = DOMAIN changes
          /\ \A j \in DOMAIN changes \ {i} : changes'[j] = changes[j]
          /\ \A j \in DOMAIN changes : changes'[j].op = changes[j].op /\ changes'[j].layer = changes[j].layer
      BY <1>3, <3>3, AfterAdvance
    <3>5. Unseen(changes', Seen(list', pages'))
      BY <2>2, <3>2, <3>4
    <3> QED BY <1>2, <2>2, <3>1, <3>5
  <2>5. ASSUME NEW i \in DOMAIN changes, UNCHANGED used, changes' = RemoveAt(changes, i) PROVE NewIsUnseen'
    <3>1. \A j \in DOMAIN changes' : \E k \in DOMAIN changes \ {i} : changes'[j] = changes[k]
      BY <1>3, <2>5, AfterRemoval
    <3>2. Unseen(changes', Seen(list', pages'))
      BY <2>2, <3>1
    <3> QED BY <1>2, <2>2, <2>5, <3>2
  <2>6. ASSUME NEW i \in DOMAIN changes, UNCHANGED used, changes' = [changes EXCEPT ![i].heard = FALSE]
        PROVE  NewIsUnseen'
    <3>1. /\ DOMAIN changes' = DOMAIN changes
          /\ \A j \in DOMAIN changes : /\ changes'[j].op = changes[j].op /\ changes'[j].layer = changes[j].layer
                                       /\ changes'[j].at = changes[j].at
      BY <1>3, <2>6, AfterLoss
    <3>2. Unseen(changes', Seen(list', pages'))
      BY <2>2, <3>1
    <3> QED BY <1>2, <2>2, <2>6, <3>2
  <2>7. CASE ListIsRead \/ ListArrives \/ ListFails
    <3>1. UNCHANGED <<changes, used>>
      BY <2>7 DEF ListIsRead, ListArrives, ListFails
    <3> QED BY <1>2, <2>2, <3>1
  <2>8. ASSUME NEW i \in DOMAIN changes, Answered(i) \/ ConnectionLost(i)
        PROVE  /\ UNCHANGED used
               /\ changes' = RemoveAt(changes, i) \/ changes' = [changes EXCEPT ![i].heard = FALSE]
    BY <2>8 DEF Answered, ConnectionLost
  <2> HIDE DEF Unseen
  <2> QED BY <1>5, <2>3, <2>4, <2>5, <2>6, <2>7, <2>8
<1>6. UNCHANGED listVars \/ UNCHANGED pages
  BY <1>3, StepsOfTheTable DEF Following
<1>7. \/ UNCHANGED listVars
      \/ \E c : Asking(c)
      \/ \E i \in DOMAIN changes :
           Loads(i) \/ Commits(i) \/ Fails(i) \/ Answered(i) \/ ConnectionLost(i)
      \/ ListIsRead \/ ListArrives \/ ListFails
  BY <1>3, StepsOfTheList
<1> QED BY <1>4, <1>5, <1>6, <1>7

LEMMA TableStarts ==
  ASSUME NEW layers \in SUBSET Layers, TableInit(layers)
  PROVE  TableInv
<1>1. features \in [DOMAIN Tables -> [ids : SUBSET Rows, rev : Nat] \cup {None}]
  BY DEF TableInit, NewTable
<1>2. pages = <<>> /\ DOMAIN pages = {} /\ pages = [k \in DOMAIN pages |-> pages[k]]
  BY DEF TableInit
<1>3. writes = <<>> /\ DOMAIN writes = {} /\ writes \in Seq(ToSet(writes))
  BY DEF TableInit
<1>4. selected = None /\ view = [page |-> 1, sort |-> None, order |-> "asc", last |-> None]
  BY DEF TableInit
<1>5. TableTypeOK
  BY <1>1, <1>2, <1>3, <1>4 DEF TableTypeOK
<1> QED BY <1>2, <1>3, <1>4, <1>5 DEF TableInv, WritesAreHeard, OldPagesAreKnown, DisplayIsFetched

\* What is true of the list, the table, and the two together.
THEOREM DataInvariance == Spec => []DataInv
<1>1. Init => DataInv
  <2> SUFFICES ASSUME NEW s \in Scenarios, ListInit(s.initial), TableInit(ToSet(s.initial)) PROVE DataInv
    BY DEF Init
  <2>1. s.initial \in Seq(Layers) /\ IsInjective(s.initial)
    BY ScenariosAssumption
  <2>2. ListInv
    BY <2>1, ListStarts
  <2>3. ToSet(s.initial) \in SUBSET Layers
    BY <2>1 DEF ToSet
  <2>4. TableInv
    BY <2>3, TableStarts
  <2>5. DOMAIN rows = ToSet(s.initial) /\ list.data = rows /\ list.fetch = "none" /\ used = ToSet(s.initial)
        /\ changes = <<>> /\ pages = <<>>
    BY DEF ListInit, Query, TableInit
  <2>6. TablesAreOfLayers
    <3>1. NewTable \in [ids : SUBSET Rows, rev : Nat]
      BY DEF NewTable
    <3>2. NewTable # None
      BY <3>1, TablesAssumption
    <3> QED BY <2>5, <3>2, ScenariosAssumption DEF TableInit, TablesAreOfLayers
  <2>7. NewIsUnseen
    BY <2>5 DEF NewIsUnseen
  <2> QED BY <2>2, <2>4, <2>6, <2>7 DEF DataInv
<1>2. DataInv /\ [Next]_vars => DataInv'
  <2> SUFFICES ASSUME DataInv, [Next]_vars PROVE DataInv'
    OBVIOUS
  <2>1. ListInv /\ TableInv /\ TablesAreOfLayers /\ NewIsUnseen
    BY DEF DataInv
  <2>2. ListTypeOK /\ TableTypeOK /\ WritesAreHeard /\ DisplayIsFetched
    BY <2>1 DEF ListInv, TableInv
  <2>3. ListInv'
    BY <2>1, TypeKept, LoadedKept, CreatesKept, StaleKept, PlacesKept DEF ListInv
  <2>4. TableInv'
    BY <2>1, <2>2, TableTypeKept, WritesStayTyped, OldPagesKept, DisplayKept DEF TableInv
  <2>5. TablesAreOfLayers'
    BY <2>1, <2>2, TablesFollowLayers
  <2>6. NewIsUnseen'
    BY <2>1, UnseenKept
  <2> QED BY <2>3, <2>4, <2>5, <2>6 DEF DataInv
<1> QED BY <1>1, <1>2, PTL DEF Spec

\* When no write and no fetch is under way, the rows shown of the selected layer
\* are those the database has, as of the last write, on whichever page and in
\* whichever order, unless the layer is in doubt (useAttributes.ts's invalidate
\* and its queries); how many rows there are may be an estimate.
THEOREM SavedIsShownHolds == Spec => []SavedIsShown
<1>1. DataInv => SavedIsShown
  <2> SUFFICES ASSUME TableInv, selected # None, writes = <<>>, Page.fetch = "none", ~Page.error,
                      selected \notin doubt, features[selected] # None
               PROVE  Page.data \in PagesOf(features[selected], Key)
    BY DEF DataInv, SavedIsShown
  <2>1. Key \in DOMAIN pages /\ Page.data # None /\ ~Page.invalid /\ Page = pages[Key]
    BY DEF TableInv, DisplayIsFetched, Page
  <2>2. Key.layer = selected
    BY DEF Key, KeyOf
  <2>3. DOMAIN writes = {}
    OBVIOUS
  <2> QED BY <2>1, <2>2, <2>3 DEF TableInv, OldPagesAreKnown
<1> QED BY <1>1, DataInvariance, PTL

=============================================================================
