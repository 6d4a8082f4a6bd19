-------------------------- MODULE EditSessionProofs --------------------------
(***************************************************************************)
(* What EditSession guarantees for any number of drawings, edits, saves,   *)
(* rejections and lost answers.                                            *)
(***************************************************************************)
EXTENDS EditSession, FiniteSetTheorems, TLAPS

-----------------------------------------------------------------------------
(***************************************************************************)
(* Operators on queues                                                     *)
(***************************************************************************)

\* The elements of a set of numbers up to n, ranked: every rank up to the size
\* of the set is the rank of one of them, of one only, and a later element has
\* a higher rank.
LEMMA RankIsOnto ==
  ASSUME NEW n \in Nat, NEW S \in SUBSET (1 .. n)
  PROVE  /\ Cardinality(S) \in Nat
         /\ \A i \in S : Rank(S, i) \in 1 .. Cardinality(S)
         /\ \A k \in 1 .. Cardinality(S) : \E i \in S : Rank(S, i) = k
         /\ \A i, j \in S : i < j => Rank(S, i) < Rank(S, j)
         /\ \A i, j \in S : Rank(S, i) = Rank(S, j) => i = j
<1> DEFINE Below(i) == {j \in S : j <= i}
           rank == [i \in S |-> Rank(S, i)]
<1>1. IsFiniteSet(S) /\ Cardinality(S) \in Nat
  <2>1. IsFiniteSet(1 .. n)
    BY FS_Interval
  <2>2. IsFiniteSet(S)
    BY <2>1, FS_Subset
  <2> QED BY <2>2, FS_CardinalityType
<1>2. ASSUME NEW i \in S
      PROVE  IsFiniteSet(Below(i)) /\ Rank(S, i) = Cardinality(Below(i)) /\ Rank(S, i) \in 1 .. Cardinality(S)
  <2>1. /\ IsFiniteSet(Below(i)) /\ Cardinality(Below(i)) \in Nat
        /\ Cardinality(Below(i)) <= Cardinality(S)
    BY <1>1, FS_Subset, FS_CardinalityType
  <2>2. i \in Below(i)
    <3>1. i \in Int
      OBVIOUS
    <3> QED BY <3>1
  <2>3. Cardinality(Below(i)) # 0
    BY <2>1, <2>2, FS_EmptySet
  <2>4. Rank(S, i) = Cardinality(Below(i))
    BY DEF Rank
  <2> HIDE DEF Below
  <2>5. Cardinality(Below(i)) \in 1 .. Cardinality(S)
    BY <1>1, <2>1, <2>3
  <2> QED BY <2>1, <2>4, <2>5, Zenon
<1>3. ASSUME NEW i \in S, NEW j \in S, i < j
      PROVE  Rank(S, i) < Rank(S, j)
  <2>1. Below(i) \subseteq Below(j) /\ j \in Below(j) /\ j \notin Below(i)
    <3>1. \A k \in S : k <= i => k <= j
      BY <1>3
    <3>2. j <= j /\ ~(j <= i)
      BY <1>3
    <3> QED BY <3>1, <3>2, Zenon
  <2>2. /\ Cardinality(Below(i)) # Cardinality(Below(j))
        /\ Cardinality(Below(i)) <= Cardinality(Below(j))
    BY <1>2, <2>1, FS_Subset
  <2>3. /\ Rank(S, i) = Cardinality(Below(i)) /\ Rank(S, j) = Cardinality(Below(j))
        /\ Rank(S, i) \in Int /\ Rank(S, j) \in Int
    BY <1>2
  <2> HIDE DEF Below
  <2> QED BY <2>2, <2>3
<1>4. ASSUME NEW i \in S, NEW j \in S, Rank(S, i) = Rank(S, j)
      PROVE  i = j
  <2> HIDE DEF Below, rank
  <2>1. i \in Int /\ j \in Int /\ Rank(S, i) \in Int
    <3>1. i \in 1 .. n /\ j \in 1 .. n
      OBVIOUS
    <3>2. Rank(S, i) \in 1 .. Cardinality(S)
      BY <1>2
    <3> QED BY <1>1, <3>1, <3>2
  <2>2. CASE i < j
    <3>1. Rank(S, i) < Rank(S, j)
      BY <1>3, <2>2
    <3> QED BY <1>4, <2>1, <3>1
  <2>3. CASE j < i
    <3>1. Rank(S, j) < Rank(S, i)
      BY <1>3, <2>3
    <3> QED BY <1>4, <2>1, <3>1
  <2> QED BY <2>1, <2>2, <2>3
<1>5. rank \in Injection(S, 1 .. Cardinality(S))
  BY <1>2, <1>4 DEF Injection, IsInjective
<1>6. IsFiniteSet(1 .. Cardinality(S)) /\ Cardinality(1 .. Cardinality(S)) = Cardinality(S)
  BY <1>1, FS_Interval
<1>7. rank \in Surjection(S, 1 .. Cardinality(S))
  BY <1>5, <1>6, FS_Injection
<1>8. \A k \in 1 .. Cardinality(S) : \E i \in S : Rank(S, i) = k
  <2>1. \A i \in S : rank[i] = Rank(S, i)
    OBVIOUS
  <2> HIDE DEF rank
  <2> QED BY <1>7, <2>1 DEF Surjection
<1> QED BY <1>1, <1>2, <1>3, <1>4, <1>8

\* A queue is embedded in another one when each of its operations is an
\* operation of the other one, each at a place of its own.
Embedded(q, queue, place) ==
  /\ place \in [DOMAIN q -> DOMAIN queue]
  /\ \A k \in DOMAIN q : q[k] = queue[place[k]]
  /\ \A k, l \in DOMAIN q : place[k] = place[l] => k = l

\* WithoutUpdates keeps the operations other than updates of f, nothing else,
\* and none twice.
LEMMA WithoutUpdatesKeeps ==
  ASSUME NEW queue \in Seq(Operations), NEW f
  PROVE  /\ WithoutUpdates(queue, f) \in Seq(Operations)
         /\ \E place :
              /\ Embedded(WithoutUpdates(queue, f), queue, place)
              /\ \A i \in DOMAIN queue :
                   ~(queue[i].kind = "update" /\ queue[i].id = f) =>
                     \E k \in DOMAIN WithoutUpdates(queue, f) : place[k] = i
<1> DEFINE rest == {i \in DOMAIN queue : ~(queue[i].kind = "update" /\ queue[i].id = f)}
           place == [k \in 1 .. Cardinality(rest) |-> CHOOSE i \in rest : Rank(rest, i) = k]
           q == WithoutUpdates(queue, f)
<1>1. DOMAIN queue = 1 .. Len(queue) /\ Len(queue) \in Nat /\ \A i \in DOMAIN queue : queue[i] \in Operations
  OBVIOUS
<1>2. rest \in SUBSET (1 .. Len(queue))
  BY <1>1
<1>3. q = [k \in 1 .. Cardinality(rest) |-> queue[place[k]]]
  <2> DEFINE nth(k) == CHOOSE i \in rest : Rank(rest, i) = k
  <2>1. q = [k \in 1 .. Cardinality(rest) |-> queue[nth(k)]]
    BY Zenon DEF WithoutUpdates
  <2>2. \A k \in 1 .. Cardinality(rest) : place[k] = nth(k)
    BY Zenon
  <2> HIDE DEF place, nth, rest
  <2> QED BY <2>1, <2>2
<1> HIDE DEF rest, q
<1>4. /\ Cardinality(rest) \in Nat
      /\ \A i \in rest : Rank(rest, i) \in 1 .. Cardinality(rest)
      /\ \A k \in 1 .. Cardinality(rest) : \E i \in rest : Rank(rest, i) = k
      /\ \A i, j \in rest : Rank(rest, i) = Rank(rest, j) => i = j
  BY <1>1, <1>2, RankIsOnto
<1>5. \A k \in 1 .. Cardinality(rest) : place[k] \in rest /\ Rank(rest, place[k]) = k
  BY <1>4
<1>6. place \in [1 .. Cardinality(rest) -> rest]
  BY <1>5
<1> HIDE DEF place
<1>7. q \in Seq(Operations) /\ DOMAIN q = 1 .. Cardinality(rest)
  <2>1. \A k \in 1 .. Cardinality(rest) : queue[place[k]] \in Operations
    BY <1>1, <1>2, <1>5
  <2> QED BY <1>3, <1>4, <2>1
<1>8. Embedded(q, queue, place)
  BY <1>1, <1>2, <1>3, <1>5, <1>6, <1>7 DEF Embedded
<1>9. ASSUME NEW i \in DOMAIN queue, ~(queue[i].kind = "update" /\ queue[i].id = f)
      PROVE  \E k \in DOMAIN q : place[k] = i
  <2>1. i \in rest
    BY <1>9 DEF rest
  <2> QED BY <1>4, <1>5, <1>7, <2>1
<1> QED BY <1>7, <1>8, <1>9 DEF q

\* Removing one operation keeps the others, in their order.
LEMMA RemoveAtKeeps ==
  ASSUME NEW queue \in Seq(Operations), NEW i \in DOMAIN queue,
         NEW q, q = RemoveAt(queue, i)
  PROVE  /\ q \in Seq(Operations)
         /\ Len(q) = Len(queue) - 1
         /\ \A k \in DOMAIN q : q[k] = queue[IF k < i THEN k ELSE k + 1]
         /\ \A j \in DOMAIN queue \ {i} : \E k \in DOMAIN q : q[k] = queue[j]
<1> DEFINE front == SubSeq(queue, 1, i - 1)
           back == SubSeq(queue, i + 1, Len(queue))
<1>1. /\ Len(queue) \in Nat /\ i \in 1 .. Len(queue)
      /\ \A k \in 1 .. Len(queue) : queue[k] \in Operations
  OBVIOUS
<1>2. /\ front \in Seq(Operations) /\ Len(front) = i - 1
      /\ \A k \in 1 .. i - 1 : front[k] = queue[k]
  BY <1>1
<1>3. /\ back \in Seq(Operations) /\ Len(back) = Len(queue) - i
      /\ \A k \in 1 .. Len(queue) - i : back[k] = queue[i + k]
  BY <1>1
<1>4. q = front \o back
  BY DEF RemoveAt
<1> HIDE DEF front, back
<1>5. q \in Seq(Operations) /\ Len(q) = Len(queue) - 1 /\ DOMAIN q = 1 .. Len(queue) - 1
  BY <1>1, <1>2, <1>3, <1>4
<1>6. ASSUME NEW k \in DOMAIN q
      PROVE  q[k] = queue[IF k < i THEN k ELSE k + 1]
  <2>1. CASE k < i
    BY <1>1, <1>2, <1>3, <1>4, <1>5, <2>1
  <2>2. CASE ~(k < i)
    <3>1. q[k] = back[k - (i - 1)]
      BY <1>1, <1>2, <1>3, <1>4, <1>5, <2>2
    <3>2. k - (i - 1) \in 1 .. Len(queue) - i /\ i + (k - (i - 1)) = k + 1
      BY <1>1, <1>5, <2>2
    <3> QED BY <1>3, <2>2, <3>1, <3>2
  <2> QED BY <2>1, <2>2
<1>7. ASSUME NEW j \in DOMAIN queue \ {i}
      PROVE  \E k \in DOMAIN q : q[k] = queue[j]
  <2> DEFINE k == IF j < i THEN j ELSE j - 1
  <2>1. k \in DOMAIN q /\ (IF k < i THEN k ELSE k + 1) = j
    BY <1>1, <1>5
  <2> HIDE DEF k
  <2> QED BY <1>6, <2>1
<1> QED BY <1>5, <1>6, <1>7

\* The create found for f is one.
LEMMA CreateFound ==
  ASSUME NEW queue, NEW f, HasCreate(queue, f)
  PROVE  /\ CreateIndex(queue, f) \in DOMAIN queue
         /\ queue[CreateIndex(queue, f)].kind = "create"
         /\ queue[CreateIndex(queue, f)].id = f
  BY DEF HasCreate, CreateIndex

\* A set of numbers up to n that is not empty has a least element.
LEMMA LeastExists ==
  ASSUME NEW n \in Nat, NEW S \in SUBSET (1 .. n), S # {}
  PROVE  \E k \in S : \A j \in S : k <= j
<1>1. /\ Cardinality(S) \in Nat
      /\ \A i \in S : Rank(S, i) \in 1 .. Cardinality(S)
      /\ \A k \in 1 .. Cardinality(S) : \E i \in S : Rank(S, i) = k
      /\ \A i, j \in S : i < j => Rank(S, i) < Rank(S, j)
  BY RankIsOnto
<1>2. PICK i \in S : TRUE
  OBVIOUS
<1>3. 1 \in 1 .. Cardinality(S)
  BY <1>1, <1>2
<1>4. PICK k \in S : Rank(S, k) = 1
  BY <1>1, <1>3
<1>5. \A j \in S : j < k => FALSE
  BY <1>1, <1>4
<1> QED BY <1>5

\* What an update of f does to a queue: the first create or update of f takes
\* the geometry, or an update is appended.
LEMMA CollapsedChanges ==
  ASSUME NEW queue \in Seq(Operations), NEW f \in FeatureIds, NEW g \in Geoms,
         NEW q, q = Collapsed(queue, f, g)
  PROVE  /\ q \in Seq(Operations)
         /\ \/ /\ \A i \in DOMAIN queue : ~Changes(queue[i], f)
               /\ q = Append(queue, Operation("update", f, g))
            \/ \E i \in DOMAIN queue :
                 /\ Changes(queue[i], f)
                 /\ Len(q) = Len(queue)
                 /\ q[i] = Operation(queue[i].kind, f, g)
                 /\ \A j \in DOMAIN queue \ {i} : q[j] = queue[j]
<1> DEFINE same == {i \in DOMAIN queue : Changes(queue[i], f)}
<1>1. CASE same = {}
  <2>1. q = Append(queue, Operation("update", f, g))
    BY <1>1, Zenon DEF Collapsed
  <2>2. Operation("update", f, g) \in Operations
    BY DEF Operation, Operations
  <2>3. q \in Seq(Operations)
    BY <2>1, <2>2
  <2>4. \A i \in DOMAIN queue : ~Changes(queue[i], f)
    BY <1>1
  <2> QED BY <2>1, <2>3, <2>4
<1>2. CASE same # {}
  <2> DEFINE i == CHOOSE i \in same : \A j \in same : i <= j
  <2>1. i \in same
    <3>1. \E k \in same : \A j \in same : k <= j
      <4>1. Len(queue) \in Nat /\ same \in SUBSET (1 .. Len(queue))
        OBVIOUS
      <4> HIDE DEF same
      <4> QED BY <1>2, <4>1, LeastExists
    <3> QED BY <3>1
  <2>2. q = [queue EXCEPT ![i].geom = g]
    BY <1>2, Zenon DEF Collapsed
  <2> HIDE DEF i
  <2>3. i \in DOMAIN queue /\ Changes(queue[i], f) /\ queue[i] \in Operations
    BY <2>1
  <2>4. [queue[i] EXCEPT !.geom = g] = Operation(queue[i].kind, f, g)
    <3>1. ASSUME NEW op \in Operations, op.kind \in {"create", "update"}
          PROVE  [op EXCEPT !.geom = g] = Operation(op.kind, op.id, g)
      <4>1. op \in [kind : {"create", "update"}, id : FeatureIds, geom : Geoms]
        BY <3>1 DEF Operations, FeatureIds
      <4> QED BY <4>1 DEF Operation
    <3> QED BY <2>3, <3>1 DEF Changes
  <2>5. Operation(queue[i].kind, f, g) \in Operations
    BY <2>3 DEF Changes, Operations, Operation
  <2>6. q = [queue EXCEPT ![i] = Operation(queue[i].kind, f, g)]
    BY <2>2, <2>4, Zenon
  <2>7. /\ q \in Seq(Operations) /\ Len(q) = Len(queue)
        /\ q[i] = Operation(queue[i].kind, f, g)
        /\ \A j \in DOMAIN queue \ {i} : q[j] = queue[j]
    BY <2>3, <2>5, <2>6
  <2> QED BY <2>3, <2>7
<1> QED BY <1>1, <1>2

LEMMA Bounds ==
  /\ InitRows \in Nat /\ MaxDraws \in Nat /\ MaxEdits \in Nat
  /\ MaxSaves \in Nat /\ MaxFaults \in Nat /\ MaxLost \in Nat
  BY EditBounds

\* No operation is the absence of one.
LEMMA OperationFields ==
  /\ NoOp \notin Operations /\ NoOp.kind = "none" /\ NoOp.id = 0
  /\ \A op \in Operations :
       /\ op.kind \in {"create", "update", "delete"}
       /\ op.id \in FeatureIds
       /\ op.kind = "create" => op.id \in Temps
<1>1. NoOp.kind = "none" /\ NoOp.id = 0
  BY DEF NoOp, Operation
<1>2. ASSUME NEW op \in Operations
      PROVE  /\ op.kind \in {"create", "update", "delete"}
             /\ op.id \in FeatureIds
             /\ op.kind = "create" => op.id \in Temps
  BY DEF Operations, FeatureIds
<1> QED BY <1>1, <1>2

\* The operations the edits make.
LEMMA MadeOperations ==
  /\ \A t \in Temps, g \in Geoms : Operation("create", t, g) \in Operations
  /\ \A f \in FeatureIds, g \in Geoms : Operation("update", f, g) \in Operations
  /\ \A f \in FeatureIds : Operation("delete", f, NoGeom) \in Operations
  BY DEF Operation, Operations

LEMMA IdsAreNumbers ==
  /\ Temps \subseteq Int /\ FeatureIds \subseteq Int /\ Temps \subseteq FeatureIds
  /\ \A f \in FeatureIds : f > 0 \/ f \in Temps
  BY DEF Temps, RowIds, FeatureIds

-----------------------------------------------------------------------------
(***************************************************************************)
(* What the edits of the map do to the queue                               *)
(***************************************************************************)

\* A move changes the geometry of one create or update of the feature, or
\* appends an update where there is none.
LEMMA Modified ==
  ASSUME ops \in Seq(Operations), NEW f \in FeatureIds, NEW g \in Geoms, Modify(f, g)
  PROVE  /\ ops' \in Seq(Operations)
         /\ \/ /\ \A i \in DOMAIN ops : ~Changes(ops[i], f)
               /\ ops' = Append(ops, Operation("update", f, g))
            \/ \E i \in DOMAIN ops :
                 /\ Changes(ops[i], f)
                 /\ Len(ops') = Len(ops)
                 /\ ops'[i] = Operation(ops[i].kind, f, g)
                 /\ \A j \in DOMAIN ops \ {i} : ops'[j] = ops[j]
<1> DEFINE q == Collapsed(ops, f, g)
<1>1. /\ q \in Seq(Operations)
      /\ \/ /\ \A i \in DOMAIN ops : ~Changes(ops[i], f)
            /\ q = Append(ops, Operation("update", f, g))
         \/ \E i \in DOMAIN ops :
              /\ Changes(ops[i], f)
              /\ Len(q) = Len(ops)
              /\ q[i] = Operation(ops[i].kind, f, g)
              /\ \A j \in DOMAIN ops \ {i} : q[j] = ops[j]
  BY CollapsedChanges
<1>2. ops' = q
  BY DEF Modify
<1> QED BY <1>1, <1>2

\* A deleted drawing takes its create out of the queue; the other operations
\* stay, each at most one place nearer.
LEMMA DrawingRemoved ==
  ASSUME ops \in Seq(Operations), NEW f \in FeatureIds, DeleteDrawn(f)
  PROVE  /\ ops' \in Seq(Operations)
         /\ \E i \in DOMAIN ops :
              /\ Creates(ops[i], f)
              /\ Len(ops') = Len(ops) - 1
              /\ \A k \in DOMAIN ops' : ops'[k] = ops[IF k < i THEN k ELSE k + 1]
              /\ \A j \in DOMAIN ops \ {i} : \E k \in DOMAIN ops' : ops'[k] = ops[j]
<1> DEFINE i == CreateIndex(ops, f)
<1>1. i \in DOMAIN ops /\ Creates(ops[i], f)
  BY CreateFound DEF DeleteDrawn, Creates
<1>2. ops' = RemoveAt(ops, i)
  BY DEF DeleteDrawn, WithoutCreate
<1> HIDE DEF i
<1>3. /\ ops' \in Seq(Operations)
      /\ Len(ops') = Len(ops) - 1
      /\ \A k \in DOMAIN ops' : ops'[k] = ops[IF k < i THEN k ELSE k + 1]
      /\ \A j \in DOMAIN ops \ {i} : \E k \in DOMAIN ops' : ops'[k] = ops[j]
  <2> DEFINE q == RemoveAt(ops, i)
  <2>1. /\ q \in Seq(Operations)
        /\ Len(q) = Len(ops) - 1
        /\ \A k \in DOMAIN q : q[k] = ops[IF k < i THEN k ELSE k + 1]
        /\ \A j \in DOMAIN ops \ {i} : \E k \in DOMAIN q : q[k] = ops[j]
    BY <1>1, RemoveAtKeeps
  <2> HIDE DEF q
  <2> QED BY <1>2, <2>1 DEF q
<1> QED BY <1>1, <1>3

\* Any other deleted feature loses its updates and gets a delete at the end;
\* the other operations stay.
LEMMA DeleteAppended ==
  ASSUME ops \in Seq(Operations), NEW f \in FeatureIds, DeleteSaved(f)
  PROVE  /\ ops' \in Seq(Operations)
         /\ \E q, place :
              /\ q \in Seq(Operations)
              /\ ops' = Append(q, Operation("delete", f, NoGeom))
              /\ Embedded(q, ops, place)
              /\ \A i \in DOMAIN ops :
                   ~(ops[i].kind = "update" /\ ops[i].id = f) => \E k \in DOMAIN q : place[k] = i
<1> DEFINE q == WithoutUpdates(ops, f)
<1>1. q \in Seq(Operations) /\ Operation("delete", f, NoGeom) \in Operations
  BY WithoutUpdatesKeeps, MadeOperations
<1>2. PICK place :
        /\ Embedded(q, ops, place)
        /\ \A i \in DOMAIN ops :
             ~(ops[i].kind = "update" /\ ops[i].id = f) => \E k \in DOMAIN q : place[k] = i
  BY WithoutUpdatesKeeps
<1>3. ops' = Append(q, Operation("delete", f, NoGeom))
  BY DEF DeleteSaved, WithDelete
<1> HIDE DEF q
<1>4. ops' \in Seq(Operations)
  BY <1>1, <1>3
<1> QED BY <1>1, <1>2, <1>3, <1>4

-----------------------------------------------------------------------------
(***************************************************************************)
(* Type correctness                                                        *)
(***************************************************************************)

\* The types, and that an answer is awaited only for an operation.
Typed == TypeOK /\ FlushShape

LEMMA TypedInit == Init => Typed
<1> SUFFICES ASSUME Init PROVE Typed
  OBVIOUS
<1> USE Bounds
<1>1. ops \in Seq(Operations) /\ walk \in Seq(Operations) /\ kept \in Seq(Operations)
  BY DEF Init
<1>2. want \in [FeatureIds -> Operations \cup {NoOp}] /\ created \in [Temps -> Nat]
  BY DEF Init
<1>3. rows \subseteq 1 .. nextRow - 1 /\ nextRow \in Nat \ {0}
  BY DEF Init
<1>4. drawn \in 0 .. MaxDraws /\ edits \in 0 .. MaxEdits /\ saves \in 0 .. MaxSaves
      /\ faults \in 0 .. MaxFaults /\ lost \in 0 .. MaxLost /\ at \in Nat
      /\ shown \subseteq Int /\ touched \subseteq FeatureIds
  BY DEF Init
<1>5. saving = FALSE /\ detached = FALSE /\ failed = FALSE /\ at = 0 /\ sent = NoOp /\ kept = <<>>
  BY DEF Init
<1> QED BY <1>1, <1>2, <1>3, <1>4, <1>5, Zenon DEF Typed, TypeOK, FlushShape

\* Every edit and answer, a step at a time.
LEMMA TypedStep == Typed /\ [Next]_vars => Typed'
<1> SUFFICES ASSUME Typed, [Next]_vars PROVE Typed'
  OBVIOUS
<1> USE Bounds, OperationFields, MadeOperations, IdsAreNumbers
<1>0. /\ ops \in Seq(Operations) /\ walk \in Seq(Operations) /\ kept \in Seq(Operations)
      /\ sent \in Operations \cup {NoOp}
      /\ saving => sent \in Operations
      /\ Walked \in Seq(Operations)
  BY DEF Typed, TypeOK, FlushShape, Walked
<1>1. CASE UNCHANGED vars
  BY <1>1 DEF vars, flushVars, serverVars, historyVars, Typed, TypeOK, FlushShape
<1>2. ASSUME NEW g \in Geoms, Draw(g)
      PROVE  Typed'
  <2> DEFINE t == -(drawn + 1)
  <2>1. t \in Temps
    BY <1>2 DEF Draw, Typed, TypeOK, Temps
  <2>2. Operation("create", t, g) \in Operations
    BY <2>1
  <2>3. ops' = Append(ops, Operation("create", t, g)) /\ want' = [want EXCEPT ![t] = Operation("create", t, g)]
    BY <1>2 DEF Draw
  <2>4. shown' = shown \cup {t} /\ touched' \subseteq FeatureIds
    BY <1>2, <2>1 DEF Draw, Edit, Typed, TypeOK
  <2>5. /\ UNCHANGED <<detached, walk, saving, at, sent, kept, rows, nextRow, created, saves, faults, lost, failed>>
        /\ drawn' = drawn + 1 /\ drawn < MaxDraws /\ edits' = edits + 1 /\ edits < MaxEdits
    BY <1>2 DEF Draw, Edit, serverVars, historyVars
  <2> HIDE DEF t
  <2>6. ops' \in Seq(Operations)
    BY <1>0, <2>2, <2>3
  <2>7. want' \in [FeatureIds -> Operations \cup {NoOp}]
    BY <2>2, <2>3 DEF Typed, TypeOK
  <2>8. drawn' \in 0 .. MaxDraws /\ edits' \in 0 .. MaxEdits /\ shown' \subseteq Int
    BY <2>1, <2>4, <2>5 DEF Typed, TypeOK
  <2> QED BY <2>4, <2>5, <2>6, <2>7, <2>8, Zenon DEF Typed, TypeOK, FlushShape
<1>3. ASSUME NEW f \in FeatureIds, NEW g \in Geoms, Modify(f, g)
      PROVE  Typed'
  <2>1. ops' \in Seq(Operations)
    BY <1>0, <1>3, Modified
  <2>2. HasCreate(ops, f) => f \in Temps
    BY <1>0, CreateFound
  <2>3. Operation(IF HasCreate(ops, f) THEN "create" ELSE "update", f, g) \in Operations
    BY <2>2
  <2>4. want' \in [FeatureIds -> Operations \cup {NoOp}]
    BY <1>3, <2>3 DEF Modify, Typed, TypeOK
  <2>5. /\ UNCHANGED <<detached, walk, saving, at, sent, kept, rows, nextRow, created, saves, faults, lost, failed,
                       shown, drawn>>
        /\ edits' = edits + 1 /\ edits < MaxEdits /\ touched' \subseteq FeatureIds
    BY <1>3 DEF Modify, Edit, serverVars, historyVars, Typed, TypeOK
  <2> QED BY <2>1, <2>4, <2>5 DEF Typed, TypeOK, FlushShape
<1>4. ASSUME NEW f \in FeatureIds, DeleteDrawn(f)
      PROVE  Typed'
  <2>1. ops' \in Seq(Operations)
    BY <1>0, <1>4, DrawingRemoved
  <2>2. want' \in [FeatureIds -> Operations \cup {NoOp}]
    <3>1. (IF ToBeSent(f) THEN NoOp ELSE Operation("delete", f, NoGeom)) \in Operations \cup {NoOp}
      OBVIOUS
    <3> QED BY <1>4, <3>1 DEF DeleteDrawn, Typed, TypeOK
  <2>3. /\ UNCHANGED <<detached, walk, saving, at, sent, kept, rows, nextRow, created, saves, faults, lost, failed,
                       drawn>>
        /\ edits' = edits + 1 /\ edits < MaxEdits /\ touched' \subseteq FeatureIds /\ shown' \subseteq Int
    BY <1>4 DEF DeleteDrawn, Edit, serverVars, historyVars, Typed, TypeOK
  <2> QED BY <2>1, <2>2, <2>3 DEF Typed, TypeOK, FlushShape
<1>5. ASSUME NEW f \in FeatureIds, DeleteSaved(f)
      PROVE  Typed'
  <2>1. ops' \in Seq(Operations)
    BY <1>0, <1>5, DeleteAppended
  <2>2. want' \in [FeatureIds -> Operations \cup {NoOp}]
    BY <1>5 DEF DeleteSaved, Typed, TypeOK
  <2>3. /\ UNCHANGED <<saving, at, sent, kept, rows, nextRow, created, saves, faults, lost, failed, drawn>>
        /\ edits' = edits + 1 /\ edits < MaxEdits /\ touched' \subseteq FeatureIds /\ shown' \subseteq Int
        /\ detached' = saving /\ walk' \in Seq(Operations)
    BY <1>0, <1>5 DEF DeleteSaved, Edit, serverVars, historyVars, Typed, TypeOK
  <2>4. edits' \in 0 .. MaxEdits
    BY <2>3 DEF Typed, TypeOK
  <2>5. ~saving => ~detached'
    BY <2>3
  <2> QED BY <2>1, <2>2, <2>3, <2>4, <2>5, Zenon DEF Typed, TypeOK, FlushShape
<1>6. CASE Save
  <2>1. ops[1] \in Operations
    BY <1>0, <1>6 DEF Save
  <2> QED BY <1>6, <2>1 DEF Save, serverVars, Typed, TypeOK, FlushShape
<1>7. ASSUME NEW pending \in Seq(Operations), saving, Continue(pending)
      PROVE  /\ ops' \in Seq(Operations) /\ walk' \in Seq(Operations) /\ kept' \in Seq(Operations)
             /\ sent' \in Operations \cup {NoOp} /\ saving' \in BOOLEAN /\ detached' \in BOOLEAN
             /\ at' \in Nat /\ shown' \subseteq Int
             /\ FlushShape'
  <2>1. CASE at < Len(Walked)
    <3>1. at + 1 \in DOMAIN Walked /\ at + 1 \in Nat
      BY <1>0, <2>1 DEF Typed, TypeOK
    <3>2. /\ at' = at + 1 /\ sent' = Walked[at + 1] /\ kept' = pending
          /\ UNCHANGED <<ops, saving, detached, walk, shown>>
      BY <1>7, <2>1 DEF Continue
    <3>3. Walked[at + 1] \in Operations
      BY <1>0, <3>1
    <3> QED BY <1>0, <1>7, <3>1, <3>2, <3>3 DEF Typed, TypeOK, FlushShape
  <2>2. CASE ~(at < Len(Walked))
    <3>1. Refreshed(pending) \subseteq Int
      BY DEF Refreshed, Typed, TypeOK
    <3>2. /\ ops' = pending /\ saving' = FALSE /\ detached' = FALSE /\ walk' = <<>> /\ at' = 0
          /\ sent' = NoOp /\ kept' = <<>> /\ shown' = Refreshed(pending)
      BY <1>7, <2>2, Zenon DEF Continue, PutBack
    <3>3. <<>> \in Seq(Operations) /\ 0 \in Nat
      OBVIOUS
    <3> QED BY <1>7, <3>1, <3>2, <3>3, Zenon DEF FlushShape
  <2> QED BY <2>1, <2>2
<1>8. ASSUME saving, Apply(sent)
      PROVE  /\ rows' \subseteq 1 .. nextRow' - 1 /\ nextRow' \in Nat \ {0}
             /\ created' \in [Temps -> Nat]
  <2>1. rows \subseteq 1 .. nextRow - 1 /\ nextRow \in Nat \ {0} /\ created \in [Temps -> Nat]
    BY DEF Typed, TypeOK
  <2>2. created' \in [Temps -> Nat]
    <3>1. CASE sent.kind = "create"
      <4>1. sent.id \in Temps
        BY <1>0, <1>8, <3>1
      <4>2. created' = [created EXCEPT ![sent.id] = @ + 1]
        BY <1>8, <3>1, Zenon DEF Apply
      <4> QED BY ONLY <2>1, <4>1, <4>2
    <3>2. CASE sent.kind # "create"
      BY <1>8, <2>1, <3>2, Zenon DEF Apply
    <3> QED BY <3>1, <3>2
  <2>3. CASE sent.kind = "create"
    BY <1>8, <2>1, <2>2, <2>3 DEF Apply
  <2>4. CASE sent.kind = "delete"
    BY <1>8, <2>1, <2>2, <2>4 DEF Apply
  <2>5. CASE sent.kind \notin {"create", "delete"}
    BY <1>8, <2>1, <2>2, <2>5 DEF Apply
  <2> QED BY <2>3, <2>4, <2>5
<1>9. Append(kept, sent) \in Seq(Operations) \/ ~saving
  BY <1>0
<1>10. CASE Accepted
  <2>1. want' \in [FeatureIds -> Operations \cup {NoOp}]
    BY <1>10 DEF Accepted, Typed, TypeOK
  <2> QED BY <1>0, <1>7, <1>8, <1>10, <2>1 DEF Accepted, historyVars, Typed, TypeOK
<1>11. CASE Rejected
  <2>1. faults' \in 0 .. MaxFaults
    BY <1>11 DEF Rejected, Typed, TypeOK
  <2>2. /\ Append(kept, sent) \in Seq(Operations) /\ saving /\ Continue(Append(kept, sent))
        /\ failed' = TRUE
        /\ UNCHANGED <<rows, nextRow, created, want, saves, lost, drawn, edits, touched>>
    BY <1>9, <1>11 DEF Rejected, serverVars
  <2> QED BY <1>7, <2>1, <2>2 DEF Typed, TypeOK
<1>12. CASE AnswerLost
  <2>1. lost' \in 0 .. MaxLost
    BY <1>12 DEF AnswerLost, Typed, TypeOK
  <2>2. /\ Append(kept, sent) \in Seq(Operations) /\ saving /\ Continue(Append(kept, sent)) /\ Apply(sent)
        /\ failed' = TRUE
        /\ UNCHANGED <<want, saves, faults, drawn, edits, touched>>
    BY <1>9, <1>12 DEF AnswerLost
  <2> QED BY <1>7, <1>8, <2>1, <2>2 DEF Typed, TypeOK
<1>13. CASE Discard
  <2>1. ops' \in Seq(Operations) /\ want' \in [FeatureIds -> Operations \cup {NoOp}]
    BY <1>13 DEF Discard
  <2> QED BY <1>13, <2>1 DEF Discard, flushVars, serverVars, historyVars, Typed, TypeOK, FlushShape
<1>14. CASE Load
  BY <1>14 DEF Load, flushVars, serverVars, historyVars, Typed, TypeOK, FlushShape
<1> QED BY <1>1, <1>2, <1>3, <1>4, <1>5, <1>6, <1>10, <1>11, <1>12, <1>13, <1>14
        DEF Next, UserEdit, Answer

\* The inductive invariant.
Inv == TypeOK /\ EditInv

-----------------------------------------------------------------------------
(***************************************************************************)
(* Ids of drawings                                                         *)
(***************************************************************************)

\* A new drawing gets an id no operation, request or row was made with.
LEMMA IdsStep == Typed /\ IdsAreDrawn /\ [Next]_vars => IdsAreDrawn'
<1> SUFFICES ASSUME Typed, IdsAreDrawn, [Next]_vars PROVE IdsAreDrawn'
  OBVIOUS
<1> USE OperationFields, MadeOperations, IdsAreNumbers
<1> DEFINE Fits(queue, n) == \A i \in DOMAIN queue : queue[i].id >= -n
           Rest(n) == /\ sent.id >= -n
                      /\ \A f \in shown : f >= -n
                      /\ \A t \in Temps : created[t] > 0 => t >= -n
<1>0. /\ ops \in Seq(Operations) /\ walk \in Seq(Operations) /\ kept \in Seq(Operations)
      /\ Walked \in Seq(Operations) /\ drawn \in Nat /\ rows \subseteq Nat
      /\ saving => sent \in Operations
  BY DEF Typed, TypeOK, FlushShape, Walked
<1>1. Fits(ops, drawn) /\ Fits(walk, drawn) /\ Fits(kept, drawn) /\ Fits(Walked, drawn) /\ Rest(drawn)
  BY DEF IdsAreDrawn, Walked
<1>2. SUFFICES Fits(ops', drawn') /\ Fits(walk', drawn') /\ Fits(kept', drawn') /\ Rest(drawn)'
  BY DEF IdsAreDrawn
<1>3. ASSUME NEW queue \in Seq(Operations), NEW op \in Operations, Fits(queue, drawn), op.id >= -drawn
      PROVE  Fits(Append(queue, op), drawn)
  BY <1>3
<1>4. CASE UNCHANGED vars
  BY <1>1, <1>4 DEF vars, flushVars, serverVars, historyVars
<1>5. ASSUME NEW g \in Geoms, Draw(g)
      PROVE  Fits(ops', drawn') /\ Fits(walk', drawn') /\ Fits(kept', drawn') /\ Rest(drawn)'
  <2> DEFINE t == -(drawn + 1)
             op == Operation("create", t, g)
  <2>1. /\ drawn' = drawn + 1 /\ ops' = Append(ops, op) /\ shown' = shown \cup {t}
        /\ UNCHANGED <<walk, kept, sent, created>>
    BY <1>5 DEF Draw, Edit, serverVars
  <2>2. op.id = t /\ t \in Temps
    <3>1. drawn \in 0 .. MaxDraws /\ drawn < MaxDraws
      BY <1>5 DEF Draw, Typed, TypeOK
    <3>2. t \in Temps
      BY <3>1, Bounds DEF Temps
    <3> QED BY <3>2 DEF Operation
  <2>3. \A n \in Int : n >= -drawn => n >= -(drawn + 1)
    BY <1>0
  <2>4. /\ \A i \in DOMAIN ops : ops[i].id \in Int
        /\ \A i \in DOMAIN walk : walk[i].id \in Int
        /\ \A i \in DOMAIN kept : kept[i].id \in Int
        /\ sent.id \in Int
    <3>1. \A op1 \in Operations : op1.id \in Int
      BY OperationFields, IdsAreNumbers
    <3>2. sent \in Operations \cup {NoOp}
      BY DEF Typed, TypeOK
    <3>3. sent.id \in Int
      BY <3>1, <3>2
    <3> HIDE OperationFields, MadeOperations, IdsAreNumbers
    <3> QED BY <1>0, <3>1, <3>3
  <2>5. t >= -(drawn + 1)
    BY <1>0
  <2> HIDE DEF op, t
  <2>6. Fits(ops', drawn')
    BY <1>0, <1>1, <2>1, <2>2, <2>3, <2>4, <2>5
  <2>7. Fits(walk', drawn') /\ Fits(kept', drawn')
    BY <1>1, <2>1, <2>3, <2>4
  <2>8. shown \subseteq Int
    BY DEF Typed, TypeOK
  <2>9. Rest(drawn)'
    BY <1>1, <2>1, <2>3, <2>4, <2>5, <2>8
  <2> QED BY <2>6, <2>7, <2>9
<1>6. ASSUME NEW f \in FeatureIds, NEW g \in Geoms, Modify(f, g)
      PROVE  Fits(ops', drawn') /\ Fits(walk', drawn') /\ Fits(kept', drawn') /\ Rest(drawn)'
  <2>1. /\ ops' = Collapsed(ops, f, g) /\ f >= -drawn
        /\ UNCHANGED <<walk, kept, sent, created, shown, drawn>>
    BY <1>1, <1>6 DEF Modify, Edit, serverVars
  <2>2. \A kind : Operation(kind, f, g).id = f
    BY DEF Operation
  <2>3. CASE ops' = Append(ops, Operation("update", f, g))
    BY <1>0, <1>1, <1>3, <2>1, <2>2, <2>3
  <2>4. ASSUME NEW i \in DOMAIN ops, Len(ops') = Len(ops), ops'[i] = Operation(ops[i].kind, f, g),
               \A j \in DOMAIN ops \ {i} : ops'[j] = ops[j]
        PROVE  Fits(ops', drawn')
    <3>1. ops' \in Seq(Operations)
      BY <1>0, <1>6, Modified
    <3>2. DOMAIN ops' = DOMAIN ops
      BY <1>0, <2>4, <3>1
    <3>3. \A j \in DOMAIN ops : ops[j].id >= -drawn
      BY <1>1
    <3>4. \A j \in DOMAIN ops' : ops'[j].id >= -drawn
      BY <2>1, <2>2, <2>4, <3>2, <3>3
    <3> QED BY <2>1, <3>4
  <2>5. Fits(ops', drawn')
    <3>1. \/ /\ \A i \in DOMAIN ops : ~Changes(ops[i], f)
             /\ ops' = Append(ops, Operation("update", f, g))
          \/ \E i \in DOMAIN ops :
               /\ Changes(ops[i], f)
               /\ Len(ops') = Len(ops)
               /\ ops'[i] = Operation(ops[i].kind, f, g)
               /\ \A j \in DOMAIN ops \ {i} : ops'[j] = ops[j]
      BY <1>0, <1>6, Modified
    <3> HIDE DEF Fits
    <3> QED BY <2>3, <2>4, <3>1
  <2> QED BY <1>1, <2>1, <2>5
<1>7. ASSUME NEW f \in FeatureIds, DeleteDrawn(f)
      PROVE  Fits(ops', drawn') /\ Fits(walk', drawn') /\ Fits(kept', drawn') /\ Rest(drawn)'
  <2>1. UNCHANGED <<walk, kept, sent, created, drawn>> /\ shown' = shown \ {f}
    BY <1>7 DEF DeleteDrawn, Edit, serverVars
  <2>2. PICK i \in DOMAIN ops :
          /\ Len(ops') = Len(ops) - 1 /\ ops' \in Seq(Operations)
          /\ \A k \in DOMAIN ops' : ops'[k] = ops[IF k < i THEN k ELSE k + 1]
    BY <1>0, <1>7, DrawingRemoved
  <2>3. ASSUME NEW k \in DOMAIN ops' PROVE (IF k < i THEN k ELSE k + 1) \in DOMAIN ops
    BY <1>0, <2>2
  <2>4. Fits(ops', drawn')
    BY <1>1, <2>1, <2>2, <2>3
  <2> QED BY <1>1, <2>1, <2>4
<1>8. ASSUME NEW f \in FeatureIds, DeleteSaved(f)
      PROVE  Fits(ops', drawn') /\ Fits(walk', drawn') /\ Fits(kept', drawn') /\ Rest(drawn)'
  <2> DEFINE op == Operation("delete", f, NoGeom)
             q == WithoutUpdates(ops, f)
  <2>1. /\ ops' = Append(q, op) /\ f >= -drawn
        /\ UNCHANGED <<kept, sent, created, drawn>> /\ shown' = shown \ {f} /\ walk' \in {ops, walk}
    BY <1>1, <1>8 DEF DeleteSaved, WithDelete, Edit, serverVars
  <2>2. op.id = f /\ op \in Operations
    BY DEF Operation
  <2>3. q \in Seq(Operations) /\ \E place : Embedded(q, ops, place)
    BY <1>0, WithoutUpdatesKeeps
  <2> HIDE DEF q, op
  <2>4. Fits(q, drawn)
    BY <1>1, <2>3 DEF Embedded
  <2>5. Fits(ops', drawn)
    BY <1>3, <2>1, <2>2, <2>3, <2>4
  <2> QED BY <1>1, <2>1, <2>5
<1>9. CASE Save
  <2>1. sent' = ops[1] /\ 1 \in DOMAIN ops /\ kept' = <<>> /\ UNCHANGED <<ops, walk, created, shown, drawn>>
    BY <1>0, <1>9 DEF Save, serverVars
  <2> QED BY <1>1, <2>1
<1>10. ASSUME NEW pending \in Seq(Operations), Fits(pending, drawn), Continue(pending)
       PROVE  /\ Fits(ops', drawn) /\ Fits(walk', drawn) /\ Fits(kept', drawn)
              /\ sent'.id >= -drawn
              /\ shown' \subseteq shown
  <2>1. CASE at < Len(Walked)
    <3>1. at + 1 \in DOMAIN Walked
      BY <1>0, <2>1 DEF Typed, TypeOK
    <3>2. /\ sent' = Walked[at + 1] /\ kept' = pending
          /\ UNCHANGED <<ops, walk, shown>>
      BY <1>10, <2>1 DEF Continue
    <3> QED BY <1>1, <1>10, <3>1, <3>2
  <2>2. CASE ~(at < Len(Walked))
    <3>1. /\ ops' = pending /\ walk' = <<>> /\ sent' = NoOp /\ kept' = <<>> /\ shown' = Refreshed(pending)
      BY <1>10, <2>2, Zenon DEF Continue, PutBack
    <3>2. 0 >= -drawn
      BY <1>0
    <3>3. shown' \subseteq shown
      BY <3>1, Zenon DEF Refreshed
    <3> QED BY <1>10, <3>1, <3>2, <3>3
  <2> QED BY <2>1, <2>2
<1>11. ASSUME saving, Apply(sent)
       PROVE  \A t \in Temps : created'[t] > 0 => t >= -drawn
  <2>1. created \in [Temps -> Nat]
    BY DEF Typed, TypeOK
  <2>2. CASE sent.kind = "create"
    <3>1. created' = [created EXCEPT ![sent.id] = @ + 1]
      BY <1>11, <2>2, Zenon DEF Apply
    <3> QED BY <1>1, <2>1, <3>1
  <2>3. CASE sent.kind # "create"
    <3>1. created' = created
      BY <1>11, <2>3, Zenon DEF Apply
    <3> QED BY <1>1, <3>1
  <2> QED BY <2>2, <2>3
<1>12. saving => Append(kept, sent) \in Seq(Operations) /\ Fits(Append(kept, sent), drawn)
  BY <1>0, <1>1, <1>3
<1>13. CASE Accepted
  <2>1. saving /\ Apply(sent) /\ Continue(kept) /\ drawn' = drawn
    BY <1>13 DEF Accepted
  <2> QED BY <1>0, <1>1, <1>10, <1>11, <2>1
<1>14. CASE Rejected
  <2>1. saving /\ created' = created /\ Continue(Append(kept, sent)) /\ drawn' = drawn
    BY <1>14 DEF Rejected, serverVars
  <2> QED BY <1>1, <1>10, <1>12, <2>1
<1>15. CASE AnswerLost
  <2>1. saving /\ Apply(sent) /\ Continue(Append(kept, sent)) /\ drawn' = drawn
    BY <1>15 DEF AnswerLost
  <2> QED BY <1>1, <1>10, <1>11, <1>12, <2>1
<1>16. CASE Discard
  <2>1. ops' = <<>> /\ shown' = {} /\ UNCHANGED <<walk, kept, sent, created, drawn>>
    BY <1>16 DEF Discard, flushVars, serverVars
  <2> QED BY <1>1, <2>1
<1>17. CASE Load
  <2>1. shown' = shown \cup rows /\ UNCHANGED <<ops, walk, kept, sent, created, drawn>>
    BY <1>17 DEF Load, flushVars, serverVars
  <2>2. \A n \in rows : n >= -drawn
    BY <1>0
  <2> QED BY <1>1, <2>1, <2>2
<1> QED BY <1>4, <1>5, <1>6, <1>7, <1>8, <1>9, <1>13, <1>14, <1>15, <1>16, <1>17
        DEF Next, UserEdit, Answer

-----------------------------------------------------------------------------
(***************************************************************************)
(* A drawing is on its way to the server once                              *)
(***************************************************************************)

\* What happens to the queue does not matter to the create of a drawing when
\* it was among the operations ahead before and is not there twice now.
LEMMA CreateStays ==
  ASSUME NEW t \in Temps, CreateIsSingle(t), CreateIsNew(t),
         UNCHANGED <<sent, kept, created, lost>>,
         InAhead(t)' => InAhead(t),
         \A i, j \in Ahead' : Creates(Walked'[i], t) /\ Creates(Walked'[j], t) => i = j
  PROVE  CreateIsSingle(t)' /\ CreateIsNew(t)'
  BY DEF CreateIsSingle, CreateIsNew, OnTheWay, InKept

\* One edit: a drawing adds the only create of its id, a move adds none, a
\* deletion removes the create or leaves it where it was.
LEMMA CreatesInEdits ==
  ASSUME Typed, IdsAreDrawn, NEW t \in Temps, CreateIsSingle(t), CreateIsNew(t), UserEdit
  PROVE  CreateIsSingle(t)' /\ CreateIsNew(t)'
<1>0. /\ ops \in Seq(Operations) /\ walk \in Seq(Operations) /\ kept \in Seq(Operations)
      /\ Walked \in Seq(Operations) /\ at \in Nat /\ (~saving => ~detached)
      /\ DOMAIN ops = 1 .. Len(ops) /\ Len(ops) \in Nat
  BY DEF Typed, TypeOK, FlushShape, Walked
<1>1. UNCHANGED <<saving, at, sent, kept, created, lost>>
  BY DEF UserEdit, Draw, Modify, DeleteDrawn, DeleteSaved, Edit, serverVars, historyVars
<1>2. \A i, j \in Ahead : Creates(Walked[i], t) /\ Creates(Walked[j], t) => i = j
  BY DEF CreateIsSingle
<1>3. CASE Walked' = Walked
  <2>1. Ahead' = Ahead
    BY <1>1, <1>3 DEF Ahead
  <2>2. InAhead(t)' => InAhead(t)
    BY <1>3, <2>1 DEF InAhead
  <2> QED BY <1>1, <1>2, <1>3, <2>1, <2>2, CreateStays
<1>4. ASSUME Walked = ops, Walked' = ops', ops' \in Seq(Operations),
             NEW place, \A k \in DOMAIN ops' : Creates(ops'[k], t) => place[k] \in DOMAIN ops /\ Creates(ops[place[k]], t),
             \A k \in DOMAIN ops' : k > at /\ Creates(ops'[k], t) => place[k] > at,
             \A k, l \in DOMAIN ops' :
               Creates(ops'[k], t) /\ Creates(ops'[l], t) /\ place[k] = place[l] => k = l
      PROVE  CreateIsSingle(t)' /\ CreateIsNew(t)'
  <2>1. ASSUME NEW k \in Ahead', Creates(Walked'[k], t)
        PROVE  place[k] \in Ahead /\ Creates(Walked[place[k]], t)
    BY <1>1, <1>4, <2>1 DEF Ahead
  <2>2. InAhead(t)' => InAhead(t)
    BY <2>1 DEF InAhead
  <2>3. Ahead' \subseteq DOMAIN ops'
    BY <1>4 DEF Ahead
  <2>4. \A k, l \in Ahead' : Creates(Walked'[k], t) /\ Creates(Walked'[l], t) => k = l
    BY <1>2, <1>4, <2>1, <2>3
  <2> QED BY <1>1, <2>2, <2>4, CreateStays
<1>5. ASSUME NEW g \in Geoms, Draw(g), Walked' # Walked
      PROVE  CreateIsSingle(t)' /\ CreateIsNew(t)'
  <2> DEFINE n == -(drawn + 1)
             op == Operation("create", n, g)
  <2>1. ops' = Append(ops, op) /\ UNCHANGED <<detached, walk>>
    BY <1>5 DEF Draw
  <2>2. Walked = ops /\ Walked' = ops'
    BY <1>5, <2>1 DEF Walked
  <2>3. op.kind = "create" /\ op.id = n
    BY DEF Operation
  <2>4. /\ \A i \in DOMAIN ops : ops[i].id # n
        /\ \A i \in DOMAIN kept : kept[i].id # n
        /\ sent.id # n
        /\ n \in Temps => ~(created[n] > 0)
    BY DEF IdsAreDrawn, Typed, TypeOK
  <2>5. op \in Operations
    <3>1. n \in Temps
      BY <1>5, Bounds DEF Draw, Temps, Typed, TypeOK
    <3> QED BY <3>1, MadeOperations
  <2> HIDE DEF op, n
  <2>6. ops' \in Seq(Operations) /\ DOMAIN ops' = 1 .. Len(ops) + 1 /\ ops'[Len(ops) + 1] = op
        /\ \A i \in 1 .. Len(ops) : ops'[i] = ops[i]
    BY <1>0, <2>1, <2>5
  <2>7. CASE t # n
    <3> DEFINE place == [k \in DOMAIN ops' |-> k]
    <3>1. \A k \in DOMAIN ops' : Creates(ops'[k], t) => k \in DOMAIN ops /\ ops[k] = ops'[k]
      BY <1>0, <2>3, <2>6, <2>7 DEF Creates
    <3>2. \A k \in DOMAIN ops' : place[k] = k
      OBVIOUS
    <3> HIDE DEF place
    <3> QED BY <1>4, <2>2, <2>6, <3>1, <3>2
  <2>8. CASE t = n
    <3>1. ~OnTheWay(t) /\ ~InKept(t) /\ \A i \in DOMAIN ops : ~Creates(ops[i], t)
      BY <2>4, <2>8 DEF OnTheWay, InKept, Creates
    <3>2. ~OnTheWay(t)' /\ ~InKept(t)'
      BY <1>1, <3>1 DEF OnTheWay, InKept
    <3>3. \A k \in DOMAIN ops' : Creates(ops'[k], t) => k = Len(ops) + 1
      BY <1>0, <2>6, <3>1
    <3>4. created'[t] <= lost'
      <4>1. created \in [Temps -> Nat] /\ lost \in Nat
        BY Bounds DEF Typed, TypeOK
      <4> QED BY <1>1, <2>4, <2>8, <4>1
    <3>5. \A i, j \in DOMAIN kept' : Creates(kept'[i], t) /\ Creates(kept'[j], t) => i = j
      BY <1>1, <3>1 DEF InKept
    <3>6. \A i, j \in Ahead' : Creates(Walked'[i], t) /\ Creates(Walked'[j], t) => i = j
      BY <2>2, <3>3 DEF Ahead
    <3> QED BY <3>2, <3>4, <3>5, <3>6 DEF CreateIsSingle, CreateIsNew
  <2> QED BY <2>7, <2>8
<1>6. ASSUME NEW f \in FeatureIds, NEW g \in Geoms, Modify(f, g), Walked' # Walked
      PROVE  CreateIsSingle(t)' /\ CreateIsNew(t)'
  <2> DEFINE place == [k \in DOMAIN ops' |-> k]
  <2>1. Walked = ops /\ Walked' = ops'
    BY <1>6 DEF Modify, Walked
  <2>2. \A k \in DOMAIN ops' : place[k] = k
    OBVIOUS
  <2> HIDE DEF place
  <2>3. ops' \in Seq(Operations)
    BY <1>0, <1>6, Modified
  <2>4. \A k \in DOMAIN ops' : Creates(ops'[k], t) => k \in DOMAIN ops /\ Creates(ops[k], t)
    <3>1. CASE ops' = Append(ops, Operation("update", f, g))
      <4>1. Operation("update", f, g).kind = "update" /\ Operation("update", f, g) \in Operations
        BY MadeOperations DEF Operation
      <4> QED BY <1>0, <3>1, <4>1 DEF Creates
    <3>2. ASSUME NEW i \in DOMAIN ops, Changes(ops[i], f), Len(ops') = Len(ops),
                 ops'[i] = Operation(ops[i].kind, f, g),
                 \A j \in DOMAIN ops \ {i} : ops'[j] = ops[j]
          PROVE  \A k \in DOMAIN ops' : Creates(ops'[k], t) => k \in DOMAIN ops /\ Creates(ops[k], t)
      <4>1. DOMAIN ops' = DOMAIN ops
        BY <1>0, <2>3, <3>2
      <4>2. ops'[i].kind = ops[i].kind /\ ops'[i].id = f /\ ops[i].id = f
        BY <3>2 DEF Operation, Changes
      <4> QED BY <3>2, <4>1, <4>2 DEF Creates
    <3> QED BY <1>0, <1>6, <3>1, <3>2, Modified
  <2> QED BY <1>4, <2>1, <2>2, <2>3, <2>4
<1>7. ASSUME NEW f \in FeatureIds, DeleteDrawn(f), Walked' # Walked
      PROVE  CreateIsSingle(t)' /\ CreateIsNew(t)'
  <2>1. Walked = ops /\ Walked' = ops'
    BY <1>7 DEF DeleteDrawn, Walked
  <2>2. PICK i \in DOMAIN ops :
          /\ Len(ops') = Len(ops) - 1 /\ ops' \in Seq(Operations)
          /\ \A k \in DOMAIN ops' : ops'[k] = ops[IF k < i THEN k ELSE k + 1]
    BY <1>0, <1>7, DrawingRemoved
  <2> DEFINE place == [k \in DOMAIN ops' |-> IF k < i THEN k ELSE k + 1]
  <2>3. DOMAIN ops' = 1 .. Len(ops) - 1
    BY <1>0, <2>2
  <2>4. \A k \in DOMAIN ops' : place[k] = IF k < i THEN k ELSE k + 1
    OBVIOUS
  <2> HIDE DEF place
  <2>5. ASSUME NEW k \in DOMAIN ops'
        PROVE  place[k] \in DOMAIN ops /\ ops[place[k]] = ops'[k]
    <3>1. place[k] \in DOMAIN ops
      BY <1>0, <2>3, <2>4
    <3> QED BY <2>2, <2>4, <3>1
  <2>6. \A k \in DOMAIN ops' : k > at => place[k] > at
    BY <1>0, <2>3, <2>4
  <2>7. \A k, l \in DOMAIN ops' : place[k] = place[l] => k = l
    BY <1>0, <2>3, <2>4
  <2> QED BY <1>4, <2>1, <2>2, <2>5, <2>6, <2>7
<1>8. ASSUME NEW f \in FeatureIds, DeleteSaved(f), Walked' # Walked
      PROVE  CreateIsSingle(t)' /\ CreateIsNew(t)'
  <2>1. detached' = saving /\ walk' = (IF saving /\ ~detached THEN ops ELSE walk)
    BY <1>8 DEF DeleteSaved
  <2>2. ~saving
    <3>1. SUFFICES ASSUME saving PROVE Walked' = Walked
      BY <1>8
    <3>2. detached'
      BY <2>1, <3>1
    <3>3. Walked' = walk'
      BY <3>2 DEF Walked
    <3> QED BY <2>1, <3>1, <3>3 DEF Walked
  <2>3. at = 0 /\ Walked = ops /\ Walked' = ops'
    BY <2>1, <2>2 DEF Typed, FlushShape, Walked
  <2> DEFINE op == Operation("delete", f, NoGeom)
  <2>4. PICK q, place : q \in Seq(Operations) /\ ops' = Append(q, op) /\ Embedded(q, ops, place)
    BY <1>0, <1>8, DeleteAppended
  <2>5. op.kind = "delete" /\ op \in Operations
    BY MadeOperations DEF Operation
  <2> HIDE DEF op
  <2>6. /\ ops' \in Seq(Operations)
        /\ \A k \in DOMAIN ops' : Creates(ops'[k], t) => k \in DOMAIN q /\ ops'[k] = q[k]
    BY <2>4, <2>5 DEF Creates
  <2>7. \A k \in DOMAIN ops' :
          Creates(ops'[k], t) => place[k] \in DOMAIN ops /\ Creates(ops[place[k]], t)
    BY <2>4, <2>6 DEF Embedded
  <2>8. \A k \in DOMAIN ops' : k > at /\ Creates(ops'[k], t) => place[k] > at
    BY <1>0, <2>3, <2>7
  <2>9. \A k, l \in DOMAIN ops' :
          Creates(ops'[k], t) /\ Creates(ops'[l], t) /\ place[k] = place[l] => k = l
    BY <2>4, <2>6 DEF Embedded
  <2> QED BY <1>4, <2>3, <2>6, <2>7, <2>8, <2>9
<1> QED BY <1>3, <1>5, <1>6, <1>7, <1>8 DEF UserEdit

\* One answer: the create of a drawing moves from the request to nowhere when
\* the server made its row, or to the operations to put back.
LEMMA CreatesInAnswers ==
  ASSUME Typed, NEW t \in Temps, CreateIsSingle(t), CreateIsNew(t), created[t] <= 1 + lost, Answer
  PROVE  CreateIsSingle(t)' /\ CreateIsNew(t)' /\ created'[t] <= 1 + lost'
<1> DEFINE In(queue) == \E i \in DOMAIN queue : Creates(queue[i], t)
           Once(queue) == \A i, j \in DOMAIN queue : Creates(queue[i], t) /\ Creates(queue[j], t) => i = j
<1>0. /\ ops \in Seq(Operations) /\ walk \in Seq(Operations) /\ kept \in Seq(Operations)
      /\ Walked \in Seq(Operations) /\ at \in Nat
      /\ saving => sent \in Operations
      /\ lost \in Nat /\ created \in [Temps -> Nat] /\ created[t] \in Nat
  BY Bounds DEF Typed, TypeOK, FlushShape, Walked
<1>1. saving /\ Once(kept) /\ (InKept(t) <=> In(kept))
  BY DEF Answer, Accepted, Rejected, AnswerLost, CreateIsSingle, InKept
<1>2. ASSUME NEW pending \in Seq(Operations), Continue(pending), Once(pending), ~(InAhead(t) /\ In(pending))
      PROVE  /\ CreateIsSingle(t)'
             /\ OnTheWay(t)' \/ InAhead(t)' \/ InKept(t)' => InAhead(t) \/ In(pending)
  <2>1. CASE at < Len(Walked)
    <3>1. /\ at' = at + 1 /\ sent' = Walked[at + 1] /\ kept' = pending /\ Walked' = Walked
          /\ at + 1 \in DOMAIN Walked
      <4>1. /\ at' = at + 1 /\ sent' = Walked[at + 1] /\ kept' = pending
            /\ UNCHANGED <<ops, detached, walk>>
        BY <1>2, <2>1, Zenon DEF Continue
      <4>2. Walked' = Walked
        BY <4>1 DEF Walked
      <4>3. at + 1 \in DOMAIN Walked
        BY <1>0, <2>1
      <4> QED BY <4>1, <4>2, <4>3
    <3>2. at + 1 \in Ahead /\ Ahead' = Ahead \ {at + 1}
      BY <1>0, <3>1 DEF Ahead
    <3>3. \A i, j \in Ahead : Creates(Walked[i], t) /\ Creates(Walked[j], t) => i = j
      BY DEF CreateIsSingle
    <3>4. OnTheWay(t)' <=> Creates(Walked[at + 1], t)
      BY <3>1 DEF OnTheWay, Creates
    <3>5. InAhead(t)' <=> \E i \in Ahead \ {at + 1} : Creates(Walked[i], t)
      BY <3>1, <3>2 DEF InAhead
    <3>6. InKept(t)' <=> In(pending)
      BY <3>1 DEF InKept
    <3>7. OnTheWay(t)' \/ InAhead(t)' => InAhead(t)
      BY <3>2, <3>4, <3>5 DEF InAhead
    <3>8. ~(OnTheWay(t)' /\ InAhead(t)')
      BY <3>2, <3>3, <3>4, <3>5
    <3>9. \A i, j \in Ahead' : Creates(Walked'[i], t) /\ Creates(Walked'[j], t) => i = j
      BY <3>1, <3>2, <3>3
    <3>10. \A i, j \in DOMAIN kept' : Creates(kept'[i], t) /\ Creates(kept'[j], t) => i = j
      BY <1>2, <3>1
    <3> HIDE DEF In, Once
    <3> QED BY <1>2, <3>6, <3>7, <3>8, <3>9, <3>10 DEF CreateIsSingle
  <2>2. CASE ~(at < Len(Walked))
    <3>1. ops' = pending /\ detached' = FALSE /\ at' = 0 /\ sent' = NoOp /\ kept' = <<>>
      BY <1>2, <2>2, Zenon DEF Continue, PutBack
    <3>2. Walked' = pending /\ Ahead' \subseteq DOMAIN pending
      BY <3>1 DEF Walked, Ahead
    <3>3. ~OnTheWay(t)' /\ ~InKept(t)'
      BY <3>1, OperationFields DEF OnTheWay, InKept, Creates
    <3>4. InAhead(t)' => In(pending)
      BY <3>2 DEF InAhead
    <3>5. \A i, j \in Ahead' : Creates(Walked'[i], t) /\ Creates(Walked'[j], t) => i = j
      BY <1>2, <3>2
    <3>6. \A i, j \in DOMAIN kept' : Creates(kept'[i], t) /\ Creates(kept'[j], t) => i = j
      BY <3>1
    <3> HIDE DEF In, Once
    <3> QED BY <3>3, <3>4, <3>5, <3>6 DEF CreateIsSingle
  <2> QED BY <2>1, <2>2
<1>3. /\ Append(kept, sent) \in Seq(Operations)
      /\ In(Append(kept, sent)) <=> OnTheWay(t) \/ InKept(t)
      /\ Once(Append(kept, sent))
      /\ ~(InAhead(t) /\ In(Append(kept, sent)))
  <2> DEFINE q == Append(kept, sent)
  <2>1. /\ q \in Seq(Operations) /\ DOMAIN q = 1 .. Len(kept) + 1 /\ q[Len(kept) + 1] = sent
        /\ \A i \in 1 .. Len(kept) : q[i] = kept[i]
        /\ DOMAIN kept = 1 .. Len(kept) /\ Len(kept) \in Nat
    BY <1>0, <1>1
  <2> HIDE DEF q
  <2>2. In(q) <=> OnTheWay(t) \/ InKept(t)
    BY <2>1 DEF OnTheWay, InKept
  <2>3. Once(q)
    <3>1. ~(OnTheWay(t) /\ InKept(t))
      BY DEF CreateIsSingle
    <3>2. ASSUME NEW i \in DOMAIN q, NEW j \in DOMAIN q, Creates(q[i], t), Creates(q[j], t)
          PROVE  i = j
      BY <1>1, <2>1, <3>1, <3>2 DEF OnTheWay, InKept
    <3> QED BY <3>2
  <2>4. ~(InAhead(t) /\ (OnTheWay(t) \/ InKept(t)))
    BY DEF CreateIsSingle
  <2> HIDE DEF In, Once
  <2> QED BY <2>1, <2>2, <2>3, <2>4 DEF q
<1>4. ASSUME Apply(sent)
      PROVE  created'[t] = IF OnTheWay(t) THEN created[t] + 1 ELSE created[t]
  <2>1. CASE sent.kind = "create"
    <3>1. created' = [created EXCEPT ![sent.id] = @ + 1]
      BY <1>4, <2>1, Zenon DEF Apply
    <3> QED BY <1>0, <2>1, <3>1 DEF OnTheWay, Creates
  <2>2. CASE sent.kind # "create"
    <3>1. created' = created
      BY <1>4, <2>2, Zenon DEF Apply
    <3> QED BY <2>2, <3>1 DEF OnTheWay, Creates
  <2> QED BY <2>1, <2>2
<1> HIDE DEF In, Once
<1>5. CASE Accepted
  <2>1. Apply(sent) /\ Continue(kept) /\ lost' = lost
    BY <1>5 DEF Accepted, historyVars
  <2>2. ~(InAhead(t) /\ InKept(t)) /\ ~(OnTheWay(t) /\ InAhead(t)) /\ ~(OnTheWay(t) /\ InKept(t))
    BY DEF CreateIsSingle
  <2>3. /\ CreateIsSingle(t)'
        /\ OnTheWay(t)' \/ InAhead(t)' \/ InKept(t)' => InAhead(t) \/ InKept(t)
    BY <1>0, <1>1, <1>2, <2>1, <2>2
  <2>4. created'[t] <= 1 + lost'
    BY <1>0, <1>4, <2>1 DEF CreateIsNew
  <2>5. CreateIsNew(t)'
    BY <1>4, <2>1, <2>2, <2>3 DEF CreateIsNew
  <2> QED BY <2>3, <2>4, <2>5
<1>6. CASE Rejected
  <2>1. Continue(Append(kept, sent)) /\ created' = created /\ lost' = lost
    BY <1>6 DEF Rejected, serverVars
  <2>2. /\ CreateIsSingle(t)'
        /\ OnTheWay(t)' \/ InAhead(t)' \/ InKept(t)' => InAhead(t) \/ OnTheWay(t) \/ InKept(t)
    BY <1>2, <1>3, <2>1
  <2>3. CreateIsNew(t)'
    BY <2>1, <2>2 DEF CreateIsNew
  <2> QED BY <2>1, <2>2, <2>3
<1>7. CASE AnswerLost
  <2>1. Apply(sent) /\ Continue(Append(kept, sent)) /\ lost' = lost + 1
    BY <1>7 DEF AnswerLost
  <2>2. /\ CreateIsSingle(t)'
        /\ OnTheWay(t)' \/ InAhead(t)' \/ InKept(t)' => InAhead(t) \/ OnTheWay(t) \/ InKept(t)
    BY <1>2, <1>3, <2>1
  <2>3. created'[t] <= created[t] + 1 /\ created'[t] \in Nat
    BY <1>0, <1>4, <2>1
  <2>4. CreateIsNew(t)'
    BY <1>0, <2>1, <2>2, <2>3 DEF CreateIsNew
  <2> QED BY <1>0, <2>1, <2>2, <2>3, <2>4
<1> QED BY <1>5, <1>6, <1>7 DEF Answer

\* The other steps start a flush with the first operation, empty the queue, or
\* leave it alone.
LEMMA CreatesInTheRest ==
  ASSUME Typed, NEW t \in Temps, CreateIsSingle(t), CreateIsNew(t), Save \/ Discard \/ Load \/ UNCHANGED vars
  PROVE  CreateIsSingle(t)' /\ CreateIsNew(t)' /\ UNCHANGED <<created, lost>>
<1>0. ops \in Seq(Operations) /\ (~saving => ~detached /\ at = 0)
  BY DEF Typed, TypeOK, FlushShape
<1>1. CASE Save
  <2>1. /\ Walked = ops /\ Walked' = ops /\ at = 0 /\ at' = 1 /\ sent' = ops[1] /\ kept' = <<>>
        /\ UNCHANGED <<created, lost>> /\ ops # <<>>
    BY <1>0, <1>1 DEF Save, Walked, serverVars
  <2>2. 1 \in Ahead /\ Ahead' = Ahead \ {1}
    BY <1>0, <2>1 DEF Ahead
  <2>3. \A i, j \in Ahead : Creates(Walked[i], t) /\ Creates(Walked[j], t) => i = j
    BY DEF CreateIsSingle
  <2>4. ~InKept(t)' /\ \A i, j \in DOMAIN kept' : Creates(kept'[i], t) /\ Creates(kept'[j], t) => i = j
    BY <2>1 DEF InKept
  <2>5. OnTheWay(t)' \/ InAhead(t)' => InAhead(t)
    BY <2>1, <2>2 DEF OnTheWay, InAhead
  <2>6. ~(OnTheWay(t)' /\ InAhead(t)')
    BY <2>1, <2>2, <2>3 DEF OnTheWay, InAhead
  <2>7. \A i, j \in Ahead' : Creates(Walked'[i], t) /\ Creates(Walked'[j], t) => i = j
    BY <2>1, <2>2, <2>3
  <2> QED BY <2>1, <2>4, <2>5, <2>6, <2>7 DEF CreateIsSingle, CreateIsNew
<1>2. CASE Discard
  <2>1. /\ ops' = <<>> /\ ~detached' /\ UNCHANGED <<sent, kept, created, lost>>
    BY <1>0, <1>2 DEF Discard, flushVars, serverVars, historyVars
  <2>2. Ahead' = {}
    BY <2>1 DEF Ahead, Walked
  <2>3. ~InAhead(t)'
    BY <2>2 DEF InAhead
  <2> QED BY <2>1, <2>2, <2>3, CreateStays
<1>3. CASE Load \/ UNCHANGED vars
  <2>1. UNCHANGED <<ops, detached, walk, at, sent, kept, created, lost>>
    BY <1>3 DEF Load, vars, flushVars, serverVars, historyVars
  <2>2. Walked' = Walked /\ Ahead' = Ahead
    BY <2>1 DEF Walked, Ahead
  <2>3. InAhead(t)' => InAhead(t)
    BY <2>2 DEF InAhead
  <2>4. \A i, j \in Ahead' : Creates(Walked'[i], t) /\ Creates(Walked'[j], t) => i = j
    BY <2>2 DEF CreateIsSingle
  <2> QED BY <2>1, <2>3, <2>4, CreateStays
<1> QED BY <1>1, <1>2, <1>3

-----------------------------------------------------------------------------
(***************************************************************************)
(* The last edits of a user who waits for a save                           *)
(***************************************************************************)

\* An edit that leaves `touched` empty happens between two flushes.
LEMMA EditsBetweenFlushes ==
  ASSUME Typed, NothingPassedOver, UserEdit, touched' = {}
  PROVE  /\ ~saving /\ touched = {} /\ at = 0 /\ kept = <<>> /\ ~detached /\ Single(ops)
         /\ UNCHANGED <<saving, at, kept, sent>>
         /\ \A f \in FeatureIds : want[f] # NoOp =>
              want[f].id = f /\ \E i \in DOMAIN ops : ops[i] = want[f]
<1>1. PICK f : Edit(f)
  BY DEF UserEdit, Draw, Modify, DeleteDrawn, DeleteSaved
<1>2. ~saving /\ touched = {} /\ UNCHANGED <<saving, at, kept, sent>>
  BY <1>1 DEF Edit
<1>3. at = 0 /\ kept = <<>> /\ ~detached
  BY <1>2 DEF Typed, FlushShape
<1>4. /\ Single(ops)
      /\ \A h \in FeatureIds : want[h] # NoOp =>
           /\ want[h].id = h
           /\ \/ \E i \in DOMAIN ops : i >= at /\ ops[i] = want[h]
              \/ \E i \in DOMAIN kept : kept[i] = want[h]
  BY <1>2 DEF NothingPassedOver
<1> QED BY <1>2, <1>3, <1>4

\* Between two flushes it is enough that every edit is in the queue.
LEMMA KeptBetweenFlushes ==
  ASSUME touched' = {}, ~saving', ~detached', at' = 0, kept' = <<>>, Single(ops'), ops' \in Seq(Operations),
         \A f \in FeatureIds : want'[f] # NoOp =>
           want'[f].id = f /\ \E i \in DOMAIN ops' : ops'[i] = want'[f]
  PROVE  NothingPassedOver'
<1>1. \A i \in DOMAIN ops' : i >= at'
  OBVIOUS
<1>2. Single(kept')
  BY DEF Single
<1>3. \A f \in FeatureIds : want'[f] # NoOp =>
         /\ want'[f].id = f
         /\ \/ \E i \in DOMAIN ops' : i >= at' /\ ops'[i] = want'[f]
            \/ \E i \in DOMAIN kept' : kept'[i] = want'[f]
  BY <1>1
<1> QED BY <1>2, <1>3 DEF NothingPassedOver

LEMMA DrawKeepsEdits ==
  ASSUME Typed, IdsAreDrawn, NothingPassedOver, NEW g \in Geoms, Draw(g), touched' = {}
  PROVE  NothingPassedOver'
<1> DEFINE n == -(drawn + 1)
           op == Operation("create", n, g)
<1>0. ops \in Seq(Operations) /\ DOMAIN ops = 1 .. Len(ops) /\ Len(ops) \in Nat
      /\ want \in [FeatureIds -> Operations \cup {NoOp}]
  BY DEF Typed, TypeOK
<1>1. /\ ~saving /\ at = 0 /\ kept = <<>> /\ ~detached /\ Single(ops)
      /\ UNCHANGED <<saving, at, kept, sent>>
      /\ \A f \in FeatureIds : want[f] # NoOp =>
           want[f].id = f /\ \E i \in DOMAIN ops : ops[i] = want[f]
  BY EditsBetweenFlushes DEF UserEdit
<1>2. ops' = Append(ops, op) /\ want' = [want EXCEPT ![n] = op] /\ detached' = detached
  BY DEF Draw
<1>3. op.id = n /\ op \in Operations /\ n \in FeatureIds
  <2>1. n \in Temps
    BY Bounds DEF Draw, Temps, Typed, TypeOK
  <2> QED BY <2>1, MadeOperations, IdsAreNumbers DEF Operation
<1>4. \A i \in DOMAIN ops : ops[i].id # n
  BY DEF IdsAreDrawn, Typed, TypeOK
<1> HIDE DEF op, n
<1>5. /\ ops' \in Seq(Operations) /\ DOMAIN ops' = 1 .. Len(ops) + 1 /\ ops'[Len(ops) + 1] = op
      /\ \A i \in 1 .. Len(ops) : ops'[i] = ops[i]
  BY <1>0, <1>2, <1>3
<1>6. Single(ops')
  BY <1>0, <1>1, <1>3, <1>4, <1>5 DEF Single
<1>7. ASSUME NEW f \in FeatureIds, want'[f] # NoOp
      PROVE  want'[f].id = f /\ \E i \in DOMAIN ops' : ops'[i] = want'[f]
  <2>1. CASE f = n
    BY <1>0, <1>2, <1>3, <1>5, <2>1
  <2>2. CASE f # n
    <3>1. want'[f] = want[f]
      BY <1>0, <1>2, <2>2
    <3> QED BY <1>0, <1>1, <1>5, <1>7, <3>1
  <2> QED BY <2>1, <2>2
<1> QED BY <1>1, <1>2, <1>5, <1>6, <1>7, KeptBetweenFlushes

LEMMA ModifyKeepsEdits ==
  ASSUME Typed, NothingPassedOver, NEW f \in FeatureIds, NEW g \in Geoms, Modify(f, g), touched' = {}
  PROVE  NothingPassedOver'
<1> DEFINE op == Operation(IF HasCreate(ops, f) THEN "create" ELSE "update", f, g)
<1>0. ops \in Seq(Operations) /\ DOMAIN ops = 1 .. Len(ops) /\ Len(ops) \in Nat
      /\ want \in [FeatureIds -> Operations \cup {NoOp}]
  BY DEF Typed, TypeOK
<1>1. /\ ~saving /\ at = 0 /\ kept = <<>> /\ ~detached /\ Single(ops)
      /\ UNCHANGED <<saving, at, kept, sent>>
      /\ \A h \in FeatureIds : want[h] # NoOp =>
           want[h].id = h /\ \E i \in DOMAIN ops : ops[i] = want[h]
  BY EditsBetweenFlushes DEF UserEdit
<1>2. want' = [want EXCEPT ![f] = op] /\ detached' = detached
  BY DEF Modify
<1>3. \A kind : Operation(kind, f, g).id = f /\ Operation(kind, f, g).kind = kind
  BY DEF Operation
<1>4. ops' \in Seq(Operations)
  BY <1>0, Modified
<1>5. \A h \in FeatureIds \ {f} : want'[h] = want[h]
  BY <1>0, <1>2
<1>6. want'[f] = op /\ op.id = f
  BY <1>0, <1>2, <1>3
<1>7. CASE /\ \A i \in DOMAIN ops : ~Changes(ops[i], f)
           /\ ops' = Append(ops, Operation("update", f, g))
  <2>1. op = Operation("update", f, g)
    BY <1>7 DEF HasCreate, Changes
  <2>2. ops' = Append(ops, op) /\ op \in Operations
    BY <1>7, <2>1, MadeOperations
  <2> HIDE DEF op
  <2>3. /\ DOMAIN ops' = 1 .. Len(ops) + 1 /\ ops'[Len(ops) + 1] = op
        /\ \A i \in 1 .. Len(ops) : ops'[i] = ops[i]
    BY <1>0, <2>2
  <2>4. Single(ops')
    <3>1. \A i \in DOMAIN ops : Changes(ops[i], ops[i].id) => ops[i].id # f
      BY <1>7
    <3> QED BY <1>0, <1>1, <1>6, <2>3, <3>1 DEF Single
  <2>5. ASSUME NEW h \in FeatureIds, want'[h] # NoOp
        PROVE  want'[h].id = h /\ \E i \in DOMAIN ops' : ops'[i] = want'[h]
    <3>1. CASE h = f
      BY <1>0, <1>6, <2>3, <3>1
    <3>2. CASE h # f
      BY <1>0, <1>1, <1>5, <2>3, <2>5, <3>2
    <3> QED BY <3>1, <3>2
  <2> QED BY <1>1, <1>2, <1>4, <2>4, <2>5, KeptBetweenFlushes
<1>8. ASSUME NEW i \in DOMAIN ops, Changes(ops[i], f), Len(ops') = Len(ops),
             ops'[i] = Operation(ops[i].kind, f, g),
             \A j \in DOMAIN ops \ {i} : ops'[j] = ops[j]
      PROVE  NothingPassedOver'
  <2>1. DOMAIN ops' = DOMAIN ops
    BY <1>0, <1>4, <1>8
  <2>2. ops'[i].kind = ops[i].kind /\ ops'[i].id = f /\ ops[i].id = f /\ ops[i].kind \in {"create", "update"}
    BY <1>3, <1>8 DEF Changes
  <2>3. \A j \in DOMAIN ops : ops'[j].kind = ops[j].kind /\ ops'[j].id = ops[j].id
    BY <1>8, <2>2
  <2>4. Single(ops')
    BY <1>1, <2>1, <2>3 DEF Single, Changes
  <2>5. HasCreate(ops, f) <=> ops[i].kind = "create"
    <3>1. \A j \in DOMAIN ops : ops[j].kind = "create" /\ ops[j].id = f => j = i
      BY <1>1, <1>8, <2>2 DEF Single, Changes
    <3> QED BY <2>2, <3>1 DEF HasCreate
  <2>6. ops'[i] = op
    <3>1. (IF HasCreate(ops, f) THEN "create" ELSE "update") = ops[i].kind
      BY <2>2, <2>5
    <3> QED BY <1>8, <3>1
  <2> HIDE DEF op
  <2>7. ASSUME NEW h \in FeatureIds, want'[h] # NoOp
        PROVE  want'[h].id = h /\ \E j \in DOMAIN ops' : ops'[j] = want'[h]
    <3>1. CASE h = f
      BY <1>6, <2>1, <2>6, <3>1
    <3>2. CASE h # f
      <4>1. want'[h] = want[h] /\ want[h].id = h
        BY <1>1, <1>5, <2>7, <3>2
      <4>2. PICK j \in DOMAIN ops : ops[j] = want[h]
        BY <1>1, <2>7, <4>1
      <4>3. j # i
        BY <2>2, <3>2, <4>1, <4>2
      <4> QED BY <1>8, <2>1, <4>1, <4>2, <4>3
    <3> QED BY <3>1, <3>2
  <2> QED BY <1>1, <1>2, <1>4, <2>4, <2>7, KeptBetweenFlushes
<1> QED BY <1>0, <1>7, <1>8, Modified

LEMMA DeleteDrawnKeepsEdits ==
  ASSUME Typed, NothingPassedOver, NEW f \in FeatureIds, DeleteDrawn(f), touched' = {}
  PROVE  NothingPassedOver'
<1>0. ops \in Seq(Operations) /\ DOMAIN ops = 1 .. Len(ops) /\ Len(ops) \in Nat
      /\ want \in [FeatureIds -> Operations \cup {NoOp}]
  BY DEF Typed, TypeOK
<1>1. /\ ~saving /\ at = 0 /\ kept = <<>> /\ ~detached /\ Single(ops)
      /\ UNCHANGED <<saving, at, kept, sent>>
      /\ \A h \in FeatureIds : want[h] # NoOp =>
           want[h].id = h /\ \E i \in DOMAIN ops : ops[i] = want[h]
  BY EditsBetweenFlushes DEF UserEdit
<1>2. want' = [want EXCEPT ![f] = NoOp] /\ detached' = detached
  BY <1>1 DEF DeleteDrawn, ToBeSent
<1>9. ops' \in Seq(Operations)
  <2>1. ops \in Seq(Operations)
    BY DEF Typed, TypeOK
  <2> QED BY <2>1, DrawingRemoved, Zenon
<1>3. PICK i \in DOMAIN ops :
        /\ Creates(ops[i], f)
        /\ Len(ops') = Len(ops) - 1
        /\ \A k \in DOMAIN ops' : ops'[k] = ops[IF k < i THEN k ELSE k + 1]
        /\ \A j \in DOMAIN ops \ {i} : \E k \in DOMAIN ops' : ops'[k] = ops[j]
  BY <1>0, DrawingRemoved, Zenon
<1>4. DOMAIN ops' = 1 .. Len(ops) - 1
  BY <1>0, <1>3, <1>9
<1>5. Single(ops')
  <2> DEFINE place(k) == IF k < i THEN k ELSE k + 1
  <2>1. \A k \in DOMAIN ops' : place(k) \in DOMAIN ops
    BY <1>0, <1>4
  <2>2. \A k, l \in DOMAIN ops' : place(k) = place(l) => k = l
    BY <1>0, <1>4
  <2>3. \A k \in DOMAIN ops' : ops'[k] = ops[place(k)]
    BY <1>3
  <2> HIDE DEF place
  <2> QED BY <1>1, <2>1, <2>2, <2>3 DEF Single
<1>6. ASSUME NEW h \in FeatureIds, want'[h] # NoOp
      PROVE  want'[h].id = h /\ \E k \in DOMAIN ops' : ops'[k] = want'[h]
  <2>1. h # f /\ want'[h] = want[h]
    BY <1>0, <1>2, <1>6
  <2>2. want[h].id = h /\ \E j \in DOMAIN ops : ops[j] = want[h]
    BY <1>1, <1>6, <2>1
  <2>3. PICK j \in DOMAIN ops : ops[j] = want[h]
    BY <2>2
  <2>4. j # i
    BY <1>3, <2>1, <2>2, <2>3 DEF Creates
  <2> QED BY <1>3, <2>1, <2>2, <2>3, <2>4
<1> QED BY <1>1, <1>2, <1>9, <1>5, <1>6, KeptBetweenFlushes

LEMMA DeleteSavedKeepsEdits ==
  ASSUME Typed, NothingPassedOver, NEW f \in FeatureIds, DeleteSaved(f), touched' = {}
  PROVE  NothingPassedOver'
<1> DEFINE op == Operation("delete", f, NoGeom)
<1>0. ops \in Seq(Operations) /\ DOMAIN ops = 1 .. Len(ops) /\ Len(ops) \in Nat
      /\ want \in [FeatureIds -> Operations \cup {NoOp}]
  BY DEF Typed, TypeOK
<1>1. /\ ~saving /\ at = 0 /\ kept = <<>> /\ ~detached /\ Single(ops)
      /\ UNCHANGED <<saving, at, kept, sent>>
      /\ \A h \in FeatureIds : want[h] # NoOp =>
           want[h].id = h /\ \E i \in DOMAIN ops : ops[i] = want[h]
  BY EditsBetweenFlushes DEF UserEdit
<1>2. want' = [want EXCEPT ![f] = op] /\ detached' = saving
  BY DEF DeleteSaved
<1>3. op.id = f /\ op.kind = "delete" /\ op \in Operations
  BY MadeOperations DEF Operation
<1>4. PICK q, place :
        /\ q \in Seq(Operations)
        /\ ops' = Append(q, op)
        /\ Embedded(q, ops, place)
        /\ \A i \in DOMAIN ops :
             ~(ops[i].kind = "update" /\ ops[i].id = f) => \E k \in DOMAIN q : place[k] = i
  BY <1>0, DeleteAppended
<1> HIDE DEF op
<1>5. /\ ops' \in Seq(Operations) /\ DOMAIN ops' = 1 .. Len(q) + 1 /\ ops'[Len(q) + 1] = op
      /\ \A i \in 1 .. Len(q) : ops'[i] = q[i]
      /\ DOMAIN q = 1 .. Len(q) /\ Len(q) \in Nat
  BY <1>3, <1>4
<1>6. Single(ops')
  <2>1. Single(q)
    BY <1>1, <1>4 DEF Single, Embedded
  <2>2. \A i \in DOMAIN ops' : Changes(ops'[i], ops'[i].id) => i \in DOMAIN q /\ ops'[i] = q[i]
    BY <1>3, <1>5 DEF Changes
  <2> QED BY <2>1, <2>2 DEF Single
<1>7. ASSUME NEW h \in FeatureIds, want'[h] # NoOp
      PROVE  want'[h].id = h /\ \E k \in DOMAIN ops' : ops'[k] = want'[h]
  <2>1. CASE h = f
    BY <1>0, <1>2, <1>3, <1>5, <2>1
  <2>2. CASE h # f
    <3>1. want'[h] = want[h]
      BY <1>0, <1>2, <2>2
    <3>2. want[h].id = h /\ \E j \in DOMAIN ops : ops[j] = want[h]
      BY <1>1, <1>7, <3>1
    <3>3. PICK j \in DOMAIN ops : ops[j] = want[h]
      BY <3>2
    <3>4. PICK k \in DOMAIN q : place[k] = j
      BY <1>4, <2>2, <3>2, <3>3
    <3>5. k \in DOMAIN ops' /\ ops'[k] = want[h]
      BY <1>4, <1>5, <3>3, <3>4 DEF Embedded
    <3> QED BY <3>1, <3>2, <3>5
  <2> QED BY <2>1, <2>2
<1>8. ~detached'
  BY <1>1, <1>2
<1> QED BY <1>1, <1>5, <1>6, <1>7, <1>8, KeptBetweenFlushes

\* An answer: what the flush was not done with is ahead of it, and what failed
\* is put back.
LEMMA AnswersKeepEdits ==
  ASSUME Typed, NothingPassedOver, Answer, touched' = {}
  PROVE  NothingPassedOver'
<1>0. /\ ops \in Seq(Operations) /\ kept \in Seq(Operations)
      /\ DOMAIN ops = 1 .. Len(ops) /\ Len(ops) \in Nat /\ at \in Nat
      /\ DOMAIN kept = 1 .. Len(kept) /\ Len(kept) \in Nat
      /\ want \in [FeatureIds -> Operations \cup {NoOp}]
      /\ saving => sent \in Operations
  BY DEF Typed, TypeOK, FlushShape
<1>1. saving /\ touched = {} /\ touched' = touched
  BY DEF Answer, Accepted, Rejected, AnswerLost
<1>2. /\ ~detached /\ at \in DOMAIN ops /\ sent = ops[at] /\ Walked = ops
      /\ \A i \in DOMAIN kept : \E j \in DOMAIN ops : j < at /\ kept[i] = ops[j]
      /\ Single(ops) /\ Single(kept)
      /\ \A f \in FeatureIds : want[f] # NoOp =>
           /\ want[f].id = f
           /\ \/ \E i \in DOMAIN ops : i >= at /\ ops[i] = want[f]
              \/ \E i \in DOMAIN kept : kept[i] = want[f]
  BY <1>1 DEF NothingPassedOver, Walked
<1>3. ASSUME NEW pending \in Seq(Operations), Continue(pending), Single(pending),
             \A i \in DOMAIN pending : \E j \in DOMAIN ops : j <= at /\ pending[i] = ops[j],
             \A f \in FeatureIds : want'[f] # NoOp =>
               /\ want'[f].id = f
               /\ \/ \E i \in DOMAIN ops : i > at /\ ops[i] = want'[f]
                  \/ \E i \in DOMAIN pending : pending[i] = want'[f]
      PROVE  NothingPassedOver'
  <2>1. CASE at < Len(Walked)
    <3>1. /\ at' = at + 1 /\ sent' = ops[at + 1] /\ kept' = pending
          /\ UNCHANGED <<ops, saving, detached, walk>>
      BY <1>2, <1>3, <2>1, Zenon DEF Continue
    <3>2. at + 1 \in DOMAIN ops
      BY <1>0, <1>2, <2>1
    <3>3. \A i \in DOMAIN kept' : \E j \in DOMAIN ops' : j < at' /\ kept'[i] = ops'[j]
      BY <1>0, <1>3, <3>1
    <3>4. \A f \in FeatureIds : want'[f] # NoOp =>
            /\ want'[f].id = f
            /\ \/ \E i \in DOMAIN ops' : i >= at' /\ ops'[i] = want'[f]
               \/ \E i \in DOMAIN kept' : kept'[i] = want'[f]
      BY <1>0, <1>3, <3>1
    <3>5. Single(ops') /\ Single(kept')
      BY <1>2, <1>3, <3>1
    <3>6. ~detached' /\ at' \in DOMAIN ops' /\ sent' = ops'[at']
      BY <1>2, <3>1, <3>2
    <3> QED BY <3>3, <3>4, <3>5, <3>6 DEF NothingPassedOver
  <2>2. CASE ~(at < Len(Walked))
    <3>1. /\ ops' = pending /\ saving' = FALSE /\ detached' = FALSE /\ at' = 0 /\ kept' = <<>>
      BY <1>3, <2>2, Zenon DEF Continue, PutBack
    <3>2. \A i \in DOMAIN ops : ~(i > at)
      BY <1>0, <1>2, <2>2
    <3>3. \A f \in FeatureIds : want'[f] # NoOp =>
            want'[f].id = f /\ \E i \in DOMAIN ops' : ops'[i] = want'[f]
      BY <1>3, <3>1, <3>2
    <3> QED BY <1>1, <1>3, <3>1, <3>3, KeptBetweenFlushes
  <2> QED BY <2>1, <2>2
<1>4. \A i \in DOMAIN kept : \E j \in DOMAIN ops : j <= at /\ kept[i] = ops[j]
  BY <1>0, <1>2
<1>5. CASE Accepted
  <2>1. /\ Continue(kept)
        /\ want' = IF want[sent.id] = sent THEN [want EXCEPT ![sent.id] = NoOp] ELSE want
    BY <1>5 DEF Accepted
  <2>2. sent.id \in FeatureIds
    BY <1>0, <1>1, OperationFields
  <2>3. ASSUME NEW f \in FeatureIds, want'[f] # NoOp
        PROVE  want'[f] = want[f] /\ (want[f] = sent => want[f].id # f)
    <3>1. CASE want[sent.id] = sent
      <4>1. want' = [want EXCEPT ![sent.id] = NoOp]
        BY <2>1, <3>1
      <4>2. f # sent.id /\ want'[f] = want[f]
        BY <1>0, <2>2, <2>3, <4>1
      <4> QED BY <4>2
    <3>2. CASE want[sent.id] # sent
      <4>1. want' = want
        BY <2>1, <3>2
      <4> QED BY <3>2, <4>1
    <3> QED BY <3>1, <3>2
  <2>4. ASSUME NEW f \in FeatureIds, want'[f] # NoOp
        PROVE  /\ want'[f].id = f
               /\ \/ \E i \in DOMAIN ops : i > at /\ ops[i] = want'[f]
                  \/ \E i \in DOMAIN kept : kept[i] = want'[f]
    <3>1. /\ want[f].id = f /\ want'[f] = want[f]
          /\ \/ \E i \in DOMAIN ops : i >= at /\ ops[i] = want[f]
             \/ \E i \in DOMAIN kept : kept[i] = want[f]
      BY <1>2, <2>3, <2>4
    <3>2. want[f] # sent
      BY <2>3, <2>4, <3>1
    <3>3. ASSUME NEW i \in DOMAIN ops, i >= at, ops[i] = want[f] PROVE i > at
      BY <1>0, <1>2, <3>2, <3>3
    <3> QED BY <3>1, <3>3
  <2> QED BY <1>0, <1>2, <1>3, <1>4, <2>1, <2>4
<1>6. ASSUME Continue(Append(kept, sent)), want' = want
      PROVE  NothingPassedOver'
  <2> DEFINE pending == Append(kept, sent)
  <2>1. /\ pending \in Seq(Operations) /\ DOMAIN pending = 1 .. Len(kept) + 1
        /\ pending[Len(kept) + 1] = sent
        /\ \A i \in 1 .. Len(kept) : pending[i] = kept[i]
    BY <1>0, <1>1
  <2> HIDE DEF pending
  <2>2. \A i \in DOMAIN pending : \E j \in DOMAIN ops : j <= at /\ pending[i] = ops[j]
    <3>1. ASSUME NEW i \in DOMAIN pending, i # Len(kept) + 1
          PROVE  i \in DOMAIN kept /\ pending[i] = kept[i]
      BY <1>0, <2>1, <3>1
    <3>2. at <= at
      BY <1>0
    <3> QED BY <1>2, <1>4, <2>1, <3>1, <3>2
  <2>3. Single(pending)
    <3>1. ASSUME NEW i \in DOMAIN kept, kept[i].id = sent.id,
                 Changes(kept[i], kept[i].id), Changes(sent, sent.id)
          PROVE  FALSE
      <4>1. PICK j \in DOMAIN ops : j < at /\ kept[i] = ops[j]
        BY <1>2
      <4>2. j = at
        BY <1>2, <3>1, <4>1 DEF Single
      <4> QED BY <1>0, <4>1, <4>2
    <3>2. ASSUME NEW i \in DOMAIN pending, NEW j \in DOMAIN pending, pending[i].id = pending[j].id,
                 Changes(pending[i], pending[i].id), Changes(pending[j], pending[j].id)
          PROVE  i = j
      <4>1. CASE i \in DOMAIN kept /\ j \in DOMAIN kept
        BY <1>0, <1>2, <2>1, <3>2, <4>1 DEF Single
      <4>2. CASE i = Len(kept) + 1 \/ j = Len(kept) + 1
        BY <1>0, <2>1, <3>1, <3>2, <4>2
      <4> QED BY <1>0, <2>1, <4>1, <4>2
    <3> QED BY <3>2 DEF Single
  <2>4. ASSUME NEW f \in FeatureIds, want'[f] # NoOp
        PROVE  /\ want'[f].id = f
               /\ \/ \E i \in DOMAIN ops : i > at /\ ops[i] = want'[f]
                  \/ \E i \in DOMAIN pending : pending[i] = want'[f]
    <3>1. /\ want[f].id = f
          /\ \/ \E i \in DOMAIN ops : i >= at /\ ops[i] = want[f]
             \/ \E i \in DOMAIN kept : kept[i] = want[f]
      BY <1>2, <1>6, <2>4
    <3>2. CASE \E i \in DOMAIN kept : kept[i] = want[f]
      BY <1>0, <1>6, <2>1, <3>1, <3>2
    <3>3. ASSUME NEW i \in DOMAIN ops, i >= at, ops[i] = want[f]
          PROVE  i > at \/ pending[Len(kept) + 1] = want[f]
      BY <1>0, <1>2, <2>1, <3>3
    <3>4. Len(kept) + 1 \in DOMAIN pending
      BY <1>0, <2>1
    <3> QED BY <1>6, <3>1, <3>2, <3>3, <3>4
  <2>5. Continue(pending)
    BY <1>6 DEF pending
  <2> QED BY <1>3, <2>1, <2>2, <2>3, <2>4, <2>5
<1> QED BY <1>5, <1>6 DEF Answer, Rejected, AnswerLost

LEMMA RestKeepsEdits ==
  ASSUME Typed, NothingPassedOver, Save \/ Discard \/ Load \/ UNCHANGED vars
  PROVE  NothingPassedOver'
<1>0. ops \in Seq(Operations) /\ (~saving => ~detached /\ at = 0 /\ kept = <<>>)
      /\ DOMAIN ops = 1 .. Len(ops) /\ Len(ops) \in Nat
  BY DEF Typed, TypeOK, FlushShape
<1> SUFFICES ASSUME touched' = {} PROVE NothingPassedOver'
  BY DEF NothingPassedOver
<1>1. CASE Save
  <2>1. /\ ~saving /\ touched = {} /\ at = 0 /\ kept = <<>> /\ at' = 1 /\ sent' = ops[1] /\ kept' = <<>>
        /\ UNCHANGED <<ops, detached, want>> /\ ~detached /\ ops # <<>>
    BY <1>0, <1>1 DEF Save
  <2>2. 1 \in DOMAIN ops /\ \A i \in DOMAIN ops : i >= 1
    BY <1>0, <2>1
  <2>3. Single(ops) /\ \A f \in FeatureIds : want[f] # NoOp =>
          want[f].id = f /\ \E i \in DOMAIN ops : ops[i] = want[f]
    BY <2>1 DEF NothingPassedOver
  <2>4. Single(kept')
    BY <2>1 DEF Single
  <2>5. /\ \A i \in DOMAIN kept' : \E j \in DOMAIN ops' : j < at' /\ kept'[i] = ops'[j]
        /\ Single(ops') /\ ~detached' /\ at' \in DOMAIN ops' /\ sent' = ops'[at']
    BY <2>1, <2>2, <2>3
  <2>6. \A f \in FeatureIds : want'[f] # NoOp =>
          want'[f].id = f /\ \E i \in DOMAIN ops' : i >= at' /\ ops'[i] = want'[f]
    BY <2>1, <2>2, <2>3
  <2> QED BY <2>4, <2>5, <2>6 DEF NothingPassedOver
<1>2. CASE Discard
  <2>1. ~saving' /\ ~detached' /\ at' = 0 /\ kept' = <<>> /\ ops' = <<>> /\ want' = [f \in FeatureIds |-> NoOp]
    BY <1>0, <1>2 DEF Discard, flushVars
  <2>2. Single(ops')
    BY <2>1 DEF Single
  <2>3. \A f \in FeatureIds : want'[f] = NoOp
    BY <2>1
  <2> QED BY <2>1, <2>2, <2>3, KeptBetweenFlushes
<1>3. CASE Load \/ UNCHANGED vars
  <2>1. UNCHANGED <<ops, saving, detached, at, sent, kept, want, touched>>
    BY <1>3 DEF Load, vars, flushVars
  <2> QED BY <2>1 DEF NothingPassedOver, Single
<1> QED BY <1>1, <1>2, <1>3

-----------------------------------------------------------------------------
(***************************************************************************)
(* The theorems                                                            *)
(***************************************************************************)

LEMMA EditInvInit == Init => Inv
<1> SUFFICES ASSUME Init PROVE Inv
  OBVIOUS
<1>1. TypeOK /\ FlushShape
  BY TypedInit DEF Typed
<1>2. ops = <<>> /\ walk = <<>> /\ kept = <<>> /\ sent = NoOp /\ at = 0 /\ ~detached /\ ~saving /\ lost = 0
      /\ want = [f \in FeatureIds |-> NoOp] /\ created = [t \in Temps |-> 0] /\ shown = {} /\ drawn = 0
  BY DEF Init
<1>3. IdsAreDrawn
  BY <1>2, OperationFields DEF IdsAreDrawn
<1>4. \A t \in Temps : CreateIsSingle(t) /\ CreateIsNew(t)
  BY <1>2, OperationFields
     DEF CreateIsSingle, CreateIsNew, OnTheWay, InAhead, InKept, Ahead, Walked, Creates
<1>5. CreatedOnce
  BY <1>2 DEF CreatedOnce
<1>6. NothingPassedOver
  BY <1>2 DEF NothingPassedOver, Single
<1> QED BY <1>1, <1>3, <1>4, <1>5, <1>6 DEF Inv, EditInv

LEMMA EditInvStep == Inv /\ [Next]_vars => Inv'
<1> SUFFICES ASSUME Inv, [Next]_vars PROVE Inv'
  OBVIOUS
<1>1. Typed /\ IdsAreDrawn /\ CreatedOnce /\ NothingPassedOver
      /\ \A t \in Temps : CreateIsSingle(t) /\ CreateIsNew(t)
  BY DEF Inv, EditInv, Typed
<1>2. Typed' /\ IdsAreDrawn'
  BY <1>1, TypedStep, IdsStep
<1>3. UserEdit \/ Answer \/ Save \/ Discard \/ Load \/ UNCHANGED vars
  BY DEF Next
<1>4. ASSUME NEW t \in Temps
      PROVE  CreateIsSingle(t)' /\ CreateIsNew(t)' /\ created'[t] <= 1 + lost'
  <2>1. created[t] <= 1 + lost
    BY <1>1 DEF CreatedOnce
  <2>2. UserEdit => UNCHANGED <<created, lost>>
    BY DEF UserEdit, Draw, Modify, DeleteDrawn, DeleteSaved, Edit, serverVars, historyVars
  <2> QED BY <1>1, <1>3, <2>1, <2>2, CreatesInEdits, CreatesInAnswers, CreatesInTheRest
<1>5. CreatedOnce'
  BY <1>4 DEF CreatedOnce
<1>6. NothingPassedOver'
  <2>1. SUFFICES ASSUME touched' = {} PROVE NothingPassedOver'
    BY DEF NothingPassedOver
  <2>2. UserEdit => NothingPassedOver'
    BY <1>1, <2>1, DrawKeepsEdits, ModifyKeepsEdits, DeleteDrawnKeepsEdits, DeleteSavedKeepsEdits DEF UserEdit
  <2> QED BY <1>1, <1>3, <2>1, <2>2, AnswersKeepEdits, RestKeepsEdits
<1> QED BY <1>2, <1>4, <1>5, <1>6 DEF Inv, EditInv, Typed

\* EditInv is an invariant of every behaviour: what flush walks over, what it
\* puts back and what the server did fit together at every moment.
THEOREM EditInvariance == Spec => []EditInv
<1>1. Spec => []Inv
  BY EditInvInit, EditInvStep, PTL DEF Spec
<1> QED BY <1>1, PTL DEF Inv

\* The variables keep their types, whatever the user draws, moves and deletes
\* and whenever flush replaces the queue (EditQueue, useEditSession).
THEOREM EditTypeCorrect == Spec => []TypeOK
<1>1. Spec => []Inv
  BY EditInvInit, EditInvStep, PTL DEF Spec
<1> QED BY <1>1, PTL DEF Inv

\* A user who waits for every save loses no edit: however often a request is
\* rejected or an answer lost, the last edit of a feature is in EditQueue's
\* operations until the server accepted it or the user dropped it.
THEOREM EditsAreKeptHolds == Spec => []EditsAreKept
<1>1. EditInv => EditsAreKept
  <2> SUFFICES ASSUME EditInv, touched = {}, NEW f \in FeatureIds, want[f] # NoOp PROVE Pending(f)
    BY DEF EditsAreKept
  <2>1. /\ \A i \in DOMAIN kept : \E j \in DOMAIN ops : kept[i] = ops[j]
        /\ \/ \E i \in DOMAIN ops : ops[i] = want[f]
           \/ \E i \in DOMAIN kept : kept[i] = want[f]
    BY DEF EditInv, NothingPassedOver
  <2> QED BY <2>1 DEF Pending
<1> QED BY <1>1, EditInvariance, PTL

\* However the user edits while flush awaits an answer, the create of a drawing
\* is sent again only when an answer to it was lost: at most one row more than
\* lost answers is made of a drawing.
THEOREM CreatedOnceHolds == Spec => []CreatedOnce
<1>1. EditInv => CreatedOnce
  BY DEF EditInv
<1> QED BY <1>1, EditInvariance, PTL

=============================================================================
