------------------------ MODULE ImportSessionProofs ------------------------
(***************************************************************************)
(* What the import preview guarantees for files of any size, any edits,    *)
(* undone and redone in any order, and any loss of requests and answers.   *)
(***************************************************************************)
EXTENDS ImportSession, FiniteSetTheorems, WellFoundedInduction, TLAPS

-----------------------------------------------------------------------------
(***************************************************************************)
(* Sequences                                                               *)
(***************************************************************************)
LEMMA LeastExists ==
  ASSUME NEW T, T \subseteq Nat, T # {}
  PROVE  \E x \in T : \A y \in T : x <= y
<1>1. PICK x \in T : \A y \in T : <<y, x>> \notin OpToRel(<, Nat)
  BY NatLessThanWellFounded, WFMin, Zenon
<1>2. \A y \in T : ~(y < x)
  BY <1>1 DEF OpToRel
<1>3. \A y \in T : y \in Nat /\ x \in Nat
  OBVIOUS
<1> QED BY <1>2, <1>3

LEMMA NoneInSeq == ASSUME NEW S PROVE <<>> \in Seq(S)
OBVIOUS

LEMMA SequenceOfMembers ==
  ASSUME NEW n \in Nat, NEW s, DOMAIN s = 1..n, s = [i \in DOMAIN s |-> s[i]]
  PROVE  s \in Seq(ToSet(s)) /\ Len(s) = n
<1>1. \A i \in 1..n : s[i] \in ToSet(s)
  BY DEF ToSet
<1>2. s \in [1..n -> ToSet(s)]
  BY <1>1
<1> QED BY <1>2

LEMMA AppendedAt ==
  ASSUME NEW S, NEW s \in Seq(S), NEW x \in S
  PROVE  /\ Append(s, x) \in Seq(S) /\ Len(Append(s, x)) = Len(s) + 1
         /\ Append(s, x)[Len(s) + 1] = x
         /\ \A i \in 1..Len(s) : Append(s, x)[i] = s[i]
OBVIOUS

LEMMA JoinedAt ==
  ASSUME NEW S, NEW s \in Seq(S), NEW t \in Seq(S)
  PROVE  /\ s \o t \in Seq(S) /\ Len(s \o t) = Len(s) + Len(t)
         /\ \A i \in 1..Len(s) : (s \o t)[i] = s[i]
         /\ \A i \in 1..Len(t) : (s \o t)[Len(s) + i] = t[i]
OBVIOUS

\* A sequence joined to another has the members of both.
LEMMA Joined ==
  ASSUME NEW S, NEW s \in Seq(S), NEW t \in Seq(S)
  PROVE  /\ s \o t \in Seq(S)
         /\ \A x : x \in ToSet(s \o t) <=> x \in ToSet(s) \/ x \in ToSet(t)
<1>1. /\ s \o t \in Seq(S) /\ Len(s) \in Nat /\ Len(t) \in Nat
      /\ DOMAIN s = 1..Len(s) /\ DOMAIN t = 1..Len(t) /\ DOMAIN (s \o t) = 1..(Len(s) + Len(t))
      /\ \A i \in 1..Len(s) : (s \o t)[i] = s[i]
      /\ \A i \in 1..Len(t) : (s \o t)[Len(s) + i] = t[i]
  OBVIOUS
<1>2. ASSUME NEW x \in ToSet(s \o t) PROVE x \in ToSet(s) \/ x \in ToSet(t)
  <2>1. PICK i \in 1..(Len(s) + Len(t)) : x = (s \o t)[i]
    BY <1>1, <1>2 DEF ToSet
  <2>2. CASE i \in 1..Len(s)
    BY <1>1, <2>1, <2>2 DEF ToSet
  <2>3. CASE i \notin 1..Len(s)
    <3>1. i - Len(s) \in 1..Len(t) /\ Len(s) + (i - Len(s)) = i
      BY <1>1, <2>1, <2>3
    <3> QED BY <1>1, <2>1, <3>1 DEF ToSet
  <2> QED BY <2>2, <2>3
<1>3. ASSUME NEW x \in ToSet(s) PROVE x \in ToSet(s \o t)
  BY <1>1, <1>3 DEF ToSet
<1>4. ASSUME NEW x \in ToSet(t) PROVE x \in ToSet(s \o t)
  <2>1. PICK i \in 1..Len(t) : x = t[i]
    BY <1>1, <1>4 DEF ToSet
  <2>2. Len(s) + i \in 1..(Len(s) + Len(t)) /\ (s \o t)[Len(s) + i] = x
    BY <1>1, <2>1
  <2> QED BY <1>1, <2>2 DEF ToSet
<1> QED BY <1>1, <1>2, <1>3, <1>4

\* What is true of 0, and of n + 1 with n, is true up to N.
LEMMA UpTo ==
  ASSUME NEW N \in Nat, NEW T, 0 \in T, \A n \in 0..N : n < N /\ n \in T => n + 1 \in T
  PROVE  0..N \subseteq T
<1> DEFINE bad == {n \in 0..N : n \notin T}
<1>1. SUFFICES ASSUME bad # {} PROVE FALSE
  OBVIOUS
<1>2. PICK n \in bad : \A m \in bad : n <= m
  <2>1. bad \subseteq Nat
    OBVIOUS
  <2> HIDE DEF bad
  <2> QED BY <1>1, <2>1, LeastExists
<1>3. n \in 0..N /\ n # 0
  BY <1>2
<1>4. n - 1 \in 0..N /\ n - 1 < N /\ (n - 1) + 1 = n /\ n - 1 \notin bad
  BY <1>2, <1>3
<1>5. n - 1 \in T
  BY <1>4
<1> QED BY <1>2, <1>4, <1>5

\* What is in a flattened sequence is in one of its parts.
LEMMA Flattened ==
  ASSUME NEW S, NEW ss \in Seq(Seq(S))
  PROVE  /\ FlattenSeq(ss) \in Seq(S)
         /\ \A x : x \in ToSet(FlattenSeq(ss)) <=> \E i \in DOMAIN ss : x \in ToSet(ss[i])
<1>1. Len(ss) \in Nat /\ DOMAIN ss = 1..Len(ss) /\ \A i \in 1..Len(ss) : ss[i] \in Seq(S)
  OBVIOUS
<1> DEFINE Step(g, n) == [i \in 1..n |-> IF i = 1 THEN ss[i] ELSE g[i - 1] \o ss[i]]
           flatten == CHOOSE g : g = Step(g, Len(ss))
<1>2. CASE Len(ss) = 0
  <2>1. FlattenSeq(ss) = ss /\ ss = <<>>
    BY <1>1, <1>2 DEF FlattenSeq
  <2> QED BY <2>1, <1>1 DEF ToSet
<1>3. CASE Len(ss) # 0
  <2> DEFINE Has(n) == \E g : g = Step(g, n)
             T == {n \in 0..Len(ss) : Has(n)}
  <2>1. Has(0)
    <3> DEFINE g == [i \in 1..0 |-> ss[i]]
    <3>1. g = Step(g, 0)
      OBVIOUS
    <3> QED BY <3>1
  <2>2. ASSUME NEW m \in 0..Len(ss), m < Len(ss), Has(m) PROVE Has(m + 1)
    <3>1. PICK g : g = Step(g, m)
      BY <2>2
    <3> DEFINE h == [i \in 1..(m + 1) |-> IF i = 1 THEN ss[i] ELSE g[i - 1] \o ss[i]]
    <3>2. \A i \in 1..(m + 1) : h[i] = IF i = 1 THEN ss[i] ELSE g[i - 1] \o ss[i]
      OBVIOUS
    <3>3. \A i \in 1..m : g[i] = IF i = 1 THEN ss[i] ELSE g[i - 1] \o ss[i]
      BY <3>1
    <3>4. h = [i \in 1..(m + 1) |-> h[i]]
      OBVIOUS
    <3> HIDE DEF h
    <3>5. \A i \in 1..m : h[i] = g[i]
      BY <1>1, <3>2, <3>3
    <3>6. \A i \in 1..(m + 1) : i # 1 => i - 1 \in 1..m
      BY <1>1
    <3>7. \A i \in 1..(m + 1) : h[i] = IF i = 1 THEN ss[i] ELSE h[i - 1] \o ss[i]
      BY <3>2, <3>5, <3>6
    <3>8. h = Step(h, m + 1)
      BY <3>4, <3>7
    <3> QED BY <3>8
  <2> HIDE DEF Has
  <2>3. Has(Len(ss))
    <3>1. 0 \in T /\ \A n \in 0..Len(ss) : n < Len(ss) /\ n \in T => n + 1 \in T
      BY <1>1, <2>1, <2>2
    <3> HIDE DEF T
    <3>2. 0..Len(ss) \subseteq T
      BY <1>1, <3>1, UpTo
    <3> USE DEF T
    <3> QED BY <1>1, <3>2
  <2>4. flatten = Step(flatten, Len(ss))
    BY <2>3 DEF Has
  <2>5. FlattenSeq(ss) = flatten[Len(ss)]
    BY <1>3 DEF FlattenSeq
  <2> HIDE DEF flatten
  <2>6. \A i \in 1..Len(ss) : flatten[i] = IF i = 1 THEN ss[i] ELSE flatten[i - 1] \o ss[i]
    BY <2>4
  <2> DEFINE Good(i) == /\ flatten[i] \in Seq(S)
                        /\ \A x : x \in ToSet(flatten[i]) <=> \E j \in 1..i : x \in ToSet(ss[j])
             U == {i \in 0..Len(ss) : i = 0 \/ Good(i)}
  <2>7. Good(1)
    <3>1. flatten[1] = ss[1] /\ ss[1] \in Seq(S)
      BY <1>1, <1>3, <2>6
    <3>2. \A j : j \in 1..1 <=> j = 1
      OBVIOUS
    <3> QED BY <3>1, <3>2
  <2>8. ASSUME NEW m \in 1..Len(ss), m < Len(ss), Good(m) PROVE Good(m + 1)
    <3>1. m + 1 \in 1..Len(ss) /\ m + 1 # 1 /\ (m + 1) - 1 = m
      BY <1>1, <2>8
    <3>2. flatten[m + 1] = flatten[m] \o ss[m + 1] /\ ss[m + 1] \in Seq(S) /\ flatten[m] \in Seq(S)
      BY <1>1, <2>6, <2>8, <3>1
    <3>3. /\ flatten[m + 1] \in Seq(S)
          /\ \A x : x \in ToSet(flatten[m + 1]) <=> x \in ToSet(flatten[m]) \/ x \in ToSet(ss[m + 1])
      BY <3>2, Joined
    <3>4. \A j : j \in 1..(m + 1) <=> j \in 1..m \/ j = m + 1
      BY <1>1
    <3> QED BY <2>8, <3>3, <3>4
  <2> HIDE DEF Good
  <2>9. Good(Len(ss))
    <3>1. 0 \in U /\ \A n \in 0..Len(ss) : n < Len(ss) /\ n \in U => n + 1 \in U
      BY <1>1, <2>7, <2>8
    <3> HIDE DEF U
    <3>2. 0..Len(ss) \subseteq U
      BY <1>1, <3>1, UpTo
    <3> USE DEF U
    <3> QED BY <1>1, <1>3, <3>2
  <2> QED BY <1>1, <2>5, <2>9 DEF Good
<1> QED BY <1>2, <1>3

-----------------------------------------------------------------------------
(***************************************************************************)
(* The nodes below a node                                                  *)
(***************************************************************************)
LEMMA ItemsOfNodes ==
  ASSUME NEW S, \A m \in S : m.items \in Seq(S), NEW nodes \in Seq(S)
  PROVE  /\ ItemsOf(nodes) \in Seq(S)
         /\ \A x : x \in ToSet(ItemsOf(nodes)) <=> \E m \in ToSet(nodes) : x \in ToSet(m.items)
<1> DEFINE ss == [i \in DOMAIN nodes |-> nodes[i].items]
<1>1. DOMAIN nodes = 1..Len(nodes) /\ Len(nodes) \in Nat /\ \A i \in DOMAIN nodes : nodes[i] \in S
  OBVIOUS
<1>2. ss \in Seq(Seq(S)) /\ DOMAIN ss = DOMAIN nodes /\ \A i \in DOMAIN nodes : ss[i] = nodes[i].items
  BY <1>1
<1>3. ItemsOf(nodes) = FlattenSeq(ss)
  BY DEF ItemsOf
<1> HIDE DEF ss
<1>4. /\ ItemsOf(nodes) \in Seq(S)
      /\ \A x : x \in ToSet(ItemsOf(nodes)) <=> \E i \in DOMAIN ss : x \in ToSet(ss[i])
  BY <1>2, <1>3, Flattened
<1>5. ToSet(nodes) = {nodes[i] : i \in DOMAIN nodes}
  BY DEF ToSet
<1> QED BY <1>2, <1>4, <1>5

\* Each level has what is in the one above it.
LEMMA Levels ==
  ASSUME NEW S, \A m \in S : m.items \in Seq(S), NEW node \in S
  PROVE  /\ \A n \in 0..3 : Level(node, n) \in Seq(S)
         /\ ToSet(Level(node, 0)) = {node}
         /\ \A n \in 0..2 : \A x :
              x \in ToSet(Level(node, n + 1)) <=> \E m \in ToSet(Level(node, n)) : x \in ToSet(m.items)
<1>1. /\ Level(node, 0) = <<node>>
      /\ Level(node, 1) = ItemsOf(Level(node, 0))
      /\ Level(node, 2) = ItemsOf(Level(node, 1))
      /\ Level(node, 3) = ItemsOf(Level(node, 2))
  BY DEF Level
<1>2. Level(node, 0) \in Seq(S) /\ ToSet(Level(node, 0)) = {node}
  <2>1. <<node>> \in Seq(S) /\ DOMAIN <<node>> = {1} /\ <<node>>[1] = node
    OBVIOUS
  <2>2. ToSet(<<node>>) = {<<node>>[i] : i \in DOMAIN <<node>>}
    BY DEF ToSet
  <2> QED BY <1>1, <2>1, <2>2
<1>3. /\ Level(node, 1) \in Seq(S)
      /\ \A x : x \in ToSet(Level(node, 1)) <=> \E m \in ToSet(Level(node, 0)) : x \in ToSet(m.items)
  BY <1>1, <1>2, ItemsOfNodes
<1>4. /\ Level(node, 2) \in Seq(S)
      /\ \A x : x \in ToSet(Level(node, 2)) <=> \E m \in ToSet(Level(node, 1)) : x \in ToSet(m.items)
  BY <1>1, <1>3, ItemsOfNodes
<1>5. /\ Level(node, 3) \in Seq(S)
      /\ \A x : x \in ToSet(Level(node, 3)) <=> \E m \in ToSet(Level(node, 2)) : x \in ToSet(m.items)
  BY <1>1, <1>4, ItemsOfNodes
<1>6. \A n : n \in 0..3 <=> n = 0 \/ n = 1 \/ n = 2 \/ n = 3
  OBVIOUS
<1>7. \A n : n \in 0..2 <=> n = 0 \/ n = 1 \/ n = 2
  OBVIOUS
<1>8. \A n \in 0..3 : Level(node, n) \in Seq(S)
  BY <1>2, <1>3, <1>4, <1>5, <1>6
<1>9. ASSUME NEW n \in 0..2, NEW x
      PROVE  x \in ToSet(Level(node, n + 1)) <=> \E m \in ToSet(Level(node, n)) : x \in ToSet(m.items)
  <2>1. 0 + 1 = 1 /\ 1 + 1 = 2 /\ 2 + 1 = 3
    OBVIOUS
  <2> QED BY <1>3, <1>4, <1>5, <1>7, <2>1
<1> QED BY <1>2, <1>8, <1>9

-----------------------------------------------------------------------------
(***************************************************************************)
(* The two sets of rules                                                   *)
(***************************************************************************)
LEMMA Depths ==
  ASSUME NEW type \in DOMAIN Depth
  PROVE  /\ Depth[type] \in 0..3 /\ Minimum[type] \in Nat
         /\ type \in RingTypes => Depth[type] \in 2..3 /\ Minimum[type] = 4
  BY DEF Depth, Minimum, RingTypes

\* At one node the server accepts what the browser does, unless it raises on an
\* end of a ring that is no array.
LEMMA SameAtANode ==
  ASSUME NEW S, NEW node, node.items \in Seq(S), NEW depth \in 0..3, NEW type \in DOMAIN Depth
  PROVE  /\ WalkNode(node, depth, type) \in {"valid", "malformed_coordinates", "raises"}
         /\ WalkNode(node, depth, type) = "valid" => CheckNode(node, depth, type)
         /\ CheckNode(node, depth, type) => WalkNode(node, depth, type) \in {"valid", "raises"}
         /\ WalkNode(node, depth, type) = "raises" =>
              depth = 1 /\ \E end \in ToSet(node.items) : end.k # "list"
<1> DEFINE items == node.items
           first == items[1]
           last == items[Len(items)]
           min == Minimum[type]
           ringed == type \in RingTypes
<1>1. min \in Nat
  BY Depths
<1>2. CASE depth = 0
  BY <1>2 DEF WalkNode, CheckNode
<1>3. CASE depth # 0 /\ (node.k # "list" \/ items = <<>>)
  BY <1>3 DEF WalkNode, CheckNode
<1>4. CASE depth # 0 /\ depth # 1 /\ node.k = "list" /\ items # <<>>
  BY <1>4 DEF WalkNode, CheckNode
<1>5. CASE depth = 1 /\ node.k = "list" /\ items # <<>>
  <2>1. Len(items) \in Nat /\ Len(items) >= 1 /\ first \in ToSet(items) /\ last \in ToSet(items)
    BY <1>5 DEF ToSet
  <2>2. Len(Append(items, first)) = Len(items) + 1
    OBVIOUS
  <2> HIDE DEF items, first, last, min, ringed
  <2>3. CASE ringed /\ Len(items) >= 3 /\ (first.k # "list" \/ last.k # "list")
    <3>1. WalkNode(node, depth, type) = "raises"
      BY <1>5, <2>3 DEF WalkNode, items, first, last, ringed
    <3> QED BY <1>5, <2>1, <2>3, <3>1 DEF items
  <2>4. CASE ~(ringed /\ Len(items) >= 3)
    <3>1. WalkNode(node, depth, type) = IF Len(items) < min THEN "malformed_coordinates" ELSE "valid"
      BY <1>5, <2>4 DEF WalkNode, items, first, last, ringed, min
    <3>2. CheckNode(node, depth, type) <=> Len(items) >= min
      BY <1>5, <2>4 DEF CheckNode, EffectiveLength, IsOpenRing, items, ringed, min
    <3> QED BY <1>1, <2>1, <3>1, <3>2
  <2>5. CASE ringed /\ Len(items) >= 3 /\ first.k = "list" /\ last.k = "list"
    <3> DEFINE closed == IF first # last THEN Append(items, first) ELSE items
               length == IF first # last THEN Len(items) + 1 ELSE Len(items)
    <3>1. WalkNode(node, depth, type) = IF Len(closed) < min THEN "malformed_coordinates" ELSE "valid"
      BY <1>5, <2>5 DEF WalkNode, items, first, last, ringed, min
    <3>2. CheckNode(node, depth, type) <=> length >= min
      BY <1>5, <2>5 DEF CheckNode, EffectiveLength, IsOpenRing, items, ringed, min, first, last
    <3>3. Len(closed) = length /\ length \in Nat
      BY <2>1, <2>2
    <3> HIDE DEF closed, length
    <3> QED BY <1>1, <3>1, <3>2, <3>3
  <2> QED BY <2>3, <2>4, <2>5
<1> QED BY <1>2, <1>3, <1>4, <1>5 DEF items

\* A structure the browser accepts the server accepts, and the other way round.
LEMMA SameStructure ==
  ASSUME NEW S, \A m \in S : m.items \in Seq(S), NEW node \in S, NEW type \in DOMAIN Depth
  PROVE  /\ Walk(node, Depth[type], type) \in {"valid", "malformed_coordinates", "raises"}
         /\ CheckStructure(node, Depth[type], type) <=> Walk(node, Depth[type], type) = "valid"
<1> DEFINE depth == Depth[type]
           At(n) == ToSet(Level(node, n))
           met == UNION {{WalkNode(m, depth - n, type) : m \in At(n)} : n \in 0..depth}
<1>1. depth \in 0..3
  BY Depths
<1>2. ASSUME NEW n \in 0..depth PROVE n \in 0..3 /\ depth - n \in 0..3 /\ At(n) \subseteq S
  <2>1. n \in 0..3 /\ depth - n \in 0..3
    BY <1>1
  <2>2. Level(node, n) \in Seq(S)
    BY <2>1, Levels
  <2>3. ToSet(Level(node, n)) \subseteq S
    BY <2>2 DEF ToSet
  <2> QED BY <2>1, <2>3
<1>3. ASSUME NEW n \in 0..depth, NEW m \in At(n)
      PROVE  /\ WalkNode(m, depth - n, type) \in {"valid", "malformed_coordinates", "raises"}
             /\ WalkNode(m, depth - n, type) = "valid" => CheckNode(m, depth - n, type)
             /\ CheckNode(m, depth - n, type) => WalkNode(m, depth - n, type) \in {"valid", "raises"}
             /\ WalkNode(m, depth - n, type) = "raises" =>
                  depth - n = 1 /\ \E end \in ToSet(m.items) : end.k # "list"
  <2>1. m.items \in Seq(S) /\ depth - n \in 0..3
    BY <1>2
  <2> HIDE DEF depth
  <2> QED BY <2>1, SameAtANode
<1>4. Walk(node, depth, type) = CASE "raises" \in met -> "raises"
                                  [] "raises" \notin met /\ "malformed_coordinates" \in met -> "malformed_coordinates"
                                  [] OTHER -> "valid"
  BY DEF Walk
<1>5. met \subseteq {"valid", "malformed_coordinates", "raises"}
  BY <1>3
<1>6. CheckStructure(node, depth, type) <=> \A n \in 0..depth : \A m \in At(n) : CheckNode(m, depth - n, type)
  BY DEF CheckStructure
<1>7. \A c : c \in met <=> \E n \in 0..depth : \E m \in At(n) : c = WalkNode(m, depth - n, type)
  OBVIOUS
<1> HIDE DEF depth, met, At
<1>8. ASSUME CheckStructure(node, depth, type) PROVE "malformed_coordinates" \notin met /\ "raises" \notin met
  <2>1. \A n \in 0..depth : \A m \in At(n) : WalkNode(m, depth - n, type) \in {"valid", "raises"}
    BY <1>3, <1>6, <1>8
  <2>2. ASSUME NEW n \in 0..depth, NEW m \in At(n), WalkNode(m, depth - n, type) = "raises" PROVE FALSE
    <3>1. depth - n = 1
      BY <1>3, <2>2
    <3>2. PICK end \in ToSet(m.items) : end.k # "list"
      BY <1>3, <2>2
    <3>3. n \in 0..2 /\ n + 1 = depth
      BY <1>1, <3>1
    <3>4. end \in ToSet(Level(node, n + 1))
      BY <3>2, <3>3, Levels DEF At
    <3>5. CheckNode(end, 0, type)
      <4>1. depth \in 0..depth /\ depth - depth = 0 /\ end \in At(depth)
        BY <1>1, <3>3, <3>4 DEF At
      <4> QED BY <1>6, <1>8, <4>1
    <3> QED BY <3>2, <3>5 DEF CheckNode, IsPosition
  <2> QED BY <1>7, <2>1, <2>2
<1>9. ASSUME "malformed_coordinates" \notin met, "raises" \notin met PROVE CheckStructure(node, depth, type)
  BY <1>3, <1>5, <1>6, <1>7, <1>9
<1>10. Walk(node, depth, type) \in {"valid", "malformed_coordinates", "raises"}
  BY <1>4
<1>11. CheckStructure(node, depth, type) <=> Walk(node, depth, type) = "valid"
  BY <1>4, <1>8, <1>9
<1> QED BY <1>10, <1>11 DEF depth

LEMMA SameRules ==
  ASSUME NEW S, \A m \in S : m.items \in Seq(S), NEW g, g = None \/ g.coordinates \in S
  PROVE  \/ ValidateGeometry(g) = CheckGeometry(g)
         \/ ValidateGeometry(g) = "raises" /\ CheckGeometry(g) # "valid"
<1>1. CASE g = None
  BY <1>1 DEF ValidateGeometry, CheckGeometry
<1>2. CASE g # None /\ g.type \notin DOMAIN Depth
  BY <1>2 DEF ValidateGeometry, CheckGeometry
<1>3. CASE g # None /\ g.type \in DOMAIN Depth
  <2> DEFINE depth == Depth[g.type]
             range == RangeCode(Level(g.coordinates, depth))
             structure == Walk(g.coordinates, depth, g.type)
  <2>1. ValidateGeometry(g) = IF structure # "valid" THEN structure ELSE range
    BY <1>3 DEF ValidateGeometry
  <2>2. CheckGeometry(g) = IF CheckStructure(g.coordinates, depth, g.type) THEN range ELSE "malformed_coordinates"
    BY <1>3 DEF CheckGeometry
  <2>3. /\ structure \in {"valid", "malformed_coordinates", "raises"}
        /\ CheckStructure(g.coordinates, depth, g.type) <=> structure = "valid"
    BY <1>3, SameStructure
  <2> HIDE DEF depth, range, structure
  <2> QED BY <2>1, <2>2, <2>3
<1> QED BY <1>1, <1>2, <1>3

-----------------------------------------------------------------------------
(***************************************************************************)
(* What is written                                                         *)
(***************************************************************************)
\* A sequence with what F makes of each member.
LEMMA Mapped ==
  ASSUME NEW S, NEW s \in Seq(S), NEW T, NEW F \in [S -> T],
         NEW r \in [DOMAIN s -> T], \A i \in DOMAIN s : r[i] = F[s[i]]
  PROVE  /\ r \in Seq(T)
         /\ \A x \in ToSet(s) : F[x] \in ToSet(r)
<1>1. DOMAIN s = 1..Len(s) /\ Len(s) \in Nat /\ \A i \in DOMAIN s : s[i] \in S
  OBVIOUS
<1>2. r \in Seq(T) /\ DOMAIN r = DOMAIN s
  BY <1>1
<1>3. ASSUME NEW x \in ToSet(s) PROVE F[x] \in ToSet(r)
  <2>1. PICK i \in DOMAIN s : x = s[i]
    BY <1>3 DEF ToSet
  <2> QED BY <1>2, <2>1 DEF ToSet
<1> QED BY <1>2, <1>3

\* What is written of a node that is that many levels down.
WrittenAt(node, n) ==
  CASE n = 0 -> Written(node)
    [] n = 1 -> Written3(node)
    [] n = 2 -> Written2(node)
    [] n = 3 -> Written1(node)
    [] n = 4 -> Finite(node)

WrittenNodes(S) == S \cup {Nothing} \cup {WrittenAt(m, n) : m \in S, n \in 0..4}

LEMMA WrittenInside ==
  ASSUME NEW S, Closed(S), NEW m \in S, NEW n \in 0..3
  PROVE  /\ WrittenAt(m, n).items \in Seq(WrittenNodes(S))
         /\ Finite(m) # m => WrittenAt(m, n) = Nothing
         /\ Finite(m) = m => \A x \in ToSet(m.items) : WrittenAt(x, n + 1) \in ToSet(WrittenAt(m, n).items)
         /\ Finite(m) = m /\ (\A x \in ToSet(m.items) : WrittenAt(x, n + 1) = x) => WrittenAt(m, n) = m
<1> DEFINE F == [x \in S |-> WrittenAt(x, n + 1)]
           f == Finite(m)
           inner == [i \in DOMAIN f.items |-> WrittenAt(f.items[i], n + 1)]
           W == WrittenNodes(S)
<1>1. m.items \in Seq(S) /\ (m = Nothing \/ m = Number(m.v) \/ m = List(m.items))
  BY DEF Closed
<1>2. f.items \in Seq(S) /\ f = [k |-> f.k, v |-> f.v, items |-> f.items]
  BY <1>1 DEF Finite, Nothing, Number, List
<1>3. \A i \in DOMAIN f.items : f.items[i] \in S
  BY <1>2
<1>4. n + 1 \in 0..4 /\ F \in [S -> W]
  BY DEF WrittenNodes
<1>5. WrittenAt(m, n) = [f EXCEPT !.items = inner]
  <2>1. n = 0 \/ n = 1 \/ n = 2 \/ n = 3
    OBVIOUS
  <2>2. CASE n = 0
    BY <2>2 DEF WrittenAt, Written, Inside
  <2>3. CASE n = 1
    BY <2>3 DEF WrittenAt, Written3, Inside
  <2>4. CASE n = 2
    BY <2>4 DEF WrittenAt, Written2, Inside
  <2>5. CASE n = 3
    BY <2>5 DEF WrittenAt, Written1, Inside
  <2> QED BY <2>1, <2>2, <2>3, <2>4, <2>5
<1>6. inner = [i \in DOMAIN f.items |-> F[f.items[i]]]
  BY <1>3
<1> HIDE DEF f, F, W
<1>7. /\ inner \in Seq(W)
      /\ \A x \in ToSet(f.items) : F[x] \in ToSet(inner)
      /\ (\A x \in ToSet(f.items) : F[x] = x) => inner = f.items
  <2> HIDE DEF inner
  <2>1. PICK s : s = f.items
    OBVIOUS
  <2>2. s \in Seq(S) /\ F \in [S -> W] /\ inner \in [DOMAIN s -> W] /\ \A i \in DOMAIN s : inner[i] = F[s[i]]
    BY <1>2, <1>3, <1>4, <1>6, <2>1
  <2>3. inner \in Seq(W) /\ \A x \in ToSet(s) : F[x] \in ToSet(inner)
    BY <2>2, Mapped
  <2>4. ASSUME \A x \in ToSet(s) : F[x] = x PROVE inner = s
    <3>1. \A i \in DOMAIN s : inner[i] = s[i]
      BY <2>2, <2>4 DEF ToSet
    <3>2. s = [i \in DOMAIN s |-> s[i]] /\ inner = [i \in DOMAIN s |-> inner[i]]
      BY <2>2
    <3> QED BY <3>1, <3>2
  <2> QED BY <2>1, <2>3, <2>4
<1>8. \A x \in ToSet(f.items) : F[x] = WrittenAt(x, n + 1)
  BY <1>3 DEF ToSet, F
<1> HIDE DEF inner
<1>9. WrittenAt(m, n) = [k |-> f.k, v |-> f.v, items |-> inner]
  BY <1>2, <1>5
<1>10. WrittenAt(m, n).items = inner
  BY <1>9
<1>11. f # m => WrittenAt(m, n) = Nothing
  <2>1. SUFFICES ASSUME f # m PROVE WrittenAt(m, n) = Nothing
    OBVIOUS
  <2>2. f = Nothing
    BY <2>1 DEF f, Finite
  <2>3. f.k = "null" /\ f.v = 0 /\ f.items = <<>>
    BY <2>2 DEF Nothing
  <2>4. \A x \in ToSet(f.items) : F[x] = x
    BY <2>3 DEF ToSet
  <2>5. inner = <<>>
    BY <1>7, <2>3, <2>4
  <2> QED BY <1>9, <2>3, <2>5 DEF Nothing
<1>12. f = m /\ (\A x \in ToSet(m.items) : F[x] = x) => WrittenAt(m, n) = m
  BY <1>2, <1>7, <1>9
<1> QED BY <1>7, <1>8, <1>10, <1>11, <1>12 DEF f, W

LEMMA WrittenNodesClosed ==
  ASSUME NEW S, Closed(S)
  PROVE  \A w \in WrittenNodes(S) : w.items \in Seq(WrittenNodes(S))
<1> DEFINE W == WrittenNodes(S)
<1>1. S \subseteq W /\ Nothing \in W /\ Seq(S) \subseteq Seq(W)
  BY DEF WrittenNodes
<1>2. ASSUME NEW m \in S PROVE m.items \in Seq(W)
  BY <1>1 DEF Closed
<1>3. Nothing.items \in Seq(W)
  BY DEF Nothing
<1>4. ASSUME NEW m \in S, NEW n \in 0..4 PROVE WrittenAt(m, n).items \in Seq(W)
  <2>1. CASE n = 4
    BY <1>2, <1>3, <2>1 DEF WrittenAt, Finite
  <2>2. CASE n # 4
    BY <2>2, WrittenInside
  <2> QED BY <2>1, <2>2
<1>5. \A w \in W : w \in S \/ w = Nothing \/ \E m \in S, n \in 0..4 : w = WrittenAt(m, n)
  BY DEF WrittenNodes
<1> HIDE DEF W
<1>6. \A w \in W : w.items \in Seq(W)
  BY <1>2, <1>3, <1>4, <1>5
<1> QED BY <1>6 DEF W

LEMMA ItemsAreNodes ==
  ASSUME NEW S, Closed(S), NEW m \in S
  PROVE  m.items \in Seq(S) /\ ToSet(m.items) \subseteq S
<1>1. m.items \in Seq(S)
  BY DEF Closed
<1>2. \A i \in DOMAIN m.items : m.items[i] \in S
  BY <1>1
<1> QED BY <1>1, <1>2 DEF ToSet

\* Where all numbers are finite, what is written is what there is.
LEMMA AllFinite ==
  ASSUME NEW S, Closed(S), \A m \in S : Finite(m) = m
  PROVE  \A m \in S : Written(m) = m
<1>1. \A m \in S : WrittenAt(m, 4) = m
  BY DEF WrittenAt
<1>2. ASSUME NEW n \in 0..3, \A m \in S : WrittenAt(m, n + 1) = m PROVE \A m \in S : WrittenAt(m, n) = m
  BY <1>2, WrittenInside, ItemsAreNodes
<1>3. 3 + 1 = 4 /\ 2 + 1 = 3 /\ 1 + 1 = 2 /\ 0 + 1 = 1 /\ 0 \in 0..3 /\ 1 \in 0..3 /\ 2 \in 0..3 /\ 3 \in 0..3
  OBVIOUS
<1>4. \A m \in S : WrittenAt(m, 3) = m
  BY <1>1, <1>2, <1>3
<1>5. \A m \in S : WrittenAt(m, 2) = m
  BY <1>2, <1>3, <1>4
<1>6. \A m \in S : WrittenAt(m, 1) = m
  BY <1>2, <1>3, <1>5
<1>7. \A m \in S : WrittenAt(m, 0) = m
  BY <1>2, <1>3, <1>6
<1> QED BY <1>7 DEF WrittenAt

\* What is written of a well-formed geometry is the same, or has a null in a
\* position.
LEMMA WrittenStructure ==
  ASSUME NEW S, Closed(S), NEW c \in S, NEW type \in DOMAIN Depth, CheckStructure(c, Depth[type], type)
  PROVE  \/ Written(c) = c
         \/ \E p \in ToSet(Level(Written(c), Depth[type])) : Nothing \in ToSet(p.items)
<1> DEFINE depth == Depth[type]
           At(n) == ToSet(Level(c, n))
           A(n) == IF n = 4 THEN UNION {ToSet(m.items) : m \in At(3)} ELSE At(n)
           Changed(n) == \E m \in A(n) : Finite(m) # m
<1>1. depth \in 0..3
  BY Depths
<1>2. \A m \in S : m.items \in Seq(S) /\ ToSet(m.items) \subseteq S
  BY ItemsAreNodes
<1>3. /\ \A n \in 0..3 : Level(c, n) \in Seq(S)
      /\ At(0) = {c}
      /\ \A n \in 0..2 : \A x : x \in At(n + 1) <=> \E m \in At(n) : x \in ToSet(m.items)
  BY <1>2, Levels
<1>4. ASSUME NEW n \in 0..3 PROVE At(n) \subseteq S
  <2>1. Level(c, n) \in Seq(S)
    BY <1>3
  <2>2. \A i \in DOMAIN Level(c, n) : Level(c, n)[i] \in S
    BY <2>1
  <2> QED BY <2>2 DEF ToSet
<1>5. \A n \in 0..depth : \A m \in At(n) : CheckNode(m, depth - n, type)
  BY DEF CheckStructure
<1> HIDE DEF At
<1>6. A(0) = {c} /\ \A n \in 0..3 : A(n) = At(n)
  BY <1>3
<1>7. ASSUME NEW n \in 0..3 PROVE \A x : x \in A(n + 1) <=> \E m \in A(n) : x \in ToSet(m.items)
  <2>1. CASE n = 3
    BY <2>1
  <2>2. CASE n # 3
    <3>1. n \in 0..2 /\ n + 1 \in 0..3
      BY <2>2
    <3> QED BY <1>3, <1>6, <3>1
  <2> QED BY <2>1, <2>2
<1>8. \A n \in 0..4 : A(n) \subseteq S
  <2>1. \A n \in 0..4 : n = 4 \/ n \in 0..3
    OBVIOUS
  <2> QED BY <1>2, <1>4, <2>1
<1>9. \A n \in 0..depth : \A m \in A(n) : CheckNode(m, depth - n, type)
  BY <1>1, <1>5, <1>6
<1> HIDE DEF A
<1>10. ASSUME NEW n \in 0..depth, NEW m \in A(n) PROVE m.k = "list" /\ Finite(m) = m
  BY <1>9 DEF CheckNode, IsPosition, Finite
<1>11. ASSUME NEW m \in A(depth + 1) PROVE ToSet(m.items) = {}
  <2>1. PICK p \in A(depth) : m \in ToSet(p.items)
    BY <1>1, <1>7
  <2>2. IsPosition(p)
    BY <1>1, <1>9, <2>1 DEF CheckNode
  <2>3. m.k = "number"
    BY <2>1, <2>2 DEF IsPosition, ToSet
  <2>4. m \in S
    BY <1>1, <1>8
  <2>5. m = Number(m.v)
    BY <2>3, <2>4 DEF Closed, Nothing, List
  <2>6. m.items = <<>>
    BY <2>5 DEF Number
  <2> QED BY <2>6 DEF ToSet
<1>12. ASSUME NEW n \in 0..4, n > depth + 1 PROVE A(n) = {}
  <2>1. A(depth + 2) = {} \/ depth = 3
    BY <1>1, <1>7, <1>11
  <2>2. \A k \in 0..3 : A(k) = {} => A(k + 1) = {}
    BY <1>7
  <2>3. depth = 0 \/ depth = 1 \/ depth = 2 \/ depth = 3
    BY <1>1
  <2>4. CASE depth = 0
    <3>1. A(2) = {} /\ A(3) = {} /\ A(4) = {}
      BY <2>1, <2>2, <2>4
    <3>2. n = 2 \/ n = 3 \/ n = 4
      BY <1>12, <2>4
    <3> QED BY <3>1, <3>2
  <2>5. CASE depth = 1
    <3>1. A(3) = {} /\ A(4) = {}
      BY <2>1, <2>2, <2>5
    <3>2. n = 3 \/ n = 4
      BY <1>12, <2>5
    <3> QED BY <3>1, <3>2
  <2>6. CASE depth = 2
    <3>1. A(4) = {} /\ n = 4
      BY <1>12, <2>1, <2>6
    <3> QED BY <3>1
  <2>7. CASE depth = 3
    BY <1>12, <2>7
  <2> QED BY <2>3, <2>4, <2>5, <2>6, <2>7
<1> HIDE DEF depth
<1>13. CASE \A n \in 0..4 : ~Changed(n)
  <2>1. \A n \in 0..4 : \A m \in A(n) : Finite(m) = m
    BY <1>13
  <2>2. \A m \in A(4) : WrittenAt(m, 4) = m
    BY <2>1 DEF WrittenAt
  <2>3. ASSUME NEW n \in 0..3, \A m \in A(n + 1) : WrittenAt(m, n + 1) = m
        PROVE  \A m \in A(n) : WrittenAt(m, n) = m
    <3>1. TAKE m \in A(n)
    <3>2. m \in S /\ Finite(m) = m
      BY <1>8, <2>1
    <3>3. \A x \in ToSet(m.items) : WrittenAt(x, n + 1) = x
      BY <1>7, <2>3
    <3> QED BY <3>2, <3>3, WrittenInside
  <2>4. 3 + 1 = 4 /\ 2 + 1 = 3 /\ 1 + 1 = 2 /\ 0 + 1 = 1 /\ 0 \in 0..3 /\ 1 \in 0..3 /\ 2 \in 0..3 /\ 3 \in 0..3
    OBVIOUS
  <2>5. \A m \in A(3) : WrittenAt(m, 3) = m
    BY <2>2, <2>3, <2>4
  <2>6. \A m \in A(2) : WrittenAt(m, 2) = m
    BY <2>3, <2>4, <2>5
  <2>7. \A m \in A(1) : WrittenAt(m, 1) = m
    BY <2>3, <2>4, <2>6
  <2>8. \A m \in A(0) : WrittenAt(m, 0) = m
    BY <2>3, <2>4, <2>7
  <2> QED BY <1>6, <2>8 DEF WrittenAt
<1>14. CASE \E n \in 0..4 : Changed(n)
  <2> DEFINE w == Written(c)
             W == WrittenNodes(S)
             Reached(n) == \A m \in A(n) : WrittenAt(m, n) \in ToSet(Level(w, n))
             T == {n \in 0..depth : Reached(n)}
  <2>1. PICK m \in A(depth + 1) : Finite(m) # m
    <3>1. PICK n \in 0..4 : Changed(n)
      BY <1>14
    <3>2. n \notin 0..depth /\ ~(n > depth + 1)
      BY <1>10, <1>12, <3>1
    <3>3. n = depth + 1
      BY <1>1, <3>2
    <3> QED BY <3>1, <3>3
  <2>2. PICK p \in A(depth) : m \in ToSet(p.items)
    BY <1>1, <1>7, <2>1
  <2>3. m \in S /\ p \in S /\ Finite(p) = p
    BY <1>1, <1>8, <1>10, <2>1, <2>2
  <2>4. WrittenAt(m, depth + 1) = Nothing
    <3>1. CASE depth = 3
      BY <2>1, <3>1 DEF WrittenAt, Finite
    <3>2. CASE depth # 3
      <4>1. depth + 1 \in 0..3
        BY <1>1, <3>2
      <4> QED BY <2>1, <2>3, <4>1, WrittenInside
    <3> QED BY <3>1, <3>2
  <2>5. Nothing \in ToSet(WrittenAt(p, depth).items)
    BY <1>1, <2>2, <2>3, <2>4, WrittenInside
  <2>6. w \in W /\ \A x \in W : x.items \in Seq(W)
    <3>1. w = WrittenAt(c, 0)
      BY DEF WrittenAt
    <3> QED BY <3>1, WrittenNodesClosed DEF WrittenNodes
  <2> HIDE DEF w, W
  <2>7. /\ ToSet(Level(w, 0)) = {w}
        /\ \A n \in 0..2 : \A x :
             x \in ToSet(Level(w, n + 1)) <=> \E q \in ToSet(Level(w, n)) : x \in ToSet(q.items)
    BY <2>6, Levels
  <2>8. Reached(0)
    BY <1>6, <2>7 DEF WrittenAt, w
  <2>9. ASSUME NEW n \in 0..depth, n < depth, Reached(n) PROVE Reached(n + 1)
    <3>1. n \in 0..2 /\ n \in 0..3
      BY <1>1, <2>9
    <3>2. TAKE x \in A(n + 1)
    <3>3. PICK q \in A(n) : x \in ToSet(q.items)
      BY <1>7, <3>1
    <3>4. q \in S /\ Finite(q) = q
      BY <1>8, <1>10, <3>1
    <3>5. WrittenAt(x, n + 1) \in ToSet(WrittenAt(q, n).items)
      BY <3>1, <3>3, <3>4, WrittenInside
    <3> QED BY <2>7, <2>9, <3>1, <3>5
  <2> HIDE DEF Reached
  <2>10. Reached(depth)
    <3>1. depth \in Nat /\ 0 \in T /\ \A n \in 0..depth : n < depth /\ n \in T => n + 1 \in T
      BY <1>1, <2>8, <2>9
    <3> HIDE DEF T
    <3>2. 0..depth \subseteq T
      BY <3>1, UpTo
    <3> USE DEF T
    <3> QED BY <1>1, <3>2
  <2> QED BY <2>2, <2>5, <2>10 DEF Reached, w, depth
<1> QED BY <1>13, <1>14

\* The geometry the browser accepts passes the server as it is written.
LEMMA PlacePasses ==
  ASSUME NEW S, Closed(S), S = Nodes \/ \A m \in S : Finite(m) = m,
         NEW g, g = [type |-> g.type, coordinates |-> g.coordinates], g.coordinates \in S,
         CheckGeometry(g) = "valid", NEW h, h = [g EXCEPT !.coordinates = Written(@)]
  PROVE  Passes(h)
<1> DEFINE type == g.type
           c == g.coordinates
<1>1. g # None /\ type \in DOMAIN Depth /\ CheckStructure(c, Depth[type], type)
  BY DEF CheckGeometry
<1>2. h = [type |-> type, coordinates |-> Written(c)]
  OBVIOUS
<1>3. CASE Written(c) = c
  <2>1. h = g
    BY <1>2, <1>3
  <2>2. \A m \in S : m.items \in Seq(S)
    BY ItemsAreNodes
  <2>3. ValidateGeometry(g) = "valid"
    BY <2>2, SameRules
  <2> QED BY <2>1, <2>3 DEF Passes
<1>4. CASE Written(c) # c
  <2>1. \E p \in ToSet(Level(Written(c), Depth[type])) : Nothing \in ToSet(p.items)
    BY <1>1, <1>4, WrittenStructure
  <2>2. h.type = type /\ h.coordinates = Written(c)
    BY <1>2
  <2>3. WroteNull(h)
    BY <2>1, <2>2 DEF WroteNull
  <2>4. S = Nodes
    BY <1>4, AllFinite
  <2>5. h # None
    BY <1>1, <1>2, <2>4, FilesAssumption
  <2> QED BY <1>1, <2>2, <2>3, <2>5 DEF Passes
<1> QED BY <1>3, <1>4

\* The nodes a geometry of a sound draft is made of.
LEMMA Places ==
  ASSUME NEW draft, Sound(draft), NEW f \in ToSet(draft.features), f.geometry # None
  PROVE  \E S : /\ Closed(S) /\ f.geometry.coordinates \in S
                /\ S = Nodes \/ \A m \in S : Finite(m) = m
                /\ f.geometry = [type |-> f.geometry.type, coordinates |-> f.geometry.coordinates]
<1> DEFINE g == f.geometry
<1>1. CASE ~draft.derives
  BY <1>1, NodesAssumption DEF Sound, IsGeometry
<1>2. CASE draft.derives
  <2> DEFINE a == f.properties[draft.lon].v
             b == f.properties[draft.lat].v
             x == Number(a)
             y == Number(b)
             c == List(<<x, y>>)
             S == {x, y, c}
  <2>1. g = BuildPoint(f.properties, draft.lon, draft.lat)
    BY <1>2 DEF Sound
  <2>2. g = [type |-> "Point", coordinates |-> c] /\ a < Infinite /\ b < Infinite
    BY <2>1 DEF BuildPoint
  <2>3. x.v = a /\ y.v = b /\ x.items = <<>> /\ y.items = <<>> /\ c.items = <<x, y>> /\ c.k = "list"
    BY DEF Number, List
  <2>4. x = Number(x.v) /\ y = Number(y.v) /\ c = List(c.items)
    BY <2>3
  <2>5. Finite(x) = x /\ Finite(y) = y /\ Finite(c) = c
    BY <2>2, <2>3 DEF Finite, Infinite
  <2> HIDE DEF x, y, c
  <2>6. <<x, y>> \in Seq(S) /\ <<>> \in Seq(S)
    OBVIOUS
  <2>7. Closed(S) /\ c \in S
    BY <2>3, <2>4, <2>6 DEF Closed
  <2>8. \A m \in S : Finite(m) = m
    BY <2>5
  <2>9. g.coordinates = c /\ g = [type |-> g.type, coordinates |-> g.coordinates]
    BY <2>2
  <2> QED BY <2>7, <2>8, <2>9
<1> QED BY <1>1, <1>2 DEF Sound, IsDraft

LEMMA ConfirmedPasses ==
  ASSUME NEW draft, Sound(draft), NEW i \in DOMAIN draft.features,
         CheckGeometry(draft.features[i].geometry) = "valid"
  PROVE  Passes(ToFeatureCollection(draft)[i].geometry)
<1> DEFINE f == draft.features[i]
           g == f.geometry
           h == [g EXCEPT !.coordinates = Written(@)]
<1>1. g # None
  BY DEF CheckGeometry
<1>2. f \in ToSet(draft.features)
  BY DEF ToSet
<1>3. f = [id |-> f.id, geometry |-> f.geometry, properties |-> f.properties]
  BY <1>2 DEF Sound, IsDraft
<1>4. ToFeatureCollection(draft)[i] = [f EXCEPT !.geometry = h]
  <2>1. ToFeatureCollection(draft)[i] = [f EXCEPT !.geometry = WrittenGeometry(g)]
    BY DEF ToFeatureCollection
  <2> HIDE DEF f, g
  <2>2. WrittenGeometry(g) = h
    BY <1>1 DEF WrittenGeometry
  <2> QED BY <2>1, <2>2
<1>5. ToFeatureCollection(draft)[i].geometry = h
  BY <1>3, <1>4
<1>6. PICK S : /\ Closed(S) /\ g.coordinates \in S
               /\ S = Nodes \/ \A m \in S : Finite(m) = m
               /\ g = [type |-> g.type, coordinates |-> g.coordinates]
  BY <1>1, <1>2, Places
<1> HIDE DEF f, g
<1>7. CheckGeometry(g) = "valid"
  BY DEF f, g
<1>8. PICK k : k = h
  OBVIOUS
<1>9. Passes(k)
  BY <1>6, <1>7, <1>8, PlacePasses
<1> QED BY <1>5, <1>8, <1>9

-----------------------------------------------------------------------------
(***************************************************************************)
(* What the commands keep                                                  *)
(***************************************************************************)
LEMMA DerivedIsSound ==
  ASSUME NEW draft, IsDraft(draft), None \notin Names(draft),
         \A i, j \in DOMAIN draft.columns : draft.columns[i].name = draft.columns[j].name => i = j,
         \A f \in ToSet(draft.features) : DOMAIN f.properties \subseteq Names(draft),
         draft.derives => {draft.lon, draft.lat} \subseteq Names(draft) \cup {None},
         ~draft.derives => \A f \in ToSet(draft.features) : IsGeometry(f.geometry)
  PROVE  Sound(Derived(draft))
<1>1. CASE ~draft.derives
  <2>1. Derived(draft) = draft
    BY <1>1 DEF Derived
  <2> QED BY <1>1, <2>1 DEF Sound
<1>2. CASE draft.derives
  <2> DEFINE d == Derived(draft)
             point(f) == BuildPoint(f.properties, draft.lon, draft.lat)
             features == [i \in DOMAIN draft.features |-> [draft.features[i] EXCEPT !.geometry = point(draft.features[i])]]
  <2>1. d = [draft EXCEPT !.features = features]
    BY <1>2 DEF Derived
  <2>2. /\ draft = [derives |-> draft.derives, columns |-> draft.columns, features |-> draft.features,
                    lon |-> draft.lon, lat |-> draft.lat]
        /\ draft.columns \in Seq(ToSet(draft.columns)) /\ draft.features \in Seq(ToSet(draft.features))
        /\ \A c \in ToSet(draft.columns) : c = [name |-> c.name, mixed |-> c.mixed, type |-> c.type]
    BY DEF IsDraft
  <2>3. d = [derives |-> draft.derives, columns |-> draft.columns, features |-> features,
             lon |-> draft.lon, lat |-> draft.lat]
    BY <2>1, <2>2
  <2> HIDE DEF d
  <2>4. /\ d.derives = draft.derives /\ d.columns = draft.columns /\ d.features = features
        /\ d.lon = draft.lon /\ d.lat = draft.lat
    BY <2>3
  <2>5. ASSUME NEW i \in DOMAIN draft.features
        PROVE  LET e == draft.features[i]
                   f == features[i]
               IN /\ f = [id |-> e.id, geometry |-> point(e), properties |-> e.properties]
                  /\ e.properties = [n \in DOMAIN e.properties |-> e.properties[n]]
                  /\ DOMAIN e.properties \subseteq Names(draft)
    <3>1. draft.features[i] \in ToSet(draft.features)
      BY DEF ToSet
    <3>2. PICK e : e = draft.features[i]
      OBVIOUS
    <3>3. features[i] = [e EXCEPT !.geometry = point(e)]
      BY <3>2
    <3>4. e = [id |-> e.id, geometry |-> e.geometry, properties |-> e.properties]
      BY <3>1, <3>2 DEF IsDraft
    <3>5. features[i] = [id |-> e.id, geometry |-> point(e), properties |-> e.properties]
      BY <3>3, <3>4
    <3>6. e.properties = [n \in DOMAIN e.properties |-> e.properties[n]]
      BY <3>1, <3>2 DEF IsDraft
    <3>7. DOMAIN e.properties \subseteq Names(draft)
      BY <3>1, <3>2
    <3> QED BY <3>2, <3>5, <3>6, <3>7
  <2>6. DOMAIN features = DOMAIN draft.features /\ features \in Seq(ToSet(features))
    <3>1. DOMAIN draft.features = 1..Len(draft.features) /\ Len(draft.features) \in Nat
      BY <2>2
    <3>2. DOMAIN features = 1..Len(draft.features) /\ features = [i \in DOMAIN features |-> features[i]]
      BY <3>1
    <3> HIDE DEF features
    <3> QED BY <3>1, <3>2, SequenceOfMembers
  <2> HIDE DEF features
  <2>7. ASSUME NEW f \in ToSet(features)
        PROVE  /\ f = [id |-> f.id, geometry |-> f.geometry, properties |-> f.properties]
               /\ f.properties = [n \in DOMAIN f.properties |-> f.properties[n]]
               /\ DOMAIN f.properties \subseteq Names(draft)
               /\ f.geometry = point(f)
    <3>1. PICK i \in DOMAIN draft.features : f = features[i]
      BY <2>6 DEF ToSet
    <3>2. PICK e : e = draft.features[i]
      OBVIOUS
    <3>3. /\ f = [id |-> e.id, geometry |-> point(e), properties |-> e.properties]
          /\ e.properties = [n \in DOMAIN e.properties |-> e.properties[n]]
          /\ DOMAIN e.properties \subseteq Names(draft)
      BY <2>5, <3>1, <3>2
    <3> HIDE DEF point
    <3>4. f.properties = e.properties /\ f.geometry = point(e) /\ f.id = e.id
      BY <3>3
    <3>5. point(f) = point(e)
      BY <3>4 DEF point
    <3> QED BY <3>3, <3>4, <3>5
  <2>8. Names(d) = Names(draft)
    BY <2>4 DEF Names
  <2> HIDE DEF point
  <2>9. IsDraft(d)
    BY <2>2, <2>3, <2>4, <2>6, <2>7 DEF IsDraft
  <2>10. \A f \in ToSet(d.features) : f.geometry = BuildPoint(f.properties, d.lon, d.lat)
    BY <2>4, <2>7 DEF point
  <2> QED BY <1>2, <2>4, <2>7, <2>8, <2>9, <2>10 DEF Sound, d
<1> QED BY <1>1, <1>2 DEF IsDraft

LEMMA OwnMembers ==
  ASSUME NEW S, NEW s \in Seq(S)
  PROVE  s \in Seq(ToSet(s)) /\ ToSet(s) \subseteq S
<1>1. DOMAIN s = 1..Len(s) /\ Len(s) \in Nat /\ s = [i \in DOMAIN s |-> s[i]] /\ \A i \in DOMAIN s : s[i] \in S
  OBVIOUS
<1>2. s \in Seq(ToSet(s))
  BY <1>1, SequenceOfMembers
<1> QED BY <1>1, <1>2 DEF ToSet

\* What a draft is made of, place by place.
LEMMA DraftParts ==
  ASSUME NEW draft, Sound(draft)
  PROVE  /\ draft = [derives |-> draft.derives, columns |-> draft.columns, features |-> draft.features,
                     lon |-> draft.lon, lat |-> draft.lat]
         /\ draft.derives \in BOOLEAN
         /\ Len(draft.columns) \in Nat /\ DOMAIN draft.columns = 1..Len(draft.columns)
         /\ Len(draft.features) \in Nat /\ DOMAIN draft.features = 1..Len(draft.features)
         /\ Names(draft) = {draft.columns[i].name : i \in DOMAIN draft.columns}
         /\ \A i \in DOMAIN draft.columns : LET c == draft.columns[i] IN
              c \in ToSet(draft.columns) /\ c = [name |-> c.name, mixed |-> c.mixed, type |-> c.type]
         /\ \A i \in DOMAIN draft.features : LET f == draft.features[i] IN
              /\ f \in ToSet(draft.features)
              /\ f = [id |-> f.id, geometry |-> f.geometry, properties |-> f.properties]
              /\ f.properties = [n \in DOMAIN f.properties |-> f.properties[n]]
              /\ DOMAIN f.properties \subseteq Names(draft)
              /\ ~draft.derives => IsGeometry(f.geometry)
<1>1. /\ draft = [derives |-> draft.derives, columns |-> draft.columns, features |-> draft.features,
                  lon |-> draft.lon, lat |-> draft.lat]
      /\ draft.derives \in BOOLEAN
      /\ draft.columns \in Seq(ToSet(draft.columns)) /\ draft.features \in Seq(ToSet(draft.features))
      /\ \A c \in ToSet(draft.columns) : c = [name |-> c.name, mixed |-> c.mixed, type |-> c.type]
      /\ \A f \in ToSet(draft.features) :
           /\ f = [id |-> f.id, geometry |-> f.geometry, properties |-> f.properties]
           /\ f.properties = [n \in DOMAIN f.properties |-> f.properties[n]]
           /\ DOMAIN f.properties \subseteq Names(draft)
           /\ ~draft.derives => IsGeometry(f.geometry)
  BY DEF Sound, IsDraft
<1>2. /\ Len(draft.columns) \in Nat /\ DOMAIN draft.columns = 1..Len(draft.columns)
      /\ Len(draft.features) \in Nat /\ DOMAIN draft.features = 1..Len(draft.features)
  BY <1>1
<1>3. /\ \A i \in DOMAIN draft.columns : draft.columns[i] \in ToSet(draft.columns)
      /\ \A i \in DOMAIN draft.features : draft.features[i] \in ToSet(draft.features)
  BY DEF ToSet
<1>4. Names(draft) = {draft.columns[i].name : i \in DOMAIN draft.columns}
  BY DEF Names, ToSet
<1>5. ASSUME NEW i \in DOMAIN draft.features
      PROVE  LET f == draft.features[i] IN
              /\ f \in ToSet(draft.features)
              /\ f = [id |-> f.id, geometry |-> f.geometry, properties |-> f.properties]
              /\ f.properties = [n \in DOMAIN f.properties |-> f.properties[n]]
              /\ DOMAIN f.properties \subseteq Names(draft)
              /\ ~draft.derives => IsGeometry(f.geometry)
  <2>1. PICK f : f = draft.features[i]
    OBVIOUS
  <2>2. f \in ToSet(draft.features)
    BY <1>3, <2>1
  <2> QED BY <1>1, <2>1, <2>2
<1>6. ASSUME NEW i \in DOMAIN draft.columns
      PROVE  LET c == draft.columns[i] IN
              c \in ToSet(draft.columns) /\ c = [name |-> c.name, mixed |-> c.mixed, type |-> c.type]
  BY <1>1, <1>3
<1> QED BY <1>1, <1>2, <1>4, <1>5, <1>6

ColumnNames(columns) == {columns[i].name : i \in DOMAIN columns}
IsColumn(c) == c = [name |-> c.name, mixed |-> c.mixed, type |-> c.type]
AreColumns(columns, names) ==
  /\ columns \in Seq(ToSet(columns))
  /\ \A i \in DOMAIN columns : IsColumn(columns[i])
  /\ \A i, j \in DOMAIN columns : columns[i].name = columns[j].name => i = j
  /\ names = ColumnNames(columns) /\ None \notin names

IsFeature(f, derives, names) ==
  /\ f = [id |-> f.id, geometry |-> f.geometry, properties |-> f.properties]
  /\ f.properties = [k \in DOMAIN f.properties |-> f.properties[k]]
  /\ DOMAIN f.properties \subseteq names
  /\ ~derives => IsGeometry(f.geometry)
AreFeatures(features, derives, names) ==
  features \in Seq(ToSet(features)) /\ \A i \in DOMAIN features : IsFeature(features[i], derives, names)

AreCoordinates(lon, lat, derives, names) == derives => {lon, lat} \subseteq names \cup {None}
ArePoints(features, derives, lon, lat) ==
  derives => \A f \in ToSet(features) : f.geometry = BuildPoint(f.properties, lon, lat)

\* A draft made of such parts is sound once its points are derived.
LEMMA MadeOfParts ==
  ASSUME NEW columns, NEW names, AreColumns(columns, names), NEW derives \in BOOLEAN,
         NEW features, AreFeatures(features, derives, names),
         NEW lon, NEW lat, AreCoordinates(lon, lat, derives, names),
         NEW d, d = [derives |-> derives, columns |-> columns, features |-> features, lon |-> lon, lat |-> lat]
  PROVE  /\ Sound(Derived(d))
         /\ ArePoints(features, derives, lon, lat) => Sound(d)
<1>1. d.derives = derives /\ d.columns = columns /\ d.features = features /\ d.lon = lon /\ d.lat = lat
  OBVIOUS
<1>2. Names(d) = names
  BY <1>1 DEF Names, ToSet, ColumnNames, AreColumns
<1>3. \A c \in ToSet(columns) : IsColumn(c)
  BY DEF ToSet, AreColumns
<1>4. \A f \in ToSet(features) : IsFeature(f, derives, names)
  BY DEF ToSet, AreFeatures
<1>5. IsDraft(d)
  BY <1>1, <1>3, <1>4 DEF IsDraft, IsColumn, IsFeature, AreColumns, AreFeatures
<1>6. /\ IsDraft(d) /\ None \notin Names(d)
      /\ \A i, j \in DOMAIN d.columns : d.columns[i].name = d.columns[j].name => i = j
      /\ \A f \in ToSet(d.features) : DOMAIN f.properties \subseteq Names(d)
      /\ d.derives => {d.lon, d.lat} \subseteq Names(d) \cup {None}
      /\ ~d.derives => \A f \in ToSet(d.features) : IsGeometry(f.geometry)
  BY <1>1, <1>2, <1>4, <1>5 DEF IsFeature, AreColumns, AreCoordinates
<1>7. Sound(Derived(d))
  BY <1>6, DerivedIsSound
<1>8. ArePoints(features, derives, lon, lat) => Sound(d)
  BY <1>1, <1>6 DEF Sound, ArePoints
<1> QED BY <1>7, <1>8

\* A sound draft is made of them.
LEMMA PartsOf ==
  ASSUME NEW draft, Sound(draft)
  PROVE  /\ draft.derives \in BOOLEAN
         /\ AreColumns(draft.columns, Names(draft))
         /\ AreFeatures(draft.features, draft.derives, Names(draft))
         /\ AreCoordinates(draft.lon, draft.lat, draft.derives, Names(draft))
         /\ ArePoints(draft.features, draft.derives, draft.lon, draft.lat)
<1>1. \A i \in DOMAIN draft.columns : IsColumn(draft.columns[i])
  BY DraftParts DEF IsColumn
<1>2. \A i \in DOMAIN draft.features : IsFeature(draft.features[i], draft.derives, Names(draft))
  BY DraftParts DEF IsFeature
<1>3. Names(draft) = ColumnNames(draft.columns)
  BY DraftParts DEF ColumnNames
<1> QED BY <1>1, <1>2, <1>3
        DEF Sound, IsDraft, AreColumns, AreFeatures, AreCoordinates, ArePoints

\* A command as the preview makes it, of the draft it is applied to.
Legal(draft, c) ==
  \/ c.op = "cell" /\ c.column \in Names(draft)
  \/ c.op = "add" /\ c.name \notin Names(draft) \cup {None}
  \/ c.op = "rename" /\ c.from # None /\ c.to \notin Names(draft) \cup {None}
  \/ c.op = "delete"
  \/ c.op = "coordinates" /\ {c.lon, c.lat} \subseteq Names(draft) \cup {None}

LEMMA DraftWith ==
  ASSUME NEW draft, Sound(draft), NEW columns, NEW features
  PROVE  /\ [draft EXCEPT !.columns = columns] =
              [derives |-> draft.derives, columns |-> columns, features |-> draft.features,
               lon |-> draft.lon, lat |-> draft.lat]
         /\ [draft EXCEPT !.features = features] =
              [derives |-> draft.derives, columns |-> draft.columns, features |-> features,
               lon |-> draft.lon, lat |-> draft.lat]
<1>1. PICK a, b, f, x, y : draft = [derives |-> a, columns |-> b, features |-> f, lon |-> x, lat |-> y]
  BY DraftParts
<1>2. draft.derives = a /\ draft.columns = b /\ draft.features = f /\ draft.lon = x /\ draft.lat = y
  BY <1>1
<1>3. [draft EXCEPT !.columns = columns] =
        [derives |-> a, columns |-> columns, features |-> f, lon |-> x, lat |-> y]
  BY <1>1
<1>4. [draft EXCEPT !.features = features] =
        [derives |-> a, columns |-> b, features |-> features, lon |-> x, lat |-> y]
  BY <1>1
<1> QED BY <1>2, <1>3, <1>4

LEMMA CellIsSound ==
  ASSUME NEW draft, Sound(draft), NEW c, c.column \in Names(draft)
  PROVE  Sound(SetCell(draft, c))
<1> DEFINE names == Names(draft)
           columns == draft.columns
           Set(p) == [n \in DOMAIN p \cup {c.column} |-> IF n = c.column THEN c.value ELSE p[n]]
           features == [i \in DOMAIN draft.features |->
                          IF draft.features[i].id = c.id
                            THEN [draft.features[i] EXCEPT !.properties = Set(draft.features[i].properties)]
                            ELSE draft.features[i]]
           d == [draft EXCEPT !.features = features]
<1>1. SetCell(draft, c) = Derived(d)
  BY DEF SetCell
<1>2. d = [derives |-> draft.derives, columns |-> columns, features |-> features, lon |-> draft.lon, lat |-> draft.lat]
  <2> HIDE DEF features
  <2> QED BY DraftWith
<1>3. ASSUME NEW i \in DOMAIN features PROVE IsFeature(features[i], draft.derives, names)
  <2>1. PICK e : e = draft.features[i]
    OBVIOUS
  <2>2. IsFeature(e, draft.derives, names)
    BY <2>1, DraftParts DEF IsFeature
  <2>3. PICK f : f = features[i]
    OBVIOUS
  <2>4. CASE e.id # c.id
    BY <2>1, <2>2, <2>3, <2>4
  <2>5. CASE e.id = c.id
    <3>1. f = [e EXCEPT !.properties = Set(e.properties)]
      BY <2>1, <2>3, <2>5
    <3>2. Set(e.properties) = [k \in DOMAIN Set(e.properties) |-> Set(e.properties)[k]]
      OBVIOUS
    <3>3. DOMAIN Set(e.properties) \subseteq names
      BY <2>2 DEF IsFeature
    <3> HIDE DEF Set, features
    <3>4. f = [id |-> e.id, geometry |-> e.geometry, properties |-> Set(e.properties)]
      BY <2>2, <3>1 DEF IsFeature
    <3>5. f.id = e.id /\ f.geometry = e.geometry /\ f.properties = Set(e.properties)
      BY <3>4
    <3>6. f = [id |-> f.id, geometry |-> f.geometry, properties |-> f.properties]
      BY <3>4, <3>5
    <3>7. f.properties = [k \in DOMAIN f.properties |-> f.properties[k]]
      BY <3>2, <3>5
    <3> QED BY <2>2, <2>3, <3>3, <3>5, <3>6, <3>7 DEF IsFeature
  <2> QED BY <2>4, <2>5
<1>4. features \in Seq(ToSet(features))
  <2>1. /\ Len(draft.features) \in Nat /\ DOMAIN features = 1..Len(draft.features)
        /\ features = [i \in DOMAIN features |-> features[i]]
    BY DraftParts
  <2> HIDE DEF features
  <2> QED BY <2>1, SequenceOfMembers
<1> HIDE DEF features, d
<1>5. AreFeatures(features, draft.derives, names)
  BY <1>3, <1>4 DEF AreFeatures
<1>6. Sound(Derived(d))
  BY <1>2, <1>5, PartsOf, MadeOfParts
<1> QED BY <1>1, <1>6

LEMMA AddIsSound ==
  ASSUME NEW draft, Sound(draft), NEW c, c.name \notin Names(draft) \cup {None}
  PROVE  Sound(AddColumn(draft, c))
<1> DEFINE new == [name |-> c.name, mixed |-> FALSE, type |-> "text"]
           n == Len(draft.columns)
           columns == Append(draft.columns, new)
           names == Names(draft) \cup {c.name}
           features == draft.features
           d == [derives |-> draft.derives, columns |-> columns, features |-> features, lon |-> draft.lon, lat |-> draft.lat]
<1>1. AddColumn(draft, c) = d
  <2>1. AddColumn(draft, c) = [draft EXCEPT !.columns = columns]
    BY DEF AddColumn
  <2> HIDE DEF columns
  <2> QED BY <2>1, DraftWith
<1>2. /\ n \in Nat /\ draft.columns \in Seq(ToSet(draft.columns)) /\ DOMAIN draft.columns = 1..n
      /\ \A i \in 1..n : IsColumn(draft.columns[i])
      /\ \A i, j \in 1..n : draft.columns[i].name = draft.columns[j].name => i = j
      /\ Names(draft) = {draft.columns[i].name : i \in 1..n}
      /\ None \notin Names(draft) /\ draft.derives \in BOOLEAN
      /\ features \in Seq(ToSet(features))
  <2>1. n \in Nat /\ DOMAIN draft.columns = 1..n /\ draft.derives \in BOOLEAN
    BY DraftParts
  <2>2. \A i \in DOMAIN draft.columns : IsColumn(draft.columns[i])
    BY DraftParts DEF IsColumn
  <2>3. Names(draft) = {draft.columns[i].name : i \in DOMAIN draft.columns}
    BY DraftParts
  <2>4. /\ \A i, j \in DOMAIN draft.columns : draft.columns[i].name = draft.columns[j].name => i = j
        /\ None \notin Names(draft)
        /\ draft.columns \in Seq(ToSet(draft.columns)) /\ features \in Seq(ToSet(features))
    BY DEF Sound, IsDraft
  <2> HIDE DEF n, features
  <2> QED BY <2>1, <2>2, <2>3, <2>4
<1>3. /\ columns \in Seq(ToSet(draft.columns) \cup {new}) /\ DOMAIN columns = 1..(n + 1)
      /\ \A i \in 1..n : columns[i] = draft.columns[i]
      /\ columns[n + 1] = new
  <2> HIDE DEF new
  <2>1. draft.columns \in Seq(ToSet(draft.columns) \cup {new}) /\ new \in ToSet(draft.columns) \cup {new}
    BY <1>2
  <2> QED BY <1>2, <2>1
<1>4. new.name = c.name /\ IsColumn(new)
  BY DEF IsColumn
<1>5. \A i \in 1..(n + 1) : i \in 1..n \/ i = n + 1
  BY <1>2
<1> HIDE DEF columns, new
<1>6. columns \in Seq(ToSet(columns))
  BY <1>3, OwnMembers
<1>7. \A i \in DOMAIN columns : IsColumn(columns[i])
  BY <1>2, <1>3, <1>4, <1>5
<1>8. ASSUME NEW i \in DOMAIN columns, NEW j \in DOMAIN columns, columns[i].name = columns[j].name PROVE i = j
  BY <1>2, <1>3, <1>4, <1>5, <1>8
<1>9. names = ColumnNames(columns) /\ None \notin names
  <2>1. n + 1 \in DOMAIN columns /\ \A i \in 1..n : i \in DOMAIN columns
    BY <1>2, <1>3
  <2>2. ASSUME NEW x \in Names(draft) PROVE x \in ColumnNames(columns)
    <3>1. PICK i \in 1..n : x = draft.columns[i].name
      BY <1>2
    <3> QED BY <1>3, <2>1, <3>1 DEF ColumnNames
  <2>3. c.name \in ColumnNames(columns)
    BY <1>3, <1>4, <2>1 DEF ColumnNames
  <2>4. \A i \in DOMAIN columns : columns[i].name \in names
    BY <1>2, <1>3, <1>4, <1>5
  <2>5. ColumnNames(columns) \subseteq names
    BY <2>4 DEF ColumnNames
  <2> QED BY <1>2, <2>2, <2>3, <2>5
<1>10. AreColumns(columns, names)
  BY <1>6, <1>7, <1>8, <1>9 DEF AreColumns
<1>11. /\ draft.derives \in BOOLEAN
       /\ AreFeatures(features, draft.derives, names)
       /\ AreCoordinates(draft.lon, draft.lat, draft.derives, names)
       /\ ArePoints(features, draft.derives, draft.lon, draft.lat)
  BY PartsOf DEF AreFeatures, IsFeature, AreCoordinates
<1> HIDE DEF names
<1>12. Sound(d)
  BY <1>10, <1>11, MadeOfParts
<1> QED BY <1>1, <1>12

LEMMA DeleteIsSound ==
  ASSUME NEW draft, Sound(draft), NEW c
  PROVE  Sound(DeleteFeatures(draft, c))
<1> DEFINE S == ToSet(draft.features)
           ss == [i \in DOMAIN draft.features |->
                    IF draft.features[i].id \in c.ids THEN <<>> ELSE <<draft.features[i]>>]
           features == FlattenSeq(ss)
           d == [derives |-> draft.derives, columns |-> draft.columns, features |-> features, lon |-> draft.lon, lat |-> draft.lat]
<1>1. DeleteFeatures(draft, c) = d
  <2>1. DeleteFeatures(draft, c) = [draft EXCEPT !.features = features]
    BY DEF DeleteFeatures
  <2> HIDE DEF features
  <2> QED BY <2>1, DraftWith
<1>2. ss \in Seq(Seq(S))
  <2>1. Len(draft.features) \in Nat /\ DOMAIN draft.features = 1..Len(draft.features)
    BY DraftParts
  <2>2. ASSUME NEW i \in DOMAIN draft.features PROVE ss[i] \in Seq(S)
    <3>1. PICK e : e = draft.features[i]
      OBVIOUS
    <3>2. e \in S
      BY <3>1, DraftParts
    <3> HIDE DEF S
    <3>3. <<e>> \in Seq(S) /\ <<>> \in Seq(S)
      BY <3>2
    <3> QED BY <3>1, <3>3
  <2>3. DOMAIN ss = 1..Len(draft.features) /\ ss = [i \in DOMAIN ss |-> ss[i]]
    BY <2>1
  <2> HIDE DEF S, ss
  <2>4. ss \in [1..Len(draft.features) -> Seq(S)]
    BY <2>1, <2>2, <2>3
  <2> QED BY <2>1, <2>4
<1> HIDE DEF ss, S
<1>3. features \in Seq(S)
  BY <1>2, Flattened
<1> HIDE DEF features
<1>4. features \in Seq(ToSet(features)) /\ ToSet(features) \subseteq S
  BY <1>3, OwnMembers
<1>5. /\ \A f \in S : IsFeature(f, draft.derives, Names(draft))
      /\ ArePoints(features, draft.derives, draft.lon, draft.lat)
  BY <1>4, PartsOf DEF S, AreFeatures, ArePoints, ToSet
<1>6. AreFeatures(features, draft.derives, Names(draft))
  BY <1>4, <1>5 DEF AreFeatures, ToSet
<1>7. Sound(d)
  BY <1>5, <1>6, PartsOf, MadeOfParts
<1> QED BY <1>1, <1>7

LEMMA CoordinatesAreSound ==
  ASSUME NEW draft, Sound(draft), NEW c, {c.lon, c.lat} \subseteq Names(draft) \cup {None}
  PROVE  Sound(SetGeometryColumns(draft, c))
<1> DEFINE d == [derives |-> draft.derives, columns |-> draft.columns, features |-> draft.features, lon |-> c.lon, lat |-> c.lat]
<1>1. SetGeometryColumns(draft, c) = Derived(d)
  BY DEF SetGeometryColumns
<1>2. AreCoordinates(c.lon, c.lat, draft.derives, Names(draft))
  BY DEF AreCoordinates
<1>3. Sound(Derived(d))
  BY <1>2, PartsOf, MadeOfParts
<1> QED BY <1>1, <1>3

LEMMA RenameIsSound ==
  ASSUME NEW draft, Sound(draft), NEW c, c.from # None, c.to \notin Names(draft) \cup {None}
  PROVE  Sound(RenameColumn(draft, c))
<1> DEFINE R(n) == Renamed(n, c)
           Moved(p) == [n \in {R(m) : m \in DOMAIN p} |-> IF n = c.to /\ c.from \in DOMAIN p THEN p[c.from] ELSE p[n]]
           columns == [i \in DOMAIN draft.columns |-> [draft.columns[i] EXCEPT !.name = R(draft.columns[i].name)]]
           features == [i \in DOMAIN draft.features |->
                          [draft.features[i] EXCEPT !.properties = Moved(draft.features[i].properties)]]
           names == {R(n) : n \in Names(draft)}
           d == [derives |-> draft.derives, columns |-> columns, features |-> features,
                 lon |-> CoordinateColumn(draft.lon, c), lat |-> CoordinateColumn(draft.lat, c)]
<1>1. RenameColumn(draft, c) = Derived(d)
  BY DEF RenameColumn
<1>2. /\ R(None) = None
      /\ \A n \in Names(draft) : R(n) # None
      /\ \A m, n \in Names(draft) : R(m) = R(n) => m = n
  BY DEF Renamed, Sound
<1> HIDE DEF R
<1>3. ASSUME NEW i \in DOMAIN draft.columns
      PROVE  columns[i].name = R(draft.columns[i].name) /\ IsColumn(columns[i])
  <2>1. PICK e : e = draft.columns[i]
    OBVIOUS
  <2>2. e = [name |-> e.name, mixed |-> e.mixed, type |-> e.type]
    BY <2>1, DraftParts
  <2>3. columns[i] = [e EXCEPT !.name = R(e.name)]
    BY <2>1
  <2> HIDE DEF columns
  <2>4. columns[i] = [name |-> R(e.name), mixed |-> e.mixed, type |-> e.type]
    BY <2>2, <2>3
  <2> QED BY <2>1, <2>4 DEF IsColumn
<1>4. ASSUME NEW i \in DOMAIN draft.features PROVE IsFeature(features[i], draft.derives, names)
  <2>1. PICK e : e = draft.features[i]
    OBVIOUS
  <2>2. PICK f : f = features[i]
    OBVIOUS
  <2>3. IsFeature(e, draft.derives, Names(draft))
    BY <2>1, DraftParts DEF IsFeature
  <2>4. f = [e EXCEPT !.properties = Moved(e.properties)]
    BY <2>1, <2>2
  <2>5. Moved(e.properties) = [k \in DOMAIN Moved(e.properties) |-> Moved(e.properties)[k]]
    OBVIOUS
  <2>6. DOMAIN Moved(e.properties) \subseteq names
    BY <2>3 DEF IsFeature
  <2> HIDE DEF Moved, features
  <2>7. f = [id |-> e.id, geometry |-> e.geometry, properties |-> Moved(e.properties)]
    BY <2>3, <2>4 DEF IsFeature
  <2>8. f.id = e.id /\ f.geometry = e.geometry /\ f.properties = Moved(e.properties)
    BY <2>7
  <2>9. f = [id |-> f.id, geometry |-> f.geometry, properties |-> f.properties]
    BY <2>7, <2>8
  <2>10. f.properties = [k \in DOMAIN f.properties |-> f.properties[k]]
    BY <2>5, <2>8
  <2> QED BY <2>2, <2>3, <2>6, <2>8, <2>9, <2>10 DEF IsFeature
<1>5. columns \in Seq(ToSet(columns)) /\ features \in Seq(ToSet(features))
  <2>1. /\ Len(draft.features) \in Nat /\ DOMAIN features = 1..Len(draft.features)
        /\ features = [i \in DOMAIN features |-> features[i]]
        /\ Len(draft.columns) \in Nat /\ DOMAIN columns = 1..Len(draft.columns)
        /\ columns = [i \in DOMAIN columns |-> columns[i]]
    BY DraftParts
  <2> HIDE DEF features, columns
  <2> QED BY <2>1, SequenceOfMembers
<1>6. DOMAIN columns = DOMAIN draft.columns /\ DOMAIN features = DOMAIN draft.features
  OBVIOUS
<1> HIDE DEF columns, features
<1>7. /\ Names(draft) = {draft.columns[i].name : i \in DOMAIN draft.columns} /\ None \notin Names(draft)
      /\ \A i, j \in DOMAIN draft.columns : draft.columns[i].name = draft.columns[j].name => i = j
      /\ draft.derives => {draft.lon, draft.lat} \subseteq Names(draft) \cup {None}
      /\ draft.derives \in BOOLEAN
  BY DraftParts DEF Sound
<1>8. names = ColumnNames(columns) /\ None \notin names
  BY <1>2, <1>3, <1>6, <1>7 DEF ColumnNames
<1>9. ASSUME NEW i \in DOMAIN columns, NEW j \in DOMAIN columns, columns[i].name = columns[j].name PROVE i = j
  <2>1. draft.columns[i].name \in Names(draft) /\ draft.columns[j].name \in Names(draft)
    BY <1>6, <1>7
  <2> QED BY <1>2, <1>3, <1>6, <1>7, <1>9, <2>1
<1>10. AreCoordinates(d.lon, d.lat, draft.derives, names)
  <2>1. \A n : CoordinateColumn(n, c) = R(n)
    BY DEF CoordinateColumn, R
  <2> QED BY <1>2, <1>7, <2>1 DEF AreCoordinates
<1>11. AreColumns(columns, names)
  BY <1>3, <1>5, <1>6, <1>8, <1>9 DEF AreColumns
<1>12. AreFeatures(features, draft.derives, names)
  BY <1>4, <1>5, <1>6 DEF AreFeatures
<1> HIDE DEF names
<1>13. Sound(Derived(d))
  BY <1>7, <1>10, <1>11, <1>12, MadeOfParts
<1> QED BY <1>1, <1>13

\* A legal command leaves a sound draft sound.
LEMMA ApplyIsSound ==
  ASSUME NEW draft, Sound(draft), NEW c, Legal(draft, c)
  PROVE  Sound(Apply(draft, c))
<1>1. CASE c.op = "cell" /\ c.column \in Names(draft)
  BY <1>1, CellIsSound DEF Apply
<1>2. CASE c.op = "add" /\ c.name \notin Names(draft) \cup {None}
  BY <1>2, AddIsSound DEF Apply
<1>3. CASE c.op = "rename" /\ c.from # None /\ c.to \notin Names(draft) \cup {None}
  BY <1>3, RenameIsSound DEF Apply
<1>4. CASE c.op = "delete"
  BY <1>4, DeleteIsSound DEF Apply
<1>5. CASE c.op = "coordinates" /\ {c.lon, c.lat} \subseteq Names(draft) \cup {None}
  BY <1>5, CoordinatesAreSound DEF Apply
<1> QED BY <1>1, <1>2, <1>3, <1>4, <1>5 DEF Legal

-----------------------------------------------------------------------------
(***************************************************************************)
(* Undo and redo                                                           *)
(***************************************************************************)
\* A replay starts with the draft as parsed and applies a command at a time.
LEMMA DraftsSteps ==
  ASSUME NEW b, NEW S, NEW s \in Seq(S)
  PROVE  /\ Drafts(b, s)[0] = b
         /\ \A n \in 1..Len(s) : Drafts(b, s)[n] = Apply(Drafts(b, s)[n - 1], s[n])
<1> DEFINE Step(g, n) == [i \in 0..n |-> IF i = 0 THEN b ELSE Apply(g[i - 1], s[i])]
           drafts == CHOOSE g : g = Step(g, Len(s))
           Has(n) == \E g : g = Step(g, n)
           T == {n \in 0..Len(s) : Has(n)}
<1>1. Len(s) \in Nat
  OBVIOUS
<1>2. Has(0)
  <2> DEFINE g == [i \in 0..0 |-> b]
  <2>1. \A i : i \in 0..0 <=> i = 0
    OBVIOUS
  <2>2. g = [i \in 0..0 |-> IF i = 0 THEN b ELSE Apply(g[i - 1], s[i])]
    BY <2>1
  <2> QED BY <2>2
<1>3. ASSUME NEW m \in 0..Len(s), m < Len(s), Has(m) PROVE Has(m + 1)
  <2>1. PICK g : g = Step(g, m)
    BY <1>3
  <2> DEFINE h == [i \in 0..(m + 1) |-> IF i = 0 THEN b ELSE Apply(g[i - 1], s[i])]
  <2>2. \A i \in 0..(m + 1) : h[i] = IF i = 0 THEN b ELSE Apply(g[i - 1], s[i])
    OBVIOUS
  <2>3. \A i \in 0..m : g[i] = IF i = 0 THEN b ELSE Apply(g[i - 1], s[i])
    BY <2>1
  <2>4. h = [i \in 0..(m + 1) |-> h[i]]
    OBVIOUS
  <2> HIDE DEF h
  <2>5. \A i \in 0..m : h[i] = g[i]
    <3>1. \A i \in 0..m : i \in 0..(m + 1)
      BY <1>1
    <3> QED BY <2>2, <2>3, <3>1
  <2>6. \A i \in 0..(m + 1) : i # 0 => i - 1 \in 0..m
    BY <1>1
  <2>7. \A i \in 0..(m + 1) : h[i] = IF i = 0 THEN b ELSE Apply(h[i - 1], s[i])
    BY <2>2, <2>5, <2>6
  <2>8. h = Step(h, m + 1)
    BY <2>4, <2>7
  <2> QED BY <2>8
<1> HIDE DEF Has
<1>4. Has(Len(s))
  <2>1. 0 \in T /\ \A n \in 0..Len(s) : n < Len(s) /\ n \in T => n + 1 \in T
    BY <1>1, <1>2, <1>3
  <2> HIDE DEF T
  <2>2. 0..Len(s) \subseteq T
    BY <1>1, <2>1, UpTo
  <2> USE DEF T
  <2> QED BY <1>1, <2>2
<1>5. drafts = Step(drafts, Len(s))
  BY <1>4 DEF Has
<1>6. Drafts(b, s) = drafts
  BY DEF Drafts
<1> HIDE DEF drafts
<1>7. \A n \in 0..Len(s) : drafts[n] = IF n = 0 THEN b ELSE Apply(drafts[n - 1], s[n])
  BY <1>5
<1> QED BY <1>1, <1>6, <1>7

\* Two histories lead to the same drafts as long as they are the same.
LEMMA SameDrafts ==
  ASSUME NEW b, NEW S, NEW s \in Seq(S), NEW t \in Seq(S), NEW N \in Nat, N <= Len(s), N <= Len(t),
         \A n \in 1..N : s[n] = t[n]
  PROVE  \A n \in 0..N : Drafts(b, s)[n] = Drafts(b, t)[n]
<1> DEFINE D == Drafts(b, s)
           E == Drafts(b, t)
           T == {n \in 0..N : D[n] = E[n]}
<1>1. D[0] = b /\ E[0] = b
  BY DraftsSteps
<1>2. Len(s) \in Nat /\ Len(t) \in Nat
  OBVIOUS
<1>3. \A n \in 1..N : D[n] = Apply(D[n - 1], s[n]) /\ E[n] = Apply(E[n - 1], t[n])
  <2>1. \A n \in 1..N : n \in 1..Len(s) /\ n \in 1..Len(t)
    BY <1>2
  <2>2. \A n \in 1..Len(s) : D[n] = Apply(D[n - 1], s[n])
    BY DraftsSteps
  <2>3. \A n \in 1..Len(t) : E[n] = Apply(E[n - 1], t[n])
    BY DraftsSteps
  <2> QED BY <2>1, <2>2, <2>3
<1> HIDE DEF D, E
<1>4. ASSUME NEW n \in 0..N, n < N, n \in T PROVE n + 1 \in T
  <2>1. n + 1 \in 1..N /\ n + 1 \in 0..N /\ (n + 1) - 1 = n
    BY <1>4
  <2> QED BY <1>3, <1>4, <2>1
<1>5. 0 \in T
  BY <1>1
<1> HIDE DEF T
<1>6. 0..N \subseteq T
  BY <1>4, <1>5, UpTo
<1> USE DEF T
<1> QED BY <1>6 DEF D, E

LEMMA LastAndFront ==
  ASSUME NEW S, NEW s \in Seq(S), s # <<>>
  PROVE  Front(s) \in Seq(S) /\ Last(s) \in S /\ Append(Front(s), Last(s)) = s
<1>1. Len(s) \in Nat /\ Len(s) >= 1 /\ DOMAIN s = 1..Len(s) /\ s = [i \in 1..Len(s) |-> s[i]]
  OBVIOUS
<1>2. Len(s) - 1 \in Nat /\ Len(s) - 1 <= Len(s)
  BY <1>1
<1>3. Front(s) = SubSeq(s, 1, Len(s) - 1)
  BY DEF Front
<1>4. /\ Front(s) \in Seq(S) /\ Len(Front(s)) = Len(s) - 1
      /\ \A i \in 1..(Len(s) - 1) : Front(s)[i] = s[i]
  BY <1>1, <1>2, <1>3
<1>5. Last(s) = s[Len(s)] /\ Last(s) \in S
  BY <1>1 DEF Last
<1> DEFINE f == Front(s)
           l == Last(s)
           a == Append(f, l)
<1> HIDE DEF f, l
<1>6. /\ a \in Seq(S) /\ Len(a) = Len(s)
      /\ \A i \in 1..(Len(s) - 1) : a[i] = f[i]
      /\ a[Len(s)] = l
  <2>1. f \in Seq(S) /\ l \in S /\ Len(f) = Len(s) - 1
    BY <1>4, <1>5 DEF f, l
  <2>2. /\ a \in Seq(S) /\ Len(a) = Len(f) + 1 /\ a[Len(f) + 1] = l
        /\ \A i \in 1..Len(f) : a[i] = f[i]
    BY <2>1, AppendedAt
  <2>3. Len(f) + 1 = Len(s)
    BY <1>1, <2>1
  <2> HIDE DEF a
  <2> QED BY <2>1, <2>2, <2>3
<1> HIDE DEF a
<1>7. \A i \in 1..Len(s) : a[i] = s[i]
  BY <1>1, <1>4, <1>5, <1>6 DEF f, l
<1>8. a = [i \in 1..Len(s) |-> a[i]]
  BY <1>1, <1>6
<1>9. a = s
  BY <1>1, <1>7, <1>8
<1> QED BY <1>4, <1>5, <1>9 DEF a, f, l

\* A command that goes from one stack to the other keeps its place.
LEMMA SameTimeline ==
  ASSUME NEW S, NEW u \in Seq(S), NEW r \in Seq(S), NEW x \in S
  PROVE  Append(u, x) \o Reverse(r) = u \o Reverse(Append(r, x))
<1> DEFINE m == Len(u)
           k == Len(r)
           s == Append(u, x) \o Reverse(r)
           t == u \o Reverse(Append(r, x))
           rr == Reverse(r)
           rx == Reverse(Append(r, x))
           ux == Append(u, x)
<1>1. m \in Nat /\ k \in Nat
  OBVIOUS
<1>2. /\ ux \in Seq(S) /\ Len(ux) = m + 1 /\ ux[m + 1] = x
      /\ \A i \in 1..m : ux[i] = u[i]
  OBVIOUS
<1>3. /\ Append(r, x) \in Seq(S) /\ Len(Append(r, x)) = k + 1 /\ Append(r, x)[k + 1] = x
      /\ \A i \in 1..k : Append(r, x)[i] = r[i]
  OBVIOUS
<1>4. rr \in Seq(S) /\ Len(rr) = k /\ \A i \in 1..k : rr[i] = r[(k - i) + 1]
  <2>1. rr = [i \in 1..k |-> r[(k - i) + 1]]
    BY DEF Reverse
  <2>2. \A i \in 1..k : r[(k - i) + 1] \in S
    BY <1>1
  <2> QED BY <1>1, <2>1, <2>2
<1> DEFINE rs == Append(r, x)
<1> HIDE DEF rs
<1>5. rx \in Seq(S) /\ Len(rx) = k + 1 /\ \A i \in 1..(k + 1) : rx[i] = rs[((k + 1) - i) + 1]
  <2>1. rx = [i \in 1..(k + 1) |-> rs[((k + 1) - i) + 1]]
    BY <1>3 DEF Reverse, rs
  <2>2. \A i \in 1..(k + 1) : rs[((k + 1) - i) + 1] \in S
    <3>1. rs \in Seq(S) /\ Len(rs) = k + 1
      BY <1>3 DEF rs
    <3>2. \A i \in 1..(k + 1) : ((k + 1) - i) + 1 \in 1..(k + 1)
      BY <1>1
    <3> QED BY <3>1, <3>2
  <2> QED BY <1>1, <2>1, <2>2
<1>6. rs[k + 1] = x /\ \A i \in 1..k : rs[i] = r[i]
  BY <1>3 DEF rs
<1> HIDE DEF ux, rr, rx
<1>7. s = ux \o rr /\ t = u \o rx
  BY DEF ux, rr, rx
<1> HIDE DEF s, t
<1>8. /\ s \in Seq(S) /\ Len(s) = (m + 1) + k
      /\ \A i \in 1..(m + 1) : s[i] = ux[i]
      /\ \A i \in 1..k : s[(m + 1) + i] = rr[i]
  <2>0. ux \in Seq(S) /\ rr \in Seq(S)
    BY <1>2, <1>4
  <2>1. /\ ux \o rr \in Seq(S) /\ Len(ux \o rr) = Len(ux) + Len(rr)
        /\ \A i \in 1..Len(ux) : (ux \o rr)[i] = ux[i]
        /\ \A i \in 1..Len(rr) : (ux \o rr)[Len(ux) + i] = rr[i]
    BY <2>0, JoinedAt
  <2>2. Len(ux) = m + 1 /\ Len(rr) = k
    BY <1>2, <1>4
  <2> HIDE DEF m, k
  <2> QED BY <1>7, <2>1, <2>2
<1>9. /\ t \in Seq(S) /\ Len(t) = m + (k + 1)
      /\ \A i \in 1..m : t[i] = u[i]
      /\ \A i \in 1..(k + 1) : t[m + i] = rx[i]
  <2>1. /\ u \o rx \in Seq(S) /\ Len(u \o rx) = Len(u) + Len(rx)
        /\ \A i \in 1..Len(u) : (u \o rx)[i] = u[i]
        /\ \A i \in 1..Len(rx) : (u \o rx)[Len(u) + i] = rx[i]
    BY <1>5, JoinedAt
  <2>2. rx \in Seq(S) /\ Len(rx) = k + 1 /\ Len(u) = m
    BY <1>5
  <2> HIDE DEF m, k
  <2> QED BY <1>7, <2>1, <2>2
<1> HIDE DEF m, k
<1>10. ASSUME NEW i \in 1..((m + 1) + k) PROVE s[i] = t[i]
  <2>1. CASE i \in 1..m
    <3>1. i \in 1..(m + 1)
      BY <1>1, <2>1
    <3> QED BY <1>2, <1>8, <1>9, <2>1, <3>1
  <2>2. CASE i = m + 1
    <3>1. i \in 1..(m + 1) /\ 1 \in 1..(k + 1) /\ ((k + 1) - 1) + 1 = k + 1
      BY <1>1, <2>2
    <3>2. s[i] = x
      BY <1>2, <1>8, <2>2, <3>1
    <3>3. t[i] = rx[1]
      BY <1>9, <2>2, <3>1
    <3> QED BY <1>5, <1>6, <3>1, <3>2, <3>3
  <2>3. CASE i \notin 1..m /\ i # m + 1
    <3> DEFINE j == i - (m + 1)
    <3>1. /\ j \in 1..k /\ j + 1 \in 1..(k + 1) /\ (m + 1) + j = i /\ m + (j + 1) = i
          /\ ((k + 1) - (j + 1)) + 1 = (k - j) + 1 /\ (k - j) + 1 \in 1..k
      BY <1>1, <2>3
    <3> HIDE DEF j
    <3>2. s[i] = r[(k - j) + 1]
      BY <1>4, <1>8, <3>1
    <3>3. t[i] = rs[(k - j) + 1]
      BY <1>5, <1>9, <3>1
    <3> QED BY <1>6, <3>1, <3>2, <3>3
  <2> QED BY <2>1, <2>2, <2>3
<1>11. s = [i \in 1..((m + 1) + k) |-> s[i]]
  BY <1>8
<1>12. t = [i \in 1..((m + 1) + k) |-> t[i]]
  <2>1. m + (k + 1) = (m + 1) + k
    BY <1>1
  <2> QED BY <1>9, <2>1
<1>13. s = t
  BY <1>10, <1>11, <1>12
<1> QED BY <1>13 DEF s, t

-----------------------------------------------------------------------------
(***************************************************************************)
(* Reading a document                                                      *)
(***************************************************************************)
\* A finite set as a sequence: each member once.
LEMMA Listed ==
  ASSUME NEW S, IsFiniteSet(S)
  PROVE  LET s == SetToSeq(S) IN
         /\ s \in Seq(S)
         /\ \A i, j \in DOMAIN s : s[i] = s[j] => i = j
         /\ S = {s[i] : i \in DOMAIN s}
<1> DEFINE n == Cardinality(S)
           s == SetToSeq(S)
<1>1. n \in Nat /\ \E f : f \in Bijection(1..n, S)
  BY FS_CardinalityType DEF ExistsBijection
<1>2. \E f \in [1..n -> S] : IsInjective(f)
  BY <1>1 DEF Bijection, Injection
<1>3. s \in [1..n -> S] /\ IsInjective(s)
  BY <1>2 DEF SetToSeq
<1> HIDE DEF s
<1>4. s \in Injection(1..n, S)
  BY <1>3 DEF Injection
<1>5. Cardinality(1..n) = n
  BY <1>1, FS_Interval
<1> HIDE DEF n
<1>6. s \in Surjection(1..n, S)
  BY <1>4, <1>5, FS_Injection DEF n
<1>7. S = {s[i] : i \in DOMAIN s}
  BY <1>3, <1>6 DEF Surjection
<1>8. s \in Seq(S)
  BY <1>1, <1>3
<1>9. \A i, j \in DOMAIN s : s[i] = s[j] => i = j
  BY <1>3 DEF IsInjective
<1> QED BY <1>7, <1>8, <1>9 DEF s

LEMMA FirstOfIsOne ==
  ASSUME NEW names, DOMAIN names \subseteq Nat, NEW accepted
  PROVE  FirstOf(names, accepted) \in accepted \cup {None}
<1> DEFINE hits == {i \in DOMAIN names : names[i] \in accepted}
           first == CHOOSE i \in hits : \A j \in hits : i <= j
<1>1. CASE hits = {}
  BY <1>1 DEF FirstOf
<1>2. CASE hits # {}
  <2>1. hits \subseteq Nat
    OBVIOUS
  <2>2. \E i \in hits : \A j \in hits : i <= j
    <3> HIDE DEF hits
    <3> QED BY <1>2, <2>1, LeastExists
  <2>3. first \in hits
    BY <2>2
  <2>4. FirstOf(names, accepted) = names[first]
    BY <1>2 DEF FirstOf
  <2> HIDE DEF first
  <2> QED BY <2>3, <2>4
<1> QED BY <1>1, <1>2

\* The columns of features are the names of their properties.
LEMMA InferredColumns ==
  ASSUME NEW features, features \in Seq(ToSet(features)),
         \A i \in DOMAIN features : IsProperties(features[i].properties)
  PROVE  LET names == UNION {DOMAIN f.properties : f \in ToSet(features)} IN
         /\ AreColumns(InferColumns(features), names)
         /\ \A i \in DOMAIN features : DOMAIN features[i].properties \subseteq names
<1> DEFINE names == UNION {DOMAIN f.properties : f \in ToSet(features)}
           domains == {DOMAIN f.properties : f \in ToSet(features)}
           n == Len(features)
           at == [i \in 1..n |-> DOMAIN features[i].properties]
           s == SetToSeq(names)
           columns == InferColumns(features)
<1>1. n \in Nat /\ DOMAIN features = 1..n
  OBVIOUS
<1>2. ToSet(features) = {features[i] : i \in 1..n}
  BY <1>1 DEF ToSet
<1>3. at \in Surjection(1..n, domains)
  BY <1>2 DEF Surjection
<1>4. IsFiniteSet(1..n)
  BY <1>1, FS_Interval
<1> HIDE DEF at
<1>5. IsFiniteSet(domains)
  BY <1>3, <1>4, FS_Surjection
<1>6. \A d \in domains : IsFiniteSet(d) /\ None \notin d
  <2>1. TAKE d \in domains
  <2>2. PICK f \in ToSet(features) : d = DOMAIN f.properties
    OBVIOUS
  <2>3. PICK i \in DOMAIN features : f = features[i]
    BY DEF ToSet
  <2>4. IsFiniteSet(DOMAIN f.properties) /\ None \notin DOMAIN f.properties
    BY <2>3 DEF IsProperties
  <2> QED BY <2>2, <2>4
<1>7. \A i \in DOMAIN features : DOMAIN features[i].properties \subseteq names
  BY <1>1, <1>2
<1>8. names = UNION domains
  OBVIOUS
<1> HIDE DEF domains, names
<1>9. IsFiniteSet(names)
  BY <1>5, <1>6, <1>8, FS_UNION
<1>10. None \notin names
  BY <1>6, <1>8
<1>11. /\ s \in Seq(names)
       /\ \A i, j \in DOMAIN s : s[i] = s[j] => i = j
       /\ names = {s[i] : i \in DOMAIN s}
  BY <1>9, Listed
<1> DEFINE seen(k) == {f.properties[k].t : f \in {g \in ToSet(features) : k \in DOMAIN g.properties}} \ {"null"}
           mixed(k) == Cardinality(seen(k)) > 1
           type(k) == IF Cardinality(seen(k)) = 1 THEN CHOOSE t \in seen(k) : TRUE ELSE "text"
<1>12. columns = [i \in DOMAIN s |-> [name |-> s[i], mixed |-> mixed(s[i]), type |-> type(s[i])]]
  BY DEF InferColumns, names
<1> HIDE DEF s, columns, mixed, type
<1>13. DOMAIN columns = DOMAIN s
  BY <1>12
<1>14. ASSUME NEW i \in DOMAIN columns PROVE columns[i].name = s[i] /\ IsColumn(columns[i])
  <2>1. columns[i] = [name |-> s[i], mixed |-> mixed(s[i]), type |-> type(s[i])]
    BY <1>12
  <2> QED BY <2>1 DEF IsColumn
<1>15. columns \in Seq(ToSet(columns))
  <2>1. Len(s) \in Nat /\ DOMAIN columns = 1..Len(s) /\ columns = [i \in DOMAIN columns |-> columns[i]]
    BY <1>11, <1>12
  <2> QED BY <2>1, SequenceOfMembers
<1>16. names = ColumnNames(columns)
  BY <1>11, <1>13, <1>14 DEF ColumnNames
<1>17. \A i, j \in DOMAIN columns : columns[i].name = columns[j].name => i = j
  BY <1>11, <1>13, <1>14
<1>18. AreColumns(columns, names)
  BY <1>10, <1>14, <1>15, <1>16, <1>17 DEF AreColumns
<1> QED BY <1>7, <1>18 DEF names, columns

LEMMA IdentifiedItems ==
  ASSUME NEW items, items \in Seq(ToSet(items)), NEW derives \in BOOLEAN,
         \A i \in DOMAIN items : IsProperties(items[i].properties) /\ (~derives => IsGeometry(items[i].geometry))
  PROVE  LET features == Identified(items) IN
         /\ features \in Seq(ToSet(features))
         /\ \A i \in DOMAIN features : IsProperties(features[i].properties)
         /\ \A names :
              (\A i \in DOMAIN features : DOMAIN features[i].properties \subseteq names)
                => AreFeatures(features, derives, names)
<1> DEFINE features == Identified(items)
<1>1. features = [i \in DOMAIN items |-> [id |-> i - 1, geometry |-> items[i].geometry, properties |-> items[i].properties]]
  BY DEF Identified
<1>2. Len(items) \in Nat /\ DOMAIN items = 1..Len(items)
  OBVIOUS
<1> HIDE DEF features
<1>3. features \in Seq(ToSet(features)) /\ DOMAIN features = DOMAIN items
  <2>1. DOMAIN features = 1..Len(items) /\ features = [i \in DOMAIN features |-> features[i]]
    BY <1>1, <1>2
  <2> QED BY <1>2, <2>1, SequenceOfMembers
<1>4. ASSUME NEW i \in DOMAIN features
      PROVE  LET f == features[i] IN
             /\ f = [id |-> f.id, geometry |-> f.geometry, properties |-> f.properties]
             /\ IsProperties(f.properties)
             /\ ~derives => IsGeometry(f.geometry)
  <2>1. PICK e : e = items[i]
    OBVIOUS
  <2>2. features[i] = [id |-> i - 1, geometry |-> e.geometry, properties |-> e.properties]
    BY <1>1, <1>3, <2>1
  <2>3. IsProperties(e.properties) /\ (~derives => IsGeometry(e.geometry))
    BY <1>3, <2>1
  <2>4. PICK f : f = features[i]
    OBVIOUS
  <2>5. f.id = i - 1 /\ f.geometry = e.geometry /\ f.properties = e.properties
    BY <2>2, <2>4
  <2>6. f = [id |-> f.id, geometry |-> f.geometry, properties |-> f.properties]
    BY <2>2, <2>4, <2>5
  <2> QED BY <2>3, <2>4, <2>5, <2>6
<1>5. ASSUME NEW names, \A i \in DOMAIN features : DOMAIN features[i].properties \subseteq names
      PROVE  AreFeatures(features, derives, names)
  BY <1>3, <1>4, <1>5 DEF AreFeatures, IsFeature, IsProperties
<1> QED BY <1>3, <1>4, <1>5 DEF features

\* A list of the rows an object may be read from.
LEMMA ChosenRowsAreProperties ==
  ASSUME NEW items, \A i \in DOMAIN items : items[i].rows = None \/ IsListOf(items[i].rows, IsProperties)
  PROVE  LET rows == ChosenRows(items) IN
         rows = None \/ (rows \in Seq(ToSet(rows)) /\ \A i \in DOMAIN rows : IsProperties(rows[i]))
<1> DEFINE rows == ChosenRows(items)
           of(empty) == {i \in DOMAIN items : items[i].rows # None /\ (items[i].rows = <<>>) = empty}
           filled == of(FALSE)
           keys(S) == {items[i].key : i \in S}
           named == FirstOf(RecordArrayKeys, keys(filled))
           place == CHOOSE i \in DOMAIN items : items[i].key = named
           only == CHOOSE i \in filled : TRUE
<1>1. \/ named # None /\ rows = items[place].rows
      \/ named = None /\ Cardinality(filled) = 1 /\ rows = items[only].rows
      \/ rows = <<>>
      \/ rows = None
  BY DEF ChosenRows
<1>2. ASSUME NEW i \in DOMAIN items, rows = items[i].rows, rows # None
      PROVE  rows \in Seq(ToSet(rows)) /\ \A j \in DOMAIN rows : IsProperties(rows[j])
  <2>1. IsListOf(rows, IsProperties)
    BY <1>2
  <2> HIDE DEF rows
  <2> QED BY <2>1 DEF IsListOf, ToSet
<1> DEFINE fits == rows = None \/ (rows \in Seq(ToSet(rows)) /\ \A i \in DOMAIN rows : IsProperties(rows[i]))
<1>3. ASSUME named # None, rows = items[place].rows PROVE fits
  <2>1. DOMAIN RecordArrayKeys \subseteq Nat
    BY DEF RecordArrayKeys
  <2>2. named \in keys(filled) \cup {None}
    <3> HIDE DEF filled, keys
    <3> QED BY <2>1, FirstOfIsOne
  <2>3. \E i \in DOMAIN items : items[i].key = named
    <3> HIDE DEF named
    <3> QED BY <1>3, <2>2
  <2>4. place \in DOMAIN items
    <3> HIDE DEF named
    <3> QED BY <2>3
  <2> HIDE DEF rows, place
  <2> QED BY <1>2, <1>3, <2>4
<1>4. ASSUME Cardinality(filled) = 1, rows = items[only].rows PROVE fits
  <2>1. filled # {}
    <3> HIDE DEF filled
    <3>1. SUFFICES ASSUME filled = {} PROVE FALSE
      OBVIOUS
    <3>2. Cardinality({}) = 0
      BY FS_EmptySet
    <3>3. Cardinality(filled) = 1
      BY <1>4
    <3> HIDE DEF filled
    <3> QED BY <3>1, <3>2, <3>3
  <2>2. only \in filled
    BY <2>1
  <2>3. only \in DOMAIN items
    BY <2>2
  <2> HIDE DEF rows, only
  <2> QED BY <1>2, <1>4, <2>3
<1>5. ASSUME rows = <<>> PROVE fits
  <2> HIDE DEF rows
  <2>1. rows \in Seq(ToSet(rows)) /\ DOMAIN rows = {}
    BY <1>5, NoneInSeq
  <2> QED BY <2>1
<1>6. fits
  <2>1. ASSUME rows = None PROVE fits
    <3> HIDE DEF rows
    <3> QED BY <2>1
  <2> HIDE DEF fits, rows, named, filled, place, only
  <2> QED BY <1>1, <1>3, <1>4, <1>5, <2>1
<1> QED BY <1>6

\* What a document parses to is a sound draft.
LEMMA ParseIsSound ==
  ASSUME NEW document, IsDocument(document)
  PROVE  Parse(document) = None \/ Sound(Parse(document))
<1> DEFINE entries == document.items
           collection == document.kind \in {"FeatureCollection", "Feature"}
           rows == CASE document.kind = "array" /\ None \notin ToSet(entries) -> entries
                     [] document.kind = "object" -> ChosenRows(entries)
                     [] OTHER -> None
           features == CASE collection /\ entries # None /\ None \notin ToSet(entries) -> Identified(entries)
                         [] ~collection /\ rows # None -> FromRows(rows)
                         [] OTHER -> <<>>
           columns == InferColumns(features)
           lon == IF collection THEN None ELSE DetectColumn(columns, LonNames)
           lat == IF collection THEN None ELSE DetectColumn(columns, LatNames)
           derives == ~collection
           d == [derives |-> derives, columns |-> columns, features |-> features, lon |-> lon, lat |-> lat]
           names == UNION {DOMAIN f.properties : f \in ToSet(features)}
           Ready == /\ features \in Seq(ToSet(features))
                    /\ \A i \in DOMAIN features : IsProperties(features[i].properties)
                    /\ \A n : (\A i \in DOMAIN features : DOMAIN features[i].properties \subseteq n)
                                => AreFeatures(features, derives, n)
<1>1. Parse(document) = IF features = <<>> THEN None ELSE Derived(d)
  BY DEF Parse
<1>2. CASE features = <<>>
  BY <1>1, <1>2
<1>0. derives \in BOOLEAN /\ derives = ~collection
  OBVIOUS
<1> HIDE DEF derives
<1>3. CASE features # <<>>
  <2>1. Ready
    <3>1. CASE collection /\ features = Identified(entries) /\ entries # None /\ None \notin ToSet(entries)
      <4>1. IsListOf(entries, IsEntry)
        BY <3>1 DEF IsDocument
      <4>2. /\ entries \in Seq(ToSet(entries))
            /\ \A i \in DOMAIN entries : IsProperties(entries[i].properties) /\ IsGeometry(entries[i].geometry)
        <5> HIDE DEF entries
        <5> QED BY <3>1, <4>1 DEF IsListOf, IsEntry, ToSet
      <4> HIDE DEF entries, features
      <4> HIDE DEF collection
      <4> QED BY <1>0, <3>1, <4>2, IdentifiedItems
    <3>2. CASE ~collection /\ rows # None /\ features = FromRows(rows)
      <4>1. rows \in Seq(ToSet(rows)) /\ \A i \in DOMAIN rows : IsProperties(rows[i])
        <5>1. CASE document.kind = "array"
          <6>1. rows = entries /\ None \notin ToSet(entries)
            BY <3>2, <5>1
          <6>2. IsListOf(entries, IsRow)
            BY <5>1 DEF IsDocument
          <6> HIDE DEF rows, entries
          <6> QED BY <6>1, <6>2 DEF IsListOf, IsRow, ToSet
        <5>2. CASE document.kind = "object"
          <6>1. rows = ChosenRows(entries)
            BY <5>2
          <6>2. \A i \in DOMAIN entries : entries[i].rows = None \/ IsListOf(entries[i].rows, IsProperties)
            BY <5>2 DEF IsDocument
          <6> HIDE DEF rows, entries
          <6> QED BY <3>2, <6>1, <6>2, ChosenRowsAreProperties
        <5> QED BY <3>2, <5>1, <5>2
      <4> DEFINE items == [i \in DOMAIN rows |-> [geometry |-> None, properties |-> rows[i]]]
      <4> HIDE DEF rows
      <4>2. features = Identified(items)
        BY <3>2 DEF FromRows
      <4>3. \A i \in DOMAIN items : IsProperties(items[i].properties)
        BY <4>1
      <4>4. items \in Seq(ToSet(items))
        <5>1. Len(rows) \in Nat /\ DOMAIN items = 1..Len(rows) /\ items = [i \in DOMAIN items |-> items[i]]
          BY <4>1
        <5> HIDE DEF items
        <5> QED BY <5>1, SequenceOfMembers
      <4> HIDE DEF items, features
      <4> HIDE DEF collection
      <4> QED BY <1>0, <3>2, <4>2, <4>3, <4>4, IdentifiedItems
    <3> QED BY <1>3, <3>1, <3>2
  <2> HIDE DEF features, collection
  <2>2. /\ AreColumns(columns, names)
        /\ \A i \in DOMAIN features : DOMAIN features[i].properties \subseteq names
    BY <2>1, InferredColumns
  <2>3. \A c : c \in ToSet(columns) => c.name \in names
    BY <2>2 DEF AreColumns, ColumnNames, ToSet
  <2> HIDE DEF names, columns
  <2>4. AreFeatures(features, derives, names)
    BY <2>1, <2>2
  <2>5. \A candidates : DOMAIN candidates \subseteq Nat => DetectColumn(columns, candidates) \in names \cup {None}
    <3>1. TAKE candidates
    <3>2. HAVE DOMAIN candidates \subseteq Nat
    <3> DEFINE accepted == {c.name : c \in {e \in ToSet(columns) : e.type = "number"}}
    <3>3. accepted \subseteq names
      BY <2>3
    <3>4. DetectColumn(columns, candidates) = FirstOf(candidates, accepted)
      BY DEF DetectColumn
    <3> HIDE DEF accepted
    <3> QED BY <3>2, <3>3, <3>4, FirstOfIsOne
  <2>6. DOMAIN LonNames \subseteq Nat /\ DOMAIN LatNames \subseteq Nat
    BY DEF LonNames, LatNames
  <2>7. AreCoordinates(lon, lat, derives, names)
    BY <2>5, <2>6 DEF AreCoordinates
  <2> HIDE DEF lon, lat
  <2>9. Sound(Derived(d))
    BY <1>0, <2>2, <2>4, <2>7, MadeOfParts
  <2> QED BY <1>1, <1>3, <2>9
<1> QED BY <1>2, <1>3

-----------------------------------------------------------------------------
(***************************************************************************)
(* Undo and redo                                                           *)
(***************************************************************************)
Sounds(b, s) == \A n \in 0..Len(s) : Sound(Drafts(b, s)[n])

\* The draft is the last of those on the way, and each of them is sound.
GoodHistory(b, draft, undo, redo) ==
  /\ undo \in Seq(ToSet(undo)) /\ redo \in Seq(ToSet(redo))
  /\ b # None => draft = Replay(b, undo) /\ Sounds(b, undo \o Reverse(redo))

LEMMA HistoryAsOne ==
  HistoryIsSound <=>
    /\ DOMAIN work = {"draft", "undo", "redo", "selected", "cellErrors", "request", "isError", "result"}
    /\ GoodHistory(base, work.draft, work.undo, work.redo)
BY DEF HistoryIsSound, GoodHistory, Sounds, Timeline, Draft

LEMMA Reversed ==
  ASSUME NEW S, NEW r \in Seq(S)
  PROVE  Reverse(r) \in Seq(S) /\ Len(Reverse(r)) = Len(r)
<1>1. Len(r) \in Nat /\ \A i \in 1..Len(r) : (Len(r) - i) + 1 \in 1..Len(r)
  OBVIOUS
<1>2. \A i \in 1..Len(r) : r[(Len(r) - i) + 1] \in S
  BY <1>1
<1>3. Reverse(r) = [i \in 1..Len(r) |-> r[(Len(r) - i) + 1]]
  BY DEF Reverse
<1> QED BY <1>1, <1>2, <1>3

LEMMA NothingJoined ==
  ASSUME NEW S, NEW s \in Seq(S)
  PROVE  s \o Reverse(<<>>) = s
<1>1. Reverse(<<>>) = <<>>
  BY DEF Reverse
<1>2. s \o <<>> = s
  OBVIOUS
<1> QED BY <1>1, <1>2

\* The drafts on the way to the first commands of s.
LEMMA FirstDrafts ==
  ASSUME NEW b, NEW S, NEW u \in Seq(S), NEW s \in Seq(S), Len(u) <= Len(s),
         \A i \in 1..Len(u) : s[i] = u[i]
  PROVE  \A n \in 0..Len(u) : Drafts(b, s)[n] = Drafts(b, u)[n]
<1>1. Len(u) \in Nat /\ Len(u) <= Len(u)
  OBVIOUS
<1> QED BY <1>1, SameDrafts

\* The drafts on the way to one command more.
LEMMA OneMore ==
  ASSUME NEW b, NEW S, NEW u \in Seq(S), NEW c \in S,
         Sounds(b, u), Sound(Replay(b, Append(u, c)))
  PROVE  Sounds(b, Append(u, c))
<1> DEFINE s == Append(u, c)
<1>1. s \in Seq(S) /\ Len(s) = Len(u) + 1 /\ \A i \in 1..Len(u) : s[i] = u[i]
  BY AppendedAt
<1>2. Len(u) \in Nat
  OBVIOUS
<1> HIDE DEF s
<1>3. \A n \in 0..Len(u) : Drafts(b, s)[n] = Drafts(b, u)[n]
  <2>1. s \in Seq(S) /\ u \in Seq(S) /\ Len(u) <= Len(s) /\ \A i \in 1..Len(u) : s[i] = u[i]
    BY <1>1, <1>2
  <2> QED BY <2>1, FirstDrafts
<1>4. Sound(Drafts(b, s)[Len(s)])
  BY DEF Replay, s
<1>5. ASSUME NEW n \in 0..Len(s) PROVE Sound(Drafts(b, s)[n])
  <2>1. CASE n \in 0..Len(u)
    BY <1>3, <2>1 DEF Sounds
  <2>2. CASE n \notin 0..Len(u)
    <3>1. n = Len(s)
      BY <1>1, <1>2, <2>2
    <3> QED BY <1>4, <3>1
  <2> QED BY <2>1, <2>2
<1> QED BY <1>5 DEF Sounds, s

\* What is on the way is on the way to the first commands.
LEMMA FirstOnes ==
  ASSUME NEW b, NEW S, NEW u \in Seq(S), NEW t \in Seq(S), Sounds(b, u \o t)
  PROVE  Sounds(b, u)
<1> DEFINE s == u \o t
<1>1. s \in Seq(S) /\ Len(s) = Len(u) + Len(t) /\ \A i \in 1..Len(u) : s[i] = u[i]
  BY JoinedAt
<1>2. Len(u) \in Nat /\ Len(t) \in Nat
  OBVIOUS
<1>3. Sounds(b, s)
  OBVIOUS
<1> HIDE DEF s
<1>4. \A n \in 0..Len(u) : Drafts(b, s)[n] = Drafts(b, u)[n]
  <2>1. s \in Seq(S) /\ u \in Seq(S) /\ Len(u) <= Len(s) /\ \A i \in 1..Len(u) : s[i] = u[i]
    BY <1>1, <1>2
  <2> QED BY <2>1, FirstDrafts
<1>5. \A n \in 0..Len(u) : n \in 0..Len(s)
  BY <1>1, <1>2
<1> QED BY <1>3, <1>4, <1>5 DEF Sounds

LEMMA ReplayIsSound ==
  ASSUME NEW b, NEW S, NEW u \in Seq(S), NEW t \in Seq(S), Sounds(b, u \o t)
  PROVE  Sound(b) /\ Sound(Replay(b, u)) /\ Sounds(b, u)
<1>1. Sounds(b, u)
  BY FirstOnes
<1>2. Len(u) \in Nat /\ 0 \in 0..Len(u) /\ Len(u) \in 0..Len(u)
  OBVIOUS
<1>3. Drafts(b, u)[0] = b
  BY DraftsSteps
<1> QED BY <1>1, <1>2, <1>3 DEF Sounds, Replay

LEMMA FreshHistory ==
  ASSUME NEW b, b # None => Sound(b)
  PROVE  GoodHistory(b, b, <<>>, <<>>)
<1>1. <<>> \in Seq({}) /\ Len(<<>>) = 0
  OBVIOUS
<1>2. Drafts(b, <<>>)[0] = b
  BY <1>1, DraftsSteps
<1>3. <<>> \o Reverse(<<>>) = <<>>
  BY <1>1, NothingJoined
<1>4. 0..0 = {0}
  OBVIOUS
<1>5. <<>> \in Seq(ToSet(<<>>))
  OBVIOUS
<1>6. b # None => Sounds(b, <<>>)
  BY <1>1, <1>2, <1>4 DEF Sounds
<1>7. Replay(b, <<>>) = b
  BY <1>1, <1>2 DEF Replay
<1> QED BY <1>3, <1>5, <1>6, <1>7 DEF GoodHistory

\* The stacks as sequences of commands.
LEMMA Stacks ==
  ASSUME NEW b, NEW draft, NEW undo, NEW redo, GoodHistory(b, draft, undo, redo), NEW c
  PROVE  \E S : undo \in Seq(S) /\ redo \in Seq(S) /\ Reverse(redo) \in Seq(S) /\ c \in S
<1> DEFINE S == ToSet(undo) \cup ToSet(redo) \cup {c}
<1>1. undo \in Seq(ToSet(undo)) /\ redo \in Seq(ToSet(redo))
  BY DEF GoodHistory
<1>2. undo \in Seq(S) /\ redo \in Seq(S) /\ c \in S
  BY <1>1
<1> HIDE DEF S
<1>3. Reverse(redo) \in Seq(S)
  BY <1>2, Reversed
<1> QED BY <1>2, <1>3

LEMMA PushKeeps ==
  ASSUME NEW b, b # None, NEW draft, NEW undo, NEW redo, GoodHistory(b, draft, undo, redo),
         NEW c, Legal(draft, c)
  PROVE  GoodHistory(b, Replay(b, Append(undo, c)), Append(undo, c), <<>>)
<1>1. PICK S : undo \in Seq(S) /\ redo \in Seq(S) /\ Reverse(redo) \in Seq(S) /\ c \in S
  BY Stacks
<1>2. draft = Replay(b, undo) /\ Sounds(b, undo \o Reverse(redo))
  BY DEF GoodHistory
<1> DEFINE s == Append(undo, c)
<1>3. Sound(draft) /\ Sounds(b, undo)
  BY <1>1, <1>2, ReplayIsSound
<1>4. s \in Seq(S) /\ Len(s) = Len(undo) + 1 /\ s[Len(undo) + 1] = c /\ \A i \in 1..Len(undo) : s[i] = undo[i]
  BY <1>1, AppendedAt
<1>5. Len(undo) \in Nat
  BY <1>1
<1> HIDE DEF s
<1>6. Drafts(b, s)[Len(s)] = Apply(draft, c)
  <2>1. Len(s) \in 1..Len(s) /\ Len(s) - 1 = Len(undo) /\ s[Len(s)] = c
    BY <1>4, <1>5
  <2>2. Drafts(b, s)[Len(s)] = Apply(Drafts(b, s)[Len(s) - 1], s[Len(s)])
    BY <1>4, <2>1, DraftsSteps
  <2>3. Len(undo) <= Len(s) /\ Len(undo) \in 0..Len(undo)
    BY <1>4, <1>5
  <2>4. \A n \in 0..Len(undo) : Drafts(b, s)[n] = Drafts(b, undo)[n]
    BY <1>1, <1>4, <2>3, FirstDrafts
  <2>5. Drafts(b, s)[Len(undo)] = draft
    BY <1>2, <2>3, <2>4 DEF Replay
  <2> QED BY <2>1, <2>2, <2>5
<1>7. Sound(Replay(b, s))
  BY <1>3, <1>6, ApplyIsSound DEF Replay
<1>8. Sounds(b, s)
  BY <1>1, <1>3, <1>7, OneMore DEF s
<1>9. s \in Seq(ToSet(s))
  BY <1>4, OwnMembers
<1>10. s \o Reverse(<<>>) = s
  BY <1>4, NothingJoined
<1>11. <<>> \in Seq(ToSet(<<>>))
  OBVIOUS
<1>12. GoodHistory(b, Replay(b, s), s, <<>>)
  BY <1>8, <1>9, <1>10, <1>11 DEF GoodHistory
<1> QED BY <1>12 DEF s

LEMMA UndoKeeps ==
  ASSUME NEW b, NEW draft, NEW undo, NEW redo, GoodHistory(b, draft, undo, redo), undo # <<>>
  PROVE  GoodHistory(b, Replay(b, Front(undo)), Front(undo), Append(redo, Last(undo)))
<1>1. PICK S : undo \in Seq(S) /\ redo \in Seq(S) /\ Reverse(redo) \in Seq(S)
  BY Stacks
<1> DEFINE f == Front(undo)
           x == Last(undo)
           r == Append(redo, x)
<1>2. f \in Seq(S) /\ x \in S /\ Append(f, x) = undo
  BY <1>1, LastAndFront
<1> HIDE DEF f, x
<1>3. r \in Seq(S)
  BY <1>1, <1>2, AppendedAt
<1>4. f \o Reverse(r) = undo \o Reverse(redo)
  <2>1. f \in Seq(S) /\ redo \in Seq(S) /\ x \in S
    BY <1>1, <1>2
  <2>2. Append(f, x) \o Reverse(redo) = f \o Reverse(Append(redo, x))
    BY <2>1, SameTimeline
  <2> QED BY <1>2, <2>2
<1> HIDE DEF r
<1>5. f \in Seq(ToSet(f)) /\ r \in Seq(ToSet(r))
  BY <1>2, <1>3, OwnMembers
<1>6. GoodHistory(b, Replay(b, f), f, r)
  BY <1>4, <1>5 DEF GoodHistory
<1> QED BY <1>6 DEF f, r, x

LEMMA RedoKeeps ==
  ASSUME NEW b, NEW draft, NEW undo, NEW redo, GoodHistory(b, draft, undo, redo), redo # <<>>
  PROVE  GoodHistory(b, Replay(b, Append(undo, Last(redo))), Append(undo, Last(redo)), Front(redo))
<1>1. PICK S : undo \in Seq(S) /\ redo \in Seq(S) /\ Reverse(redo) \in Seq(S)
  BY Stacks
<1> DEFINE f == Front(redo)
           x == Last(redo)
           u == Append(undo, x)
<1>2. f \in Seq(S) /\ x \in S /\ Append(f, x) = redo
  BY <1>1, LastAndFront
<1> HIDE DEF f, x
<1>3. u \in Seq(S)
  BY <1>1, <1>2, AppendedAt
<1>4. u \o Reverse(f) = undo \o Reverse(redo)
  <2>1. undo \in Seq(S) /\ f \in Seq(S) /\ x \in S
    BY <1>1, <1>2
  <2>2. Append(undo, x) \o Reverse(f) = undo \o Reverse(Append(f, x))
    BY <2>1, SameTimeline
  <2> QED BY <1>2, <2>2
<1> HIDE DEF u
<1>5. f \in Seq(ToSet(f)) /\ u \in Seq(ToSet(u))
  BY <1>2, <1>3, OwnMembers
<1>6. GoodHistory(b, Replay(b, u), u, f)
  BY <1>4, <1>5 DEF GoodHistory
<1> QED BY <1>6 DEF f, u, x

-----------------------------------------------------------------------------
(***************************************************************************)
(* The invariant                                                           *)
(***************************************************************************)
Stages == OpenDialog \/ StageFile \/ CloseDialog \/ ClosePreview
Adds == \E kind \in {"importFile", "addPostgisTable"} : AddNow(kind) \/ Added(kind) \/ AddFails(kind)
Fetches == Reconnected \/ LimitsFail \/ \E bytes \in Limits : LimitsArrive(bytes)

\* Edits and selections change nothing but the workspace.
LEMMA OnlyChanges == Edits \/ Selections => \E w : Changes(w)
<1>1. CASE Edits
  BY <1>1 DEF Edits, EditCell, AddsColumn, RenamesColumn, DeleteSelected, ChoosesColumns, Push, Shows
<1>2. CASE Selections
  BY <1>2 DEF Selections, SelectRows, ClickMap, ClickIssue, Selects
<1> QED BY <1>1, <1>2

\* The file parses to what it parses to.
LEMMA SameBase == [Next]_vars => base' = base
<1> SUFFICES ASSUME [Next]_vars PROVE base' = base
  OBVIOUS
<1>1. CASE Stages
  BY <1>1 DEF Stages, OpenDialog, StageFile, CloseDialog, ClosePreview
<1>2. CASE Adds
  BY <1>2 DEF Adds, AddNow, Added, AddFails
<1>3. CASE Fetches
  BY <1>3 DEF Fetches, Reconnected, LimitsFail, LimitsArrive
<1>4. CASE ParseProceeds \/ ParseEvents
  BY <1>4 DEF ParseProceeds, ParseEvents
<1>5. CASE Edits
  <2>1. \E w : Changes(w)
    BY <1>5, OnlyChanges
  <2> QED BY <2>1 DEF Changes
<1>6. CASE Selections
  <2>1. \E w : Changes(w)
    BY <1>6, OnlyChanges
  <2> QED BY <2>1 DEF Changes
<1>7. CASE Editing /\ (Undo \/ Redo \/ Confirm)
  BY <1>7 DEF Undo, Redo, Confirm, Shows, Changes
<1>8. CASE \E r \in requests : ServerImports(r) \/ Answered(r) \/ ConnectionLost(r)
  BY <1>8 DEF ServerImports, Answered, ConnectionLost
<1>9. CASE UNCHANGED vars
  BY <1>9 DEF vars
<1> QED BY <1>1, <1>2, <1>3, <1>4, <1>5, <1>6, <1>7, <1>8, <1>9 DEF Next, Stages, Adds, Fetches

\* What the calls of a read know of the file.
Honest(call, b) == call = [live |-> call.live, at |-> call.at, good |-> call.good] /\ (call.good => b # None)

LEMMA ReadingStays == ReadingIsHonest /\ [Next]_vars => ReadingIsHonest'
<1> SUFFICES ASSUME ReadingIsHonest, [Next]_vars PROVE ReadingIsHonest'
  OBVIOUS
<1>0. base' = base
  BY SameBase
<1>1. (\A c \in calls : Honest(c, base)) /\ (parsed => base # None)
  BY DEF ReadingIsHonest, Honest
<1> DEFINE kept == (\A c \in calls' : Honest(c, base)) /\ (parsed' => base # None)
<1>2. SUFFICES kept
  BY <1>0 DEF ReadingIsHonest, Honest
<1>3. ASSUME NEW good, good <=> base # None
      PROVE  Honest([live |-> TRUE, at |-> "text", good |-> good], base)
  BY <1>3 DEF Honest
<1>4. ASSUME NEW c \in calls, NEW at PROVE Honest([c EXCEPT !.at = at], base)
  BY <1>1 DEF Honest
<1>5. ASSUME NEW c \in calls PROVE Honest([c EXCEPT !.live = FALSE], base)
  <2>1. PICK l, a, g : c = [live |-> l, at |-> a, good |-> g]
    BY <1>1 DEF Honest
  <2>2. PICK no : no = FALSE
    OBVIOUS
  <2>3. [c EXCEPT !.live = no] = [live |-> no, at |-> a, good |-> g]
    BY <2>1
  <2>4. g => base # None
    BY <1>1, <2>1 DEF Honest
  <2> QED BY <2>2, <2>3, <2>4 DEF Honest
<1>6. CASE UNCHANGED workerVars
  BY <1>1, <1>6 DEF workerVars
<1>7. CASE Unmounted
  BY <1>7 DEF Unmounted
<1>8. CASE Mounts
  BY <1>3, <1>8 DEF Mounts
<1>9. ASSUME NEW read, EffectRuns(read, base # None) PROVE kept
  BY <1>1, <1>3, <1>5, <1>9 DEF EffectRuns, Cancelled
<1>10. ASSUME NEW S, S \subseteq calls, NEW legible, Settled(S, legible) PROVE parsed' => base # None
  BY <1>1, <1>10 DEF Settled, Honest
<1>11. ASSUME NEW S, FallBack(S), S \subseteq calls PROVE kept
  BY <1>1, <1>10, <1>11 DEF FallBack
<1>12. CASE WorkerProgress
  <2>1. PICK c \in calls : TextRead(c) \/ TextFails(c) \/ ParsedInline(c) \/ Watchdog(c)
    BY <1>12 DEF WorkerProgress
  <2>2. CASE TextRead(c)
    BY <1>1, <1>4, <2>2 DEF TextRead
  <2>3. CASE TextFails(c)
    BY <1>1, <1>10, <2>3 DEF TextFails
  <2>4. CASE ParsedInline(c)
    BY <1>1, <1>10, <2>4 DEF ParsedInline
  <2>5. CASE Watchdog(c)
    BY <1>11, <2>5 DEF Watchdog
  <2> QED BY <2>1, <2>2, <2>3, <2>4, <2>5
<1>13. CASE WorkerActs
  <2>1. CASE WorkerDies
    BY <1>1, <2>1 DEF WorkerDies
  <2>2. CASE WorkerErrors
    BY <1>11, <2>2 DEF WorkerErrors, Posted
  <2>3. CASE \E c \in calls : WorkerAnswers(c)
    BY <1>1, <1>10, <2>3 DEF WorkerAnswers
  <2> QED BY <1>13, <2>1, <2>2, <2>3 DEF WorkerActs
<1>14. CASE Stages
  BY <1>6, <1>7, <1>8, <1>14 DEF Stages, OpenDialog, StageFile, CloseDialog, ClosePreview
<1>15. CASE Adds
  BY <1>6, <1>7, <1>15 DEF Adds, AddNow, Added, AddFails
<1>16. CASE Fetches
  BY <1>6, <1>9, <1>16 DEF Fetches, Reconnected, LimitsFail, LimitsArrive
<1>17. CASE ParseProceeds \/ ParseEvents
  BY <1>12, <1>13, <1>17 DEF ParseProceeds, ParseEvents
<1>18. CASE Edits
  <2>1. \E w : Changes(w)
    BY <1>18, OnlyChanges
  <2> QED BY <1>6, <2>1 DEF Changes
<1>19. CASE Selections
  <2>1. \E w : Changes(w)
    BY <1>19, OnlyChanges
  <2> QED BY <1>6, <2>1 DEF Changes
<1>20. CASE Editing /\ (Undo \/ Redo \/ Confirm)
  BY <1>6, <1>20 DEF Undo, Redo, Confirm, Shows, Changes
<1>21. CASE \E r \in requests : ServerImports(r) \/ Answered(r) \/ ConnectionLost(r)
  BY <1>6, <1>21 DEF ServerImports, Answered, ConnectionLost
<1>22. CASE UNCHANGED vars
  BY <1>6, <1>22 DEF vars
<1> QED BY <1>14, <1>15, <1>16, <1>17, <1>18, <1>19, <1>20, <1>21, <1>22 DEF Next, Stages, Adds, Fetches

WorkFields == {"draft", "undo", "redo", "selected", "cellErrors", "request", "isError", "result"}
HistoryOf(w) == DOMAIN w = WorkFields /\ GoodHistory(base, w.draft, w.undo, w.redo)

\* The draft as parsed, and as it is shown, is sound.
LEMMA ShownIsSound ==
  ASSUME HistoryIsSound, base # None
  PROVE  Sound(base) /\ Sound(Draft)
<1>1. GoodHistory(base, work.draft, work.undo, work.redo)
  BY HistoryAsOne
<1>2. PICK S : work.undo \in Seq(S) /\ work.redo \in Seq(S) /\ Reverse(work.redo) \in Seq(S)
  BY <1>1, Stacks
<1>3. work.draft = Replay(base, work.undo) /\ Sounds(base, work.undo \o Reverse(work.redo))
  BY <1>1 DEF GoodHistory
<1> QED BY <1>2, <1>3, ReplayIsSound DEF Draft

\* A command on a sound draft, whatever else of the workspace changes.
LEMMA PushedHistory ==
  ASSUME HistoryIsSound, base # None, NEW c, Legal(Draft, c),
         NEW w, DOMAIN w = WorkFields, NEW selected, NEW v,
         v = [w EXCEPT !.draft = Replay(base, Append(work.undo, c)), !.undo = Append(work.undo, c),
                       !.redo = History(work.undo, work.redo), !.selected = selected]
  PROVE  HistoryOf(v)
<1>1. GoodHistory(base, work.draft, work.undo, work.redo)
  BY HistoryAsOne
<1>2. GoodHistory(base, Replay(base, Append(work.undo, c)), Append(work.undo, c), <<>>)
  BY <1>1, PushKeeps DEF Draft
<1>3. /\ DOMAIN v = WorkFields /\ v.draft = Replay(base, Append(work.undo, c))
      /\ v.undo = Append(work.undo, c) /\ v.redo = <<>>
  BY DEF WorkFields, History
<1> QED BY <1>2, <1>3 DEF HistoryOf

LEMMA PushStays ==
  ASSUME HistoryIsSound, base # None, NEW c, Legal(Draft, c),
         NEW w, DOMAIN w = WorkFields, Push(c, w)
  PROVE  HistoryOf(work')
<1>1. PICK selected :
        work' = [w EXCEPT !.draft = Replay(base, Append(work.undo, c)), !.undo = Append(work.undo, c),
                          !.redo = History(work.undo, work.redo), !.selected = selected]
  BY DEF Push, Shows, Changes
<1> QED BY <1>1, PushedHistory

LEMMA EditsStay ==
  ASSUME HistoryIsSound, base # None, Edits
  PROVE  HistoryOf(work')
<1>1. HistoryOf(work)
  BY HistoryAsOne DEF HistoryOf, WorkFields
<1>2. None \notin Names(Draft) /\ None \notin NewNames
  BY ShownIsSound, FilesAssumption DEF Sound
<1>3. DOMAIN work = WorkFields
  BY <1>1 DEF HistoryOf
<1>4. ASSUME NEW id \in Ids(Draft), NEW column \in ToSet(Draft.columns), NEW raw \in Raws,
             EditCell(id, column, raw)
      PROVE  HistoryOf(work')
  <2>1. ASSUME NEW errors, Changes([work EXCEPT !.cellErrors = errors])
        PROVE  HistoryOf(work')
    BY <1>1, <2>1 DEF Changes, HistoryOf, WorkFields
  <2>2. ASSUME NEW value, NEW errors,
               Push([op |-> "cell", id |-> id, column |-> column.name, value |-> value],
                    [work EXCEPT !.cellErrors = errors])
        PROVE  HistoryOf(work')
    <3>1. Legal(Draft, [op |-> "cell", id |-> id, column |-> column.name, value |-> value])
      BY DEF Legal, Names
    <3>2. DOMAIN [work EXCEPT !.cellErrors = errors] = WorkFields
      BY <1>3
    <3> QED BY <2>2, <3>1, <3>2, PushStays
  <2> QED BY <1>4, <2>1, <2>2 DEF EditCell
<1>5. ASSUME NEW name \in NewNames, AddsColumn(name) PROVE HistoryOf(work')
  <2>1. Legal(Draft, [op |-> "add", name |-> name])
    BY <1>2, <1>5 DEF Legal, AddsColumn, NameTaken
  <2> QED BY <1>3, <1>5, <2>1, PushStays DEF AddsColumn
<1>6. ASSUME NEW from \in Names(Draft) \cup NewNames, NEW to \in Names(Draft) \cup NewNames,
             RenamesColumn(from, to)
      PROVE  HistoryOf(work')
  <2>1. Legal(Draft, [op |-> "rename", from |-> from, to |-> to])
    BY <1>2, <1>6 DEF Legal, RenamesColumn, MayRename, NameTaken
  <2> QED BY <1>3, <1>6, <2>1, PushStays DEF RenamesColumn
<1>7. CASE DeleteSelected
  <2>1. Legal(Draft, [op |-> "delete", ids |-> work.selected])
    BY DEF Legal
  <2>2. DOMAIN [work EXCEPT !.selected = {}] = WorkFields
    BY <1>3
  <2> QED BY <1>7, <2>1, <2>2, PushStays DEF DeleteSelected
<1>8. ASSUME NEW lon \in NumericColumns \cup {None}, NEW lat \in NumericColumns \cup {None},
             ChoosesColumns(lon, lat)
      PROVE  HistoryOf(work')
  <2>1. NumericColumns \subseteq Names(Draft)
    BY DEF NumericColumns, Names
  <2>2. Legal(Draft, [op |-> "coordinates", lon |-> lon, lat |-> lat])
    BY <2>1 DEF Legal
  <2> QED BY <1>3, <1>8, <2>2, PushStays DEF ChoosesColumns
<1> QED BY <1>4, <1>5, <1>6, <1>7, <1>8 DEF Edits

LEMMA UndoStays ==
  ASSUME HistoryIsSound, Undo
  PROVE  HistoryOf(work')
<1>1. GoodHistory(base, work.draft, work.undo, work.redo) /\ DOMAIN work = WorkFields
  BY HistoryAsOne DEF WorkFields
<1>2. work.undo # <<>>
  BY DEF Undo
<1> DEFINE f == Front(work.undo)
           r == Append(work.redo, Last(work.undo))
<1>3. GoodHistory(base, Replay(base, f), f, r)
  BY <1>1, <1>2, UndoKeeps
<1> HIDE DEF f, r
<1>4. PICK selected :
        work' = [work EXCEPT !.draft = Replay(base, f), !.undo = f, !.redo = r, !.selected = selected]
  BY DEF Undo, Shows, Changes, f, r
<1>5. DOMAIN work' = WorkFields /\ work'.draft = Replay(base, f) /\ work'.undo = f /\ work'.redo = r
  BY <1>1, <1>4 DEF WorkFields
<1> QED BY <1>3, <1>5 DEF HistoryOf

LEMMA RedoStays ==
  ASSUME HistoryIsSound, Redo
  PROVE  HistoryOf(work')
<1>1. GoodHistory(base, work.draft, work.undo, work.redo) /\ DOMAIN work = WorkFields
  BY HistoryAsOne DEF WorkFields
<1>2. work.redo # <<>>
  BY DEF Redo
<1> DEFINE u == Append(work.undo, Last(work.redo))
           f == Front(work.redo)
<1>3. GoodHistory(base, Replay(base, u), u, f)
  BY <1>1, <1>2, RedoKeeps
<1> HIDE DEF u, f
<1>4. PICK selected :
        work' = [work EXCEPT !.draft = Replay(base, u), !.undo = u, !.redo = f, !.selected = selected]
  BY DEF Redo, Shows, Changes, u, f
<1>5. DOMAIN work' = WorkFields /\ work'.draft = Replay(base, u) /\ work'.undo = u /\ work'.redo = f
  BY <1>1, <1>4 DEF WorkFields
<1> QED BY <1>3, <1>5 DEF HistoryOf

LEMMA HistoryStays == ReadingIsHonest /\ HistoryIsSound /\ [Next]_vars => HistoryIsSound'
<1> SUFFICES ASSUME ReadingIsHonest, HistoryIsSound, [Next]_vars PROVE HistoryIsSound'
  OBVIOUS
<1>0. base' = base
  BY SameBase
<1> DEFINE kept == HistoryOf(work')
<1>1. SUFFICES kept
  BY <1>0 DEF HistoryIsSound, HistoryOf, GoodHistory, Sounds, Timeline, Draft, WorkFields
<1>2. HistoryOf(work)
  BY HistoryAsOne DEF HistoryOf, WorkFields
<1>3. HistoryOf(Fresh)
  <2>1. GoodHistory(base, base, <<>>, <<>>)
    BY ShownIsSound, FreshHistory
  <2>2. DOMAIN Fresh = WorkFields /\ Fresh.draft = base /\ Fresh.undo = <<>> /\ Fresh.redo = <<>>
    BY DEF Fresh, WorkFields
  <2> QED BY <2>1, <2>2 DEF HistoryOf
<1>4. CASE work' \in {work, Fresh}
  BY <1>2, <1>3, <1>4
<1>5. Kept(work) => kept
  BY <1>4 DEF Kept
<1>6. Editing => base # None
  BY DEF Editing, ReadingIsHonest
<1>7. CASE Stages
  BY <1>4, <1>7 DEF Stages, OpenDialog, StageFile, CloseDialog, ClosePreview
<1>8. CASE Adds
  BY <1>4, <1>8 DEF Adds, AddNow, Added, AddFails
<1>9. CASE Fetches
  BY <1>4, <1>5, <1>9 DEF Fetches, Reconnected, LimitsFail, LimitsArrive
<1>10. CASE ParseProceeds \/ ParseEvents
  BY <1>5, <1>10 DEF ParseProceeds, ParseEvents
<1>11. CASE Edits
  BY <1>6, <1>11, EditsStay DEF Edits
<1>12. CASE Selections
  <2>1. \E selected : Changes([work EXCEPT !.selected = selected])
    BY <1>12 DEF Selections, SelectRows, ClickMap, ClickIssue, Selects
  <2>2. PICK selected : work' = [work EXCEPT !.selected = selected]
    BY <2>1 DEF Changes
  <2> QED BY <1>2, <2>2 DEF HistoryOf, WorkFields
<1>13. CASE Undo
  BY <1>13, UndoStays
<1>14. CASE Redo
  BY <1>14, RedoStays
<1>15. CASE Confirm
  BY <1>2, <1>15 DEF Confirm, HistoryOf, WorkFields
<1>16. CASE \E r \in requests : ServerImports(r) \/ Answered(r) \/ ConnectionLost(r)
  <2>1. PICK r \in requests : ServerImports(r) \/ Answered(r) \/ ConnectionLost(r)
    BY <1>16
  <2>2. CASE ServerImports(r)
    BY <1>4, <2>2 DEF ServerImports
  <2>3. CASE Answered(r)
    <3>1. \/ work' = work
          \/ \E result, isError : work' = [work EXCEPT !.request = 0, !.result = result, !.isError = isError]
      BY <2>3 DEF Answered
    <3> QED BY <1>2, <3>1 DEF HistoryOf, WorkFields
  <2>4. CASE ConnectionLost(r)
    BY <1>2, <2>4 DEF ConnectionLost, HistoryOf, WorkFields
  <2> QED BY <2>1, <2>2, <2>3, <2>4
<1>17. CASE UNCHANGED vars
  BY <1>4, <1>17 DEF vars
<1> QED BY <1>7, <1>8, <1>9, <1>10, <1>11, <1>12, <1>13, <1>14, <1>15, <1>16, <1>17 DEF Next, Stages, Adds, Fetches

\* What a request may be.
SoundRequest(r) ==
  /\ r = [id |-> r.id, features |-> r.features, answer |-> r.answer]
  /\ r.features \in Seq(ToSet(r.features)) /\ r.features # <<>>
  /\ \A f \in ToSet(r.features) : Passes(f.geometry)
  /\ r.answer = "invalid" => ~ServerAccepts(r.features, MaxFeatures)

LEMMA ConfirmedIsSound ==
  ASSUME NEW draft, Sound(draft), draft.features # <<>>, Faulty(draft) = {}
  PROVE  LET s == ToFeatureCollection(draft) IN
         /\ s \in Seq(ToSet(s)) /\ s # <<>>
         /\ \A f \in ToSet(s) : Passes(f.geometry)
<1> DEFINE s == ToFeatureCollection(draft)
<1>1. draft.features \in Seq(ToSet(draft.features))
  BY DEF Sound, IsDraft
<1>2. /\ DOMAIN draft.features = 1..Len(draft.features) /\ Len(draft.features) \in Nat
      /\ Len(draft.features) # 0
  BY <1>1
<1>3. s = [i \in DOMAIN draft.features |-> [draft.features[i] EXCEPT !.geometry = WrittenGeometry(@)]]
  BY DEF ToFeatureCollection
<1>4. DOMAIN s = DOMAIN draft.features /\ s = [i \in DOMAIN s |-> s[i]]
  BY <1>3
<1>5. \A i \in DOMAIN s : Passes(s[i].geometry)
  <2>1. TAKE i \in DOMAIN s
  <2>2. i \in DOMAIN draft.features
    BY <1>4
  <2>3. CheckGeometry(draft.features[i].geometry) = "valid"
    BY <2>2 DEF Faulty
  <2> QED BY <2>2, <2>3, ConfirmedPasses
<1> HIDE DEF s
<1>6. s \in Seq(ToSet(s)) /\ Len(s) = Len(draft.features)
  BY <1>2, <1>4, SequenceOfMembers
<1>7. s # <<>>
  BY <1>2, <1>6
<1>8. \A f \in ToSet(s) : Passes(f.geometry)
  BY <1>5 DEF ToSet
<1> QED BY <1>6, <1>7, <1>8 DEF s

LEMMA RequestsStay ==
  ReadingIsHonest /\ HistoryIsSound /\ RequestsAreSound /\ [Next]_vars => RequestsAreSound'
<1> SUFFICES ASSUME ReadingIsHonest, HistoryIsSound, RequestsAreSound, [Next]_vars
             PROVE  RequestsAreSound'
  OBVIOUS
<1>1. \A r \in requests : SoundRequest(r)
  BY DEF RequestsAreSound, SoundRequest
<1> DEFINE kept == \A r \in requests' : SoundRequest(r)
<1>2. SUFFICES kept
  BY DEF RequestsAreSound, SoundRequest
<1>3. CASE requests' \subseteq requests
  BY <1>1, <1>3
<1>4. CASE Stages
  BY <1>3, <1>4 DEF Stages, OpenDialog, StageFile, CloseDialog, ClosePreview
<1>5. CASE Adds
  BY <1>3, <1>5 DEF Adds, AddNow, Added, AddFails
<1>6. CASE Fetches
  BY <1>3, <1>6 DEF Fetches, Reconnected, LimitsFail, LimitsArrive
<1>7. CASE ParseProceeds \/ ParseEvents
  BY <1>3, <1>7 DEF ParseProceeds, ParseEvents
<1>8. CASE Edits
  <2>1. \E w : Changes(w)
    BY <1>8, OnlyChanges
  <2> QED BY <1>3, <2>1 DEF Changes
<1>9. CASE Selections
  <2>1. \E w : Changes(w)
    BY <1>9, OnlyChanges
  <2> QED BY <1>3, <2>1 DEF Changes
<1>10. CASE Undo \/ Redo
  BY <1>3, <1>10 DEF Undo, Redo, Shows, Changes
<1>11. CASE Confirm
  <2> DEFINE s == ToFeatureCollection(Draft)
             r == [id |-> left.confirm, features |-> s, answer |-> None]
  <2>1. base # None
    BY <1>11 DEF Confirm, Editing, ReadingIsHonest
  <2>2. Sound(Draft)
    BY <2>1, ShownIsSound
  <2>3. Draft.features # <<>> /\ Faulty(Draft) = {}
    BY <1>11 DEF Confirm, BlockingErrors
  <2>4. /\ s \in Seq(ToSet(s)) /\ s # <<>>
        /\ \A f \in ToSet(s) : Passes(f.geometry)
    BY <2>2, <2>3, ConfirmedIsSound
  <2>5. requests' = requests \cup {r}
    BY <1>11 DEF Confirm
  <2> HIDE DEF s
  <2>6. r.answer = "invalid" => ~ServerAccepts(s, MaxFeatures)
    BY FilesAssumption
  <2>7. SoundRequest(r)
    BY <2>4, <2>6 DEF SoundRequest
  <2> HIDE DEF r
  <2> QED BY <1>1, <2>5, <2>7
<1>12. CASE \E r \in requests : ServerImports(r) \/ Answered(r) \/ ConnectionLost(r)
  <2>1. PICK r \in requests : ServerImports(r) \/ Answered(r) \/ ConnectionLost(r)
    BY <1>12
  <2>2. CASE ServerImports(r)
    <3> DEFINE ok == ServerAccepts(r.features, MaxFeatures)
               answer == CASE ~ok -> "invalid" [] ok /\ NameIsTaken -> "conflict" [] OTHER -> "created"
    <3>0. ok => answer # "invalid"
      OBVIOUS
    <3>1. /\ requests' = (requests \ {r}) \cup {[r EXCEPT !.answer = answer]}
          /\ answer = "invalid" => ~ServerAccepts(r.features, MaxFeatures)
      BY <2>2, <3>0 DEF ServerImports
    <3> HIDE DEF answer
    <3>2. SoundRequest([r EXCEPT !.answer = answer])
      BY <1>1, <3>1 DEF SoundRequest
    <3> QED BY <1>1, <3>1, <3>2
  <2>3. CASE Answered(r) \/ ConnectionLost(r)
    BY <1>3, <2>3 DEF Answered, ConnectionLost
  <2> QED BY <2>1, <2>2, <2>3
<1>13. CASE UNCHANGED vars
  BY <1>3, <1>13 DEF vars
<1> QED BY <1>4, <1>5, <1>6, <1>7, <1>8, <1>9, <1>10, <1>11, <1>12, <1>13 DEF Next, Stages, Adds, Fetches

\* A file is stored when none is stored under its name.
LEMMA StoredStays ==
  ASSUME stored = <<>> \/ \E s : stored = <<s>>, [Next]_vars
  PROVE  (stored = <<>> \/ \E s : stored = <<s>>)'
<1>1. CASE UNCHANGED stored
  BY <1>1
<1>2. CASE Stages
  BY <1>1, <1>2 DEF Stages, OpenDialog, StageFile, CloseDialog, ClosePreview
<1>3. CASE Adds
  BY <1>1, <1>3 DEF Adds, AddNow, Added, AddFails
<1>4. CASE Fetches
  BY <1>1, <1>4 DEF Fetches, Reconnected, LimitsFail, LimitsArrive
<1>5. CASE ParseProceeds \/ ParseEvents
  BY <1>1, <1>5 DEF ParseProceeds, ParseEvents
<1>6. CASE Edits
  <2>1. \E w : Changes(w)
    BY <1>6, OnlyChanges
  <2> QED BY <1>1, <2>1 DEF Changes
<1>7. CASE Selections
  <2>1. \E w : Changes(w)
    BY <1>7, OnlyChanges
  <2> QED BY <1>1, <2>1 DEF Changes
<1>8. CASE Editing /\ (Undo \/ Redo \/ Confirm)
  BY <1>1, <1>8 DEF Undo, Redo, Confirm, Shows, Changes
<1>9. CASE \E r \in requests : ServerImports(r) \/ Answered(r) \/ ConnectionLost(r)
  <2>1. PICK r \in requests : ServerImports(r) \/ Answered(r) \/ ConnectionLost(r)
    BY <1>9
  <2>2. CASE ServerImports(r)
    <3> DEFINE ok == ServerAccepts(r.features, MaxFeatures)
               answer == CASE ~ok -> "invalid" [] ok /\ NameIsTaken -> "conflict" [] OTHER -> "created"
    <3>1. stored' = IF answer = "created" THEN Append(stored, r.features) ELSE stored
      BY <2>2 DEF ServerImports
    <3>2. answer = "created" => stored = <<>>
      BY DEF NameIsTaken
    <3> HIDE DEF answer
    <3>3. CASE answer = "created"
      <4>1. stored' = <<r.features>>
        BY <3>1, <3>2, <3>3
      <4> QED BY <4>1
    <3> QED BY <1>1, <3>1, <3>3
  <2>3. CASE Answered(r) \/ ConnectionLost(r)
    BY <1>1, <2>3 DEF Answered, ConnectionLost
  <2> QED BY <2>1, <2>2, <2>3
<1>10. CASE UNCHANGED vars
  BY <1>1, <1>10 DEF vars
<1> QED BY <1>2, <1>3, <1>4, <1>5, <1>6, <1>7, <1>8, <1>9, <1>10 DEF Next, Stages, Adds, Fetches

StoredOnce == stored = <<>> \/ \E s : stored = <<s>>
LEMMA StoredAtMostOne == StoredOnce => ImportedOnce
<1>1. Len(<<>>) = 0 /\ \A s : Len(<<s>>) = 1
  OBVIOUS
<1>2. CASE stored = <<>>
  BY <1>1, <1>2 DEF ImportedOnce
<1>3. CASE \E s : stored = <<s>>
  BY <1>1, <1>3 DEF ImportedOnce
<1> QED BY <1>2, <1>3 DEF StoredOnce

LEMMA FirstState == Init => ReadingIsHonest /\ HistoryIsSound /\ RequestsAreSound /\ StoredOnce
<1> SUFFICES ASSUME Init PROVE ReadingIsHonest /\ HistoryIsSound /\ RequestsAreSound /\ StoredOnce
  OBVIOUS
<1>1. base = None \/ Sound(base)
  <2> DEFINE files == Files
  <2>1. \A f \in DOMAIN files : IsDocument(files[f].document)
    BY FilesAssumption
  <2>2. PICK f \in DOMAIN files : base = Parse(files[f].document)
    BY DEF Init
  <2> HIDE DEF files
  <2>3. IsDocument(files[f].document)
    BY <2>1
  <2> QED BY <2>2, <2>3, ParseIsSound
<1>2. ReadingIsHonest
  BY DEF Init, WorkerInit, ReadingIsHonest
<1>3. RequestsAreSound /\ StoredOnce
  BY DEF Init, RequestsAreSound, StoredOnce
<1>4. HistoryIsSound
  <2>1. GoodHistory(base, base, <<>>, <<>>)
    BY <1>1, FreshHistory
  <2>2. DOMAIN work = WorkFields /\ work.draft = base /\ work.undo = <<>> /\ work.redo = <<>>
    BY DEF Init, Fresh, WorkFields
  <2> QED BY <2>1, <2>2, HistoryAsOne DEF WorkFields
<1> QED BY <1>2, <1>3, <1>4

LEMMA Inductive == Spec => [](ReadingIsHonest /\ HistoryIsSound /\ RequestsAreSound /\ StoredOnce)
<1> DEFINE Inv == ReadingIsHonest /\ HistoryIsSound /\ RequestsAreSound /\ StoredOnce
<1>1. Init => Inv
  BY FirstState
<1>2. Inv /\ [Next]_vars => Inv'
  BY ReadingStays, HistoryStays, RequestsStay, StoredStays DEF StoredOnce
<1> HIDE DEF Inv
<1>3. Spec => []Inv
  BY <1>1, <1>2, PTL DEF Spec
<1> QED BY <1>3 DEF Inv

\* The draft shown is the replay of its commands on the file as parsed, every
\* draft undo and redo can lead to is sound, and so is every request.
THEOREM ImportInvariance == Spec => []ImportInv
<1>1. ReadingIsHonest /\ HistoryIsSound /\ RequestsAreSound /\ StoredOnce => ImportInv
  BY StoredAtMostOne DEF ImportInv
<1> QED BY <1>1, Inductive, PTL

-----------------------------------------------------------------------------
(***************************************************************************)
(* The properties                                                          *)
(***************************************************************************)
\* What the workspace shows is a sound draft.
LEMMA EditedIsSound == ImportInv /\ Editing => Sound(Draft)
BY ShownIsSound DEF ImportInv, ReadingIsHonest, Editing

\* checkGeometry and _validate_geometry find the same rows wrong, for the same
\* reason first, or the server's raises on a row the browser's refuses.
THEOREM SameVerdictHolds == Spec => []SameVerdict
<1>1. ImportInv => SameVerdict
  <2> SUFFICES ASSUME ImportInv, Editing, NEW f \in ToSet(Draft.features)
               PROVE  LET here == CheckGeometry(f.geometry)
                          there == ValidateGeometry(f.geometry)
                      IN there = here \/ (there = "raises" /\ here # "valid")
    BY DEF SameVerdict
  <2>1. Sound(Draft)
    BY EditedIsSound
  <2>2. CASE f.geometry = None
    BY <2>2 DEF CheckGeometry, ValidateGeometry
  <2>3. CASE f.geometry # None
    <3>1. PICK S : Closed(S) /\ f.geometry.coordinates \in S
      BY <2>1, <2>3, Places
    <3>2. \A m \in S : m.items \in Seq(S)
      BY <3>1 DEF Closed
    <3> QED BY <3>1, <3>2, SameRules
  <2> QED BY <2>2, <2>3
<1> QED BY <1>1, ImportInvariance, PTL

\* However useImportDraft's commands are pushed, undone and redone, the points
\* of records follow their cells.
THEOREM PointsFollowCellsHolds == Spec => []PointsFollowCells
<1>1. ImportInv => PointsFollowCells
  BY EditedIsSound DEF PointsFollowCells, Sound
<1> QED BY <1>1, ImportInvariance, PTL

\* Neither inferColumns nor any command leaves two columns of one name or a
\* value without a column, so no rename overwrites a value.
THEOREM EveryValueHasItsColumnHolds == Spec => []EveryValueHasItsColumn
<1>1. ASSUME NEW draft, Sound(draft) PROVE Cardinality(Names(draft)) = Len(draft.columns)
  <2> DEFINE columns == draft.columns
             n == Len(columns)
             at == [i \in 1..n |-> columns[i].name]
  <2>1. columns \in Seq(ToSet(columns))
    BY <1>1 DEF Sound, IsDraft
  <2>2. n \in Nat /\ DOMAIN columns = 1..n
    BY <2>1
  <2>3. Names(draft) = {columns[i].name : i \in 1..n}
    BY <2>2 DEF Names, ToSet
  <2>4. \A i, j \in 1..n : columns[i].name = columns[j].name => i = j
    BY <1>1, <2>2 DEF Sound
  <2>5. at \in Bijection(1..n, Names(draft))
    BY <2>3, <2>4 DEF Bijection, Injection, Surjection, IsInjective
  <2>6. IsFiniteSet(1..n) /\ Cardinality(1..n) = n
    BY <2>2, FS_Interval
  <2> HIDE DEF at
  <2>7. ExistsBijection(1..n, Names(draft))
    BY <2>5 DEF ExistsBijection
  <2> QED BY <2>6, <2>7, FS_Bijection
<1>2. ImportInv => EveryValueHasItsColumn
  BY <1>1, EditedIsSound DEF EveryValueHasItsColumn, Sound
<1> QED BY <1>2, ImportInvariance, PTL

\* What the Confirm button lets through is not refused by
\* validate_feature_collection, but for the limit on features or a number JSON
\* writes as null.
THEOREM ConfirmedIsAcceptedHolds == Spec => []ConfirmedIsAccepted
<1>1. ImportInv => ConfirmedIsAccepted
  <2> SUFFICES ASSUME ImportInv, NEW r \in requests, r.answer = "invalid"
               PROVE  \/ Len(r.features) > MaxFeatures
                      \/ \E f \in ToSet(r.features) :
                           f.geometry # None /\ f.geometry.type \in DOMAIN Depth /\ WroteNull(f.geometry)
    BY DEF ConfirmedIsAccepted
  <2>1. /\ r.features \in Seq(ToSet(r.features)) /\ r.features # <<>>
        /\ \A f \in ToSet(r.features) : Passes(f.geometry)
        /\ ~ServerAccepts(r.features, MaxFeatures)
    BY DEF ImportInv, RequestsAreSound
  <2>2. Len(r.features) \in Nat /\ Len(r.features) # 0
    BY <2>1
  <2>3. MaxFeatures \in Nat
    BY FilesAssumption
  <2>4. CASE Len(r.features) \in 1..MaxFeatures
    <3>1. PICK i \in DOMAIN r.features : ValidateGeometry(r.features[i].geometry) # "valid"
      BY <2>1, <2>4 DEF ServerAccepts
    <3>2. r.features[i] \in ToSet(r.features)
      BY DEF ToSet
    <3> QED BY <2>1, <3>1, <3>2 DEF Passes
  <2> QED BY <2>2, <2>3, <2>4
<1> QED BY <1>1, ImportInvariance, PTL

\* However often a file is confirmed, after lost answers or from a preview
\* opened again, the server's unique name lets it be stored at most once.
THEOREM ImportedOnceHolds == Spec => []ImportedOnce
<1>1. ImportInv => ImportedOnce
  BY DEF ImportInv
<1> QED BY <1>1, ImportInvariance, PTL
=============================================================================
