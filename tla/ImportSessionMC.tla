-------------------------- MODULE ImportSessionMC --------------------------
(***************************************************************************)
(* A gallery of geometries to compare the two sets of rules on, and small  *)
(* files with steps enough to edit, undo, lose and retry.                  *)
(***************************************************************************)
EXTENDS ImportSession

Pair(x, y) == List(<<Number(x), Number(y)>>)
Corner == <<Pair(0, 0), Pair(1, 0), Pair(1, 1)>>
Geometry(type, node) == [type |-> type, coordinates |-> node]
Entry(geometry, properties) == [geometry |-> geometry, properties |-> properties]

\* Every line and ring of up to four members, good and bad.
Words(n, members) ==
  [i \in 1..Len(members)^n |->
     List([j \in 1..n |-> members[1 + (((i - 1) \div Len(members)^(j - 1)) % Len(members))]])]
Members == <<Pair(0, 0), Pair(1, 0), Pair(200, 0), List(<<Number(0)>>), Number(1), Nothing>>
Lines == Words(0, Members) \o Words(1, Members) \o Words(2, Members) \o Words(3, Members)
         \o Words(4, <<Pair(0, 0), Pair(1, 0), Pair(Infinite, 0)>>)
Nested == Words(2, <<Nothing, Number(1), List(Corner), List(<<List(Corner)>>)>>)
Plain == <<Nothing, Number(1), Pair(0, 91), Pair(1, 1), List(<<>>), List(<<Pair(1, 1)>>),
           List(<<Number(0), Number(0), Nothing>>)>>
All(type, nodes) == [i \in DOMAIN nodes |-> Geometry(type, nodes[i])]
Gallery ==
  All("LineString", Lines) \o All("Polygon", [i \in DOMAIN Lines |-> List(<<Lines[i]>>)])
  \o All("MultiLineString", Nested) \o All("Polygon", Nested) \o All("MultiPolygon", Nested)
  \o All("Point", Plain) \o All("MultiPoint", Plain) \o All("Surface", Plain)

Steps(o, e, h, s, c, a, r) ==
  [open |-> o, edit |-> e, history |-> h, select |-> s, confirm |-> c, add |-> a, refetch |-> r]
File(kind, items, bytes, steps) ==
  [document |-> [kind |-> kind, items |-> items], size |-> bytes, left |-> steps]
\* Every node of the gallery and of the files, four levels down.
MCNodes ==
  LET Below(nodes) == {n \in UNION {ToSet(m.items) : m \in nodes} : TRUE}
      gallery == Gallery
      roots == {gallery[i].coordinates : i \in DOMAIN gallery}
                 \cup {Pair(1, 0), Pair(2, 0), Pair(3, 0), List(<<List(Corner)>>),
                       List(<<Number(1), Number(1), Number(Infinite)>>)}
      one == Below(roots)
      two == Below(one)
      three == Below(two)
  IN {n \in roots \cup one \cup two \cup three \cup Below(three) : TRUE}

Num(n) == [t |-> "number", v |-> n]
Text(n) == [t |-> "text", v |-> n]
Rows == <<[lon |-> Num(1), lat |-> Num(2)], [lon |-> Num(3), lat |-> Null, note |-> Text(1)]>>
Point(x) == Entry(Geometry("Point", Pair(x, 0)), [a |-> Num(x)])

\* The gallery, in pages of twenty.
Pages ==
  [page \in 1..((Len(Gallery) + 19) \div 20) |->
     LET shown == SubSeq(Gallery, 20 * page - 19, IF 20 * page < Len(Gallery) THEN 20 * page ELSE Len(Gallery))
     IN File("FeatureCollection", [i \in DOMAIN shown |-> Entry(shown[i], [a |-> Num(1)])],
             1, Steps(1,0,0,0,0,0,0))]

MCFiles == Pages \o <<
  File("object", <<[key |-> "data", rows |-> <<>>], [key |-> "meta", rows |-> None], [key |-> "list", rows |-> Rows]>>,
       1, Steps(1,1,1,1,1,0,0)),
  File("array", Rows, 1, Steps(1,2,1,0,0,0,0)),
  File("array", <<[lon |-> Num(1), y |-> Num(2)]>>, 1, Steps(1,2,2,0,0,0,0)),
  File("FeatureCollection", <<Point(1), Entry(None, [a |-> Text(1)]), Entry(Geometry("Polygon", List(<<List(Corner)>>)), [b |-> Null])>>,
       1, Steps(1,1,1,2,0,0,0)),
  File("FeatureCollection", <<Point(1)>>, 2, Steps(2,1,0,0,2,1,0)),
  File("FeatureCollection", <<Point(1)>>, 2, Steps(1,1,0,0,0,0,1)),
  File("FeatureCollection", <<Point(1), Point(2), Point(3)>>, 1, Steps(1,1,1,1,1,0,0)),
  File("Feature", <<Entry(Geometry("Point", List(<<Number(1), Number(1), Number(Infinite)>>)), [a |-> Null])>>,
       1, Steps(1,0,0,0,1,0,1)),
  File("object", <<[key |-> "one", rows |-> Rows], [key |-> "two", rows |-> Rows]>>, 1, Steps(1,0,0,0,0,0,1)),
  File("array", <<None>>, 3, Steps(1,0,0,0,0,0,1)) >>

Reads(number, word, json, text) ==
  [blank |-> FALSE, number |-> number, word |-> word, date |-> FALSE, json |-> json, text |-> Text(text)]
MCRaws == {Reads(7, "7", Num(7), 2), Reads(None, "abc", None, 3), [Reads(None, "", None, 0) EXCEPT !.blank = TRUE]}
=============================================================================
