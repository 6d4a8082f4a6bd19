----------------------------- MODULE DraftRules -----------------------------
(***************************************************************************)
(* What the import preview does to a document, as functions: reading it    *)
(* into a draft (parseGeoJson), the commands that edit the draft           *)
(* (useImportDraft), and the two sets of rules a draft is judged by, the   *)
(* browser's (validation.ts) and the server's (geojson_validation.py).     *)
(*                                                                         *)
(* A JSON value is [t, v]: its type and a number that tells values of the  *)
(* type apart.  A node of `coordinates` is a number, a list or a null.     *)
(* Names of columns are kept, their case and order are not.                *)
(***************************************************************************)
EXTENDS Integers, SequencesExt

CONSTANTS
  None,
  Nodes   \* what may stand in the coordinates of a file

Infinite == 1000                  \* what a literal such as 1e400 reads as
Null == [t |-> "null", v |-> 0]

Number(n) == [k |-> "number", v |-> n, items |-> <<>>]
List(s) == [k |-> "list", v |-> 0, items |-> s]
Nothing == [k |-> "null", v |-> 0, items |-> <<>>]

\* A set of nodes with all that is in them.
Closed(S) ==
  \A n \in S :
    /\ n.items \in Seq(S)
    /\ n = Nothing \/ n = Number(n.v) \/ n = List(n.items)

ASSUME NodesAssumption == Closed(Nodes)

-----------------------------------------------------------------------------
(***************************************************************************)
(* Reading.  A document is [kind, items]: the entries of a collection or   *)
(* an array (None: not an object), or the members of a plain object, each  *)
(* [key, rows] (rows: None unless every element is an object).             *)
(***************************************************************************)
IsProperties(p) == p = [n \in DOMAIN p |-> p[n]] /\ IsFiniteSet(DOMAIN p) /\ None \notin DOMAIN p
IsGeometry(g) ==
  g = None \/ (g = [type |-> g.type, coordinates |-> g.coordinates] /\ g.coordinates \in Nodes)
IsListOf(s, Is(_)) == s \in Seq(ToSet(s)) /\ \A x \in ToSet(s) : Is(x)
IsEntry(e) == e = None \/ (IsGeometry(e.geometry) /\ IsProperties(e.properties))
IsRow(r) == r = None \/ IsProperties(r)

IsDocument(document) ==
  LET items == document.items
  IN CASE document.kind \in {"FeatureCollection", "Feature"} -> items = None \/ IsListOf(items, IsEntry)
       [] document.kind = "array" -> IsListOf(items, IsRow)
       [] OTHER -> \A i \in DOMAIN items : items[i].rows = None \/ IsListOf(items[i].rows, IsProperties)

RecordArrayKeys == <<"features", "records", "data", "items", "rows">>
LonNames == <<"lon", "lng", "long", "longitude", "x">>
LatNames == <<"lat", "latitude", "y">>

FirstOf(names, accepted) ==
  LET hits == {i \in DOMAIN names : names[i] \in accepted}
  IN IF hits = {} THEN None ELSE names[CHOOSE i \in hits : \A j \in hits : i <= j]

InferColumns(features) ==
  LET names == SetToSeq(UNION {DOMAIN f.properties : f \in ToSet(features)})
      seen(n) == {f.properties[n].t : f \in {g \in ToSet(features) : n \in DOMAIN g.properties}}
                 \ {"null"}
  IN [i \in DOMAIN names |->
        [name |-> names[i], mixed |-> Cardinality(seen(names[i])) > 1,
         type |-> IF Cardinality(seen(names[i])) = 1 THEN CHOOSE t \in seen(names[i]) : TRUE
                                                     ELSE "text"]]

DetectColumn(columns, candidates) ==
  FirstOf(candidates, {c.name : c \in {d \in ToSet(columns) : d.type = "number"}})

BuildPoint(properties, lon, lat) ==
  LET Usable(c) == c # None /\ c \in DOMAIN properties
                   /\ properties[c].t = "number" /\ properties[c].v < Infinite
  IN IF Usable(lon) /\ Usable(lat)
       THEN [type |-> "Point",
             coordinates |-> List(<<Number(properties[lon].v), Number(properties[lat].v)>>)]
       ELSE None

Identified(items) ==
  [i \in DOMAIN items |-> [id |-> i - 1, geometry |-> items[i].geometry, properties |-> items[i].properties]]
FromRows(rows) == Identified([i \in DOMAIN rows |-> [geometry |-> None, properties |-> rows[i]]])

\* The rows of a plain object: a named or the only filled array, else a named
\* or the first empty one.
ChosenRows(members) ==
  LET of(empty) == {i \in DOMAIN members : members[i].rows # None /\ (members[i].rows = <<>>) = empty}
      keys(S) == {members[i].key : i \in S}
      named(S) == FirstOf(RecordArrayKeys, keys(S))
      filled == of(FALSE)
      empty == of(TRUE)
      rows(key) == members[CHOOSE i \in DOMAIN members : members[i].key = key].rows
  IN CASE named(filled) # None -> rows(named(filled))
       [] named(filled) = None /\ Cardinality(filled) = 1 -> members[CHOOSE i \in filled : TRUE].rows
       [] OTHER -> IF empty # {} THEN <<>> ELSE None

\* The geometry of records follows their cells; of a collection, the file.
Derived(draft) ==
  IF ~draft.derives THEN draft
  ELSE [draft EXCEPT !.features = [i \in DOMAIN @ |->
          [@[i] EXCEPT !.geometry = BuildPoint(draft.features[i].properties, draft.lon, draft.lat)]]]

\* A draft, or None where the code throws a ParseError.
Parse(document) ==
  LET entries == document.items
      collection == document.kind \in {"FeatureCollection", "Feature"}
      rows == CASE document.kind = "array" /\ None \notin ToSet(entries) -> entries
                [] document.kind = "object" -> ChosenRows(entries)
                [] OTHER -> None
      features == CASE collection /\ entries # None /\ None \notin ToSet(entries) -> Identified(entries)
                    [] ~collection /\ rows # None -> FromRows(rows)
                    [] OTHER -> <<>>
      columns == InferColumns(features)
  IN IF features = <<>> THEN None
     ELSE Derived([derives |-> ~collection, columns |-> columns, features |-> features,
                   lon |-> IF collection THEN None ELSE DetectColumn(columns, LonNames),
                   lat |-> IF collection THEN None ELSE DetectColumn(columns, LatNames)])

-----------------------------------------------------------------------------
(***************************************************************************)
(* Editing: the commands, each a function of the draft it is applied to.   *)
(***************************************************************************)
Names(draft) == {c.name : c \in ToSet(draft.columns)}
Ids(draft) == {f.id : f \in ToSet(draft.features)}
NameTaken(draft, name) == name \in Names(draft)

SetCell(draft, c) ==
  LET Set(p) == [n \in DOMAIN p \cup {c.column} |-> IF n = c.column THEN c.value ELSE p[n]]
      Edited(f) == IF f.id = c.id THEN [f EXCEPT !.properties = Set(f.properties)] ELSE f
  IN Derived([draft EXCEPT !.features = [i \in DOMAIN @ |-> Edited(@[i])]])

AddColumn(draft, c) ==
  [draft EXCEPT !.columns = Append(@, [name |-> c.name, mixed |-> FALSE, type |-> "text"])]

Renamed(name, c) == IF name = c.from THEN c.to ELSE name
MutantCoordinateColumn(name, c) == name
CoordinateColumn(name, c) == Renamed(name, c)

\* Should `to` be a property already, one of the two values is lost.
RenameColumn(draft, c) ==
  LET Moved(p) == [n \in {Renamed(m, c) : m \in DOMAIN p} |->
                     IF n = c.to /\ c.from \in DOMAIN p THEN p[c.from] ELSE p[n]]
      Column(d) == [d EXCEPT !.name = Renamed(d.name, c)]
      Feature(f) == [f EXCEPT !.properties = Moved(f.properties)]
  IN Derived([derives |-> draft.derives,
              columns |-> [i \in DOMAIN draft.columns |-> Column(draft.columns[i])],
              features |-> [i \in DOMAIN draft.features |-> Feature(draft.features[i])],
              lon |-> CoordinateColumn(draft.lon, c), lat |-> CoordinateColumn(draft.lat, c)])

DeleteFeatures(draft, c) ==
  [draft EXCEPT !.features =
     FlattenSeq([i \in DOMAIN @ |-> IF @[i].id \in c.ids THEN <<>> ELSE <<@[i]>>])]

SetGeometryColumns(draft, c) ==
  Derived([derives |-> draft.derives, columns |-> draft.columns, features |-> draft.features,
           lon |-> c.lon, lat |-> c.lat])

Apply(draft, c) ==
  CASE c.op = "cell" -> SetCell(draft, c)
    [] c.op = "add" -> AddColumn(draft, c)
    [] c.op = "rename" -> RenameColumn(draft, c)
    [] c.op = "delete" -> DeleteFeatures(draft, c)
    [] c.op = "coordinates" -> SetGeometryColumns(draft, c)

\* Undo replays what is left of the stack from the draft as parsed.
Drafts(base, commands) ==
  LET after[n \in 0..Len(commands)] == IF n = 0 THEN base ELSE Apply(after[n - 1], commands[n])
  IN after
Replay(base, commands) == Drafts(base, commands)[Len(commands)]

\* What was typed in a cell, by what each reader makes of it (None: refused):
\* [blank, number, word, date, json, text].
Coerce(raw, type) ==
  CASE raw.blank -> Null
    [] ~raw.blank /\ type = "number" ->
         IF raw.number # None /\ raw.number < Infinite THEN [t |-> "number", v |-> raw.number] ELSE None
    [] ~raw.blank /\ type = "boolean" ->
         CASE raw.word \in {"true", "yes", "1"} -> [t |-> "boolean", v |-> 1]
           [] raw.word \in {"false", "no", "0"} -> [t |-> "boolean", v |-> 0]
           [] OTHER -> None
    [] ~raw.blank /\ type = "date" -> IF raw.date THEN raw.text ELSE None
    [] ~raw.blank /\ type = "json" -> raw.json
    [] OTHER -> raw.text

-----------------------------------------------------------------------------
(***************************************************************************)
(* The rules, twice: the code of the first fault a geometry is reported    *)
(* for, or "valid".                                                        *)
(***************************************************************************)
Depth == [Point |-> 0, MultiPoint |-> 1, LineString |-> 1, MultiLineString |-> 2,
          Polygon |-> 2, MultiPolygon |-> 3]
Minimum == [Point |-> 0, MultiPoint |-> 0, LineString |-> 2, MultiLineString |-> 2,
            Polygon |-> 4, MultiPolygon |-> 4]
RingTypes == {"Polygon", "MultiPolygon"}

IsPosition(node) ==
  node.k = "list" /\ Len(node.items) \in 2..3 /\ \A i \in DOMAIN node.items : node.items[i].k = "number"

\* What is in the nodes of a sequence, in order, and n levels below a node:
\* a position is three levels down at most.
ItemsOf(nodes) == FlattenSeq([i \in DOMAIN nodes |-> nodes[i].items])
Level(node, n) ==
  CASE n = 0 -> <<node>>
    [] n = 1 -> ItemsOf(<<node>>)
    [] n = 2 -> ItemsOf(ItemsOf(<<node>>))
    [] n = 3 -> ItemsOf(ItemsOf(ItemsOf(<<node>>)))

\* A number that is not finite, or one outside the world, in the first
\* position that has any.
RangeCode(positions) ==
  LET x(i) == positions[i].items[1].v
      y(i) == positions[i].items[2].v
      bad == {i \in DOMAIN positions : x(i) \notin -180..180 \/ y(i) \notin -90..90}
      first == CHOOSE i \in bad : \A j \in bad : i <= j
  IN CASE bad = {} -> "valid"
       [] bad # {} /\ Infinite \in {x(first), y(first)} -> "coordinate_not_finite"
       [] OTHER -> "coordinate_out_of_range"

\* The browser: closes a ring in the count only.
IsOpenRing(ring) ==
  /\ Len(ring) >= 3
  /\ ring[1].k # "list" \/ ring[Len(ring)].k # "list" \/ ring[1] # ring[Len(ring)]

MutantEffectiveLength(node, open) == Len(node)
EffectiveLength(node, open) == IF open THEN Len(node) + 1 ELSE Len(node)

CheckNode(node, depth, type) ==
  IF depth = 0 THEN IsPosition(node)
  ELSE /\ node.k = "list" /\ node.items # <<>>
       /\ depth = 1 =>
            EffectiveLength(node.items, type \in RingTypes /\ IsOpenRing(node.items)) >= Minimum[type]

\* It stops at the first fault, which makes no difference to the code.
CheckStructure(node, depth, type) ==
  \A n \in 0..depth : \A m \in ToSet(Level(node, n)) : CheckNode(m, depth - n, type)

CheckGeometry(geometry) ==
  CASE geometry = None -> "missing_geometry"
    [] geometry # None /\ geometry.type \notin DOMAIN Depth -> "unsupported_geometry_type"
    [] OTHER -> LET depth == Depth[geometry.type] IN
                IF CheckStructure(geometry.coordinates, depth, geometry.type)
                  THEN RangeCode(Level(geometry.coordinates, depth))
                  ELSE "malformed_coordinates"

\* The rows with an error, and the places an issue of the list names: -1 for
\* one that is about a column.
Faulty(draft) == {i \in DOMAIN draft.features : CheckGeometry(draft.features[i].geometry) # "valid"}
OpenRings(draft) ==
  {i \in DOMAIN draft.features \ Faulty(draft) :
     LET g == draft.features[i].geometry IN
     /\ g.type \in RingTypes
     /\ \E ring \in ToSet(Level(g.coordinates, Depth[g.type] - 1)) : IsOpenRing(ring.items)}
Issues(draft) ==
  {i - 1 : i \in Faulty(draft) \cup OpenRings(draft)}
  \cup (IF draft.features = <<>> \/ \E c \in ToSet(draft.columns) : c.mixed THEN {-1} ELSE {})

\* The server: closes the ring, then counts; list() of an end that is not an
\* array raises.  What it adds to close a ring is a copy of a position.
WalkNode(node, depth, type) ==
  LET items == node.items
      ring == depth = 1 /\ type \in RingTypes /\ Len(items) >= 3
      raises == ring /\ (items[1].k # "list" \/ items[Len(items)].k # "list")
      closed == IF ring /\ items[1] # items[Len(items)] THEN Append(items, items[1]) ELSE items
  IN CASE depth = 0 -> IF IsPosition(node) THEN "valid" ELSE "malformed_coordinates"
       [] depth > 0 /\ (node.k # "list" \/ items = <<>>) -> "malformed_coordinates"
       [] depth > 0 /\ node.k = "list" /\ items # <<>> /\ raises -> "raises"
       [] OTHER -> IF depth = 1 /\ Len(closed) < Minimum[type] THEN "malformed_coordinates" ELSE "valid"

\* It goes on after a fault, to what raises if there is any.
Walk(node, depth, type) ==
  LET met == UNION {{WalkNode(m, depth - n, type) : m \in ToSet(Level(node, n))} : n \in 0..depth}
  IN CASE "raises" \in met -> "raises"
       [] "raises" \notin met /\ "malformed_coordinates" \in met -> "malformed_coordinates"
       [] OTHER -> "valid"

ValidateGeometry(geometry) ==
  CASE geometry = None -> "missing_geometry"
    [] geometry # None /\ geometry.type \notin DOMAIN Depth -> "unsupported_geometry_type"
    [] OTHER -> LET depth == Depth[geometry.type]
                    structure == Walk(geometry.coordinates, depth, geometry.type)
                IN IF structure # "valid" THEN structure ELSE RangeCode(Level(geometry.coordinates, depth))

\* JSON has no infinity: the request says null where the draft says one.  The
\* numbers of a geometry that may be confirmed are four levels down at most.
Finite(node) == IF node.k = "number" /\ node.v = Infinite THEN Nothing ELSE node
Inside(node, Op(_)) == [Finite(node) EXCEPT !.items = [i \in DOMAIN @ |-> Op(@[i])]]
Written1(node) == Inside(node, Finite)
Written2(node) == Inside(node, Written1)
Written3(node) == Inside(node, Written2)
Written(node) == Inside(node, Written3)

WrittenGeometry(g) == IF g = None THEN None ELSE [g EXCEPT !.coordinates = Written(@)]
ToFeatureCollection(draft) ==
  [i \in DOMAIN draft.features |-> [draft.features[i] EXCEPT !.geometry = WrittenGeometry(@)]]

ServerAccepts(features, max) ==
  /\ Len(features) \in 1..max
  /\ \A i \in DOMAIN features : ValidateGeometry(features[i].geometry) = "valid"
=============================================================================
