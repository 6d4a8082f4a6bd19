-------------------------- MODULE WorkspaceProofs --------------------------
(***************************************************************************)
(* What hiding and showing the project's basemap layers guarantees for any *)
(* projects, layers and themes, and whatever the layout does meanwhile.    *)
(***************************************************************************)
EXTENDS Workspace, TLAPS

-----------------------------------------------------------------------------
(***************************************************************************)
(* The invariant of a map: a layer the list shows and the map does not is  *)
(* a basemap layer, marked as hidden for Mapbox, and a theme is on the     *)
(* map.  The mark is what VisibleIsShown does not say: it is how the layer *)
(* is found again when the theme goes.                                     *)
(***************************************************************************)
TileLayers == [theme : Themes, project : Projects, failures : Nat, reported : BOOLEAN]

Shown == [on : BOOLEAN, listed : BOOLEAN]

OnlyBasemapsHidden(m) ==
  \A l \in DOMAIN m.shown :
    m.shown[l].listed /\ ~m.shown[l].on => l \in Basemaps \cap m.flagged

MapTyped(m) ==
  /\ m = TheMap(m.tiles, m.shown, m.flagged)
  /\ m.tiles \in TileLayers \cup {None}
  /\ m.flagged \subseteq DOMAIN m.shown
  /\ m.shown \in [DOMAIN m.shown -> Shown]

MapOK(m) ==
  /\ MapTyped(m) /\ OnlyBasemapsHidden(m)
  /\ m.tiles = None => \A l \in DOMAIN m.shown : m.shown[l].listed => m.shown[l].on

Chosen ==
  /\ project \in Projects \cup {None} /\ theme \in Themes \cup {None}
  /\ choice \in [Projects -> Themes \cup {None}]
  /\ visible \in [Layers -> BOOLEAN]

Inv == Chosen /\ MapOK(CurrentMap) /\ DOMAIN shown \subseteq Layers

-----------------------------------------------------------------------------
(***************************************************************************)
(* What happens to a map.                                                  *)
(***************************************************************************)

\* A layer's state on the map, with another visibility.
LEMMA ShownUpdate ==
  ASSUME NEW r \in Shown, NEW b \in BOOLEAN
  PROVE  /\ [r EXCEPT !.on = b] \in Shown
         /\ [r EXCEPT !.on = b].listed = r.listed
         /\ [r EXCEPT !.on = b].on = b
  BY Zenon DEF Shown

\* The current map with other tiles.
LEMMA TilesUpdate ==
  ASSUME NEW m, NEW t, NEW s, NEW f, NEW u, m = TheMap(t, s, f)
  PROVE  [m EXCEPT !.tiles = u] = TheMap(u, s, f)
  BY DEF TheMap

\* syncLayers shows what the list says: nothing stays hidden.
LEMMA SyncedIsOK ==
  ASSUME visible \in [Layers -> BOOLEAN], NEW m, MapTyped(m), NEW wanted \in SUBSET Layers
  PROVE  /\ MapOK(Synced(m, wanted)) /\ DOMAIN Synced(m, wanted).shown = wanted
         /\ Synced(m, wanted).tiles = m.tiles
<1> DEFINE s == Synced(m, wanted)
<1>1. /\ s.tiles = m.tiles /\ s.flagged = m.flagged \cap wanted
      /\ s.shown = [l \in wanted |-> [on |-> visible[l], listed |-> visible[l]]]
      /\ s = TheMap(s.tiles, s.shown, s.flagged)
  BY DEF Synced, TheMap
<1>2. \A l \in wanted : visible[l] \in BOOLEAN
  OBVIOUS
<1>3. MapTyped(s)
  <2>1. s.shown \in [wanted -> Shown] /\ DOMAIN s.shown = wanted
    BY <1>1, <1>2 DEF Shown
  <2> HIDE DEF s
  <2> QED BY <1>1, <2>1 DEF MapTyped
<1>4. \A l \in DOMAIN s.shown : s.shown[l].listed => s.shown[l].on
  BY <1>1
<1> HIDE DEF s
<1>5. MapOK(s)
  BY <1>3, <1>4 DEF MapOK, OnlyBasemapsHidden
<1> QED BY <1>1, <1>5 DEF s

\* hideProjectBasemaps hides and marks the basemap layers, and no other.
LEMMA HiddenIsOK ==
  ASSUME NEW m, MapTyped(m), OnlyBasemapsHidden(m), m.tiles # None
  PROVE  MapOK(HiddenForMapbox(m)) /\ DOMAIN HiddenForMapbox(m).shown = DOMAIN m.shown
<1> DEFINE h == HiddenForMapbox(m)
           hide == {l \in DOMAIN m.shown \cap Basemaps : m.shown[l].on}
<1>1. /\ h.tiles = m.tiles /\ h.flagged = m.flagged \cup hide
      /\ h.shown = [l \in DOMAIN m.shown |-> [m.shown[l] EXCEPT !.on = @ /\ l \notin hide]]
      /\ h = TheMap(h.tiles, h.shown, h.flagged)
  BY DEF HiddenForMapbox, TheMap
<1>2. \A l \in DOMAIN m.shown : m.shown[l] \in Shown
  BY DEF MapTyped
<1>3. ASSUME NEW l \in DOMAIN m.shown
      PROVE  /\ h.shown[l] \in Shown
             /\ h.shown[l].listed = m.shown[l].listed
             /\ h.shown[l].on = (m.shown[l].on /\ l \notin hide)
  <2>1. m.shown[l] \in Shown /\ (m.shown[l].on /\ l \notin hide) \in BOOLEAN
    BY <1>2
  <2>2. h.shown[l] = [m.shown[l] EXCEPT !.on = m.shown[l].on /\ l \notin hide]
    BY <1>1
  <2> DEFINE b == m.shown[l].on /\ l \notin hide
             old == m.shown[l]
             now == h.shown[l]
  <2>3. old \in Shown /\ b \in BOOLEAN /\ now = [old EXCEPT !.on = b]
    BY <2>1, <2>2
  <2> HIDE DEF b, old, now
  <2>4. now \in Shown /\ now.listed = old.listed /\ now.on = b
    BY <2>3, ShownUpdate, Zenon
  <2> QED BY <2>4 DEF b, old, now
<1>4. MapTyped(h)
  BY <1>1, <1>3 DEF MapTyped
<1>5. OnlyBasemapsHidden(h)
  BY <1>1, <1>3 DEF OnlyBasemapsHidden
<1> QED BY <1>1, <1>4, <1>5 DEF MapOK

\* restoreProjectBasemaps finds everything that was hidden: it was marked.
LEMMA RestoredIsOK ==
  ASSUME NEW m, MapTyped(m), OnlyBasemapsHidden(m)
  PROVE  MapOK(Restored(m)) /\ DOMAIN Restored(m).shown = DOMAIN m.shown
<1> DEFINE r == Restored(m)
<1>1. /\ r.tiles = m.tiles /\ r.flagged = {}
      /\ r.shown = [l \in DOMAIN m.shown |-> [m.shown[l] EXCEPT !.on = @ \/ l \in m.flagged]]
      /\ r = TheMap(r.tiles, r.shown, r.flagged)
  BY DEF Restored, TheMap
<1>2. \A l \in DOMAIN m.shown : m.shown[l] \in Shown
  BY DEF MapTyped
<1>3. ASSUME NEW l \in DOMAIN m.shown
      PROVE  /\ r.shown[l] \in Shown
             /\ r.shown[l].listed = m.shown[l].listed
             /\ r.shown[l].on = (m.shown[l].on \/ l \in m.flagged)
  <2>1. m.shown[l] \in Shown /\ (m.shown[l].on \/ l \in m.flagged) \in BOOLEAN
    BY <1>2
  <2>2. r.shown[l] = [m.shown[l] EXCEPT !.on = m.shown[l].on \/ l \in m.flagged]
    BY <1>1
  <2> DEFINE b == m.shown[l].on \/ l \in m.flagged
             old == m.shown[l]
             now == r.shown[l]
  <2>3. old \in Shown /\ b \in BOOLEAN /\ now = [old EXCEPT !.on = b]
    BY <2>1, <2>2
  <2> HIDE DEF b, old, now
  <2>4. now \in Shown /\ now.listed = old.listed /\ now.on = b
    BY <2>3, ShownUpdate, Zenon
  <2> QED BY <2>4 DEF b, old, now
<1>4. MapTyped(r)
  BY <1>1, <1>3 DEF MapTyped
<1>5. \A l \in DOMAIN r.shown : r.shown[l].listed => r.shown[l].on
  BY <1>1, <1>3 DEF OnlyBasemapsHidden
<1>6. OnlyBasemapsHidden(r)
  BY <1>5 DEF OnlyBasemapsHidden
<1> QED BY <1>1, <1>4, <1>5, <1>6 DEF MapOK

\* applyMapboxBasemap, for a theme or none, on any map that is in order.
LEMMA AppliedIsOK ==
  ASSUME NEW m, MapOK(m), NEW t \in Themes \cup {None}, NEW p \in Projects
  PROVE  MapOK(Applied(m, t, p)) /\ DOMAIN Applied(m, t, p).shown = DOMAIN m.shown
<1> DEFINE new == [theme |-> t, project |-> p, failures |-> 0, reported |-> FALSE]
           bare == [m EXCEPT !.tiles = None]
           over == [m EXCEPT !.tiles = new]
<1>1. m = TheMap(m.tiles, m.shown, m.flagged)
  BY DEF MapOK, MapTyped
<1>2. /\ bare.tiles = None /\ bare.shown = m.shown /\ bare.flagged = m.flagged
      /\ bare = TheMap(None, m.shown, m.flagged)
  <2>1. bare = TheMap(None, m.shown, m.flagged)
    BY <1>1, TilesUpdate
  <2> HIDE DEF bare
  <2> QED BY <2>1 DEF TheMap
<1>3. /\ over.tiles = new /\ over.shown = m.shown /\ over.flagged = m.flagged
      /\ over = TheMap(new, m.shown, m.flagged)
  <2> HIDE DEF new
  <2>1. over = TheMap(new, m.shown, m.flagged)
    BY <1>1, TilesUpdate
  <2> HIDE DEF over
  <2> QED BY <2>1 DEF TheMap
<1>4. MapTyped(bare) /\ OnlyBasemapsHidden(bare)
  BY <1>2 DEF MapOK, MapTyped, OnlyBasemapsHidden
<1>5. CASE t = None \/ ~HasToken
  BY <1>2, <1>4, <1>5, RestoredIsOK DEF Applied
<1>6. CASE ~(t = None \/ ~HasToken) /\ m.tiles # None /\ m.tiles.theme = t
  BY <1>6 DEF Applied
<1>7. CASE ~(t = None \/ ~HasToken) /\ ~(m.tiles # None /\ m.tiles.theme = t)
  <2>1. new \in TileLayers
    BY <1>7 DEF TileLayers
  <2>2. new # None
    BY <2>1, WorkspaceBounds DEF TileLayers
  <2>3. MapTyped(over) /\ OnlyBasemapsHidden(over)
    BY <1>3, <2>1 DEF MapOK, MapTyped, OnlyBasemapsHidden
  <2>4. Applied(m, t, p) = HiddenForMapbox(over)
    BY <1>7 DEF Applied
  <2> HIDE DEF new, over
  <2> QED BY <1>3, <2>2, <2>3, <2>4, HiddenIsOK
<1> QED BY <1>5, <1>6, <1>7

\* A map that becomes the current one keeps its order.
LEMMA SetMapIsOK ==
  ASSUME NEW m, MapOK(m), DOMAIN m.shown \subseteq Layers, SetMap(m)
  PROVE  MapOK(CurrentMap)' /\ (DOMAIN shown \subseteq Layers)'
<1>1. CurrentMap' = m
  BY DEF SetMap, CurrentMap, MapOK, MapTyped, TheMap
<1>2. MapOK(CurrentMap')
  BY <1>1
<1> QED BY <1>2 DEF SetMap, CurrentMap, MapOK, MapTyped, OnlyBasemapsHidden, TheMap

\* The map of a workspace that has just been entered has nothing on it.
LEMMA EmptyMapIsOK == MapOK(EmptyMap) /\ DOMAIN EmptyMap.shown = {}
  BY DEF EmptyMap, TheMap, MapOK, MapTyped, OnlyBasemapsHidden

\* A list that is cached is the project's; one that is not is empty.
LEMMA EnteredIsLayers ==
  ASSUME NEW p \in Projects, NEW cached \in BOOLEAN
  PROVE  Entered(p, cached) \in SUBSET Layers
  BY WorkspaceBounds DEF Entered

\* The current map is made of the three variables.
LEMMA CurrentMapParts ==
  CurrentMap.tiles = tiles /\ CurrentMap.shown = shown /\ CurrentMap.flagged = flagged
  BY DEF CurrentMap, TheMap

-----------------------------------------------------------------------------
(***************************************************************************)
(* Init and Next.                                                          *)
(***************************************************************************)

\* Nothing in the layout opens another project.
LEMMA LayoutKeepsProject == LayoutNext => project' = project
<1> SUFFICES ASSUME LayoutNext PROVE project' = project
  OBVIOUS
<1> USE DEF Commit, MenuUnchanged
<1>1. CASE StorageFills BY <1>1 DEF StorageFills
<1>2. CASE \E p \in Dockable : TogglePanel(p) \/ ClosePanel(p) \/ MoveToSide(p) \/ Detach(p)
  BY <1>2 DEF TogglePanel, ClosePanel, MoveToSide, Detach
<1>3. CASE (\E p \in Panels, width \in Widths : PanelResized(p, width))
             \/ \E p \in Dockable : WidthObserved(p)
  BY <1>3 DEF PanelResized, WidthObserved, Observed
<1>4. CASE ToggleTable \/ LayerSelected
  BY <1>4 DEF ToggleTable, LayerSelected
<1>5. CASE \E p \in Dockable : \E grab \in {8, Width(p) - 8} : BeginDrag(p, grab)
  BY <1>5 DEF BeginDrag
<1>6. CASE \E x \in PointerXs, y \in PointerYs : DragMove([x |-> x, y |-> y])
  BY <1>6 DEF DragMove
<1>7. CASE DragEnd
  BY <1>7 DEF DragEnd
<1>8. CASE \E s \in Stages : WindowResized(s)
  BY <1>8 DEF WindowResized
<1>9. CASE ToggleMenu \/ DismissMenu \/ ResetLayout
  BY <1>9 DEF ToggleMenu, DismissMenu, ResetLayout
<1>10. CASE \E s \in Scopes, name \in Names : SavePreset(s, name) \/ ElsewhereSaves(s, name)
  BY <1>10 DEF SavePreset, ElsewhereSaves
<1>11. CASE \E preset \in menu.list : RemovePreset(preset) \/ ApplyPreset(preset)
  BY <1>11 DEF RemovePreset, ApplyPreset
<1>12. CASE \E p \in Projects : ElsewhereOpens(p)
  BY <1>12 DEF ElsewhereOpens
<1>13. CASE \E preset \in elsewhere : ElsewhereRemoves(preset)
  BY <1>13 DEF ElsewhereRemoves
<1> QED
  BY <1>1, <1>2, <1>3, <1>4, <1>5, <1>6, <1>7, <1>8, <1>9, <1>10, <1>11, <1>12, <1>13
  DEF LayoutNext

\* The map is empty to begin with.
LEMMA InvInit == Init => Inv
<1> SUFFICES ASSUME Init PROVE Inv
  OBVIOUS
<1>1. Chosen
  BY DEF Init, LayoutInit, Chosen
<1>2. CurrentMap = EmptyMap
  BY DEF Init, CurrentMap, EmptyMap
<1> QED BY <1>1, <1>2, EmptyMapIsOK, CurrentMapParts DEF Inv

\* The choice of a theme is remembered for a project, or it is not.
LEMMA ChoiceStaysTyped ==
  ASSUME choice \in [Projects -> Themes \cup {None}], NEW p, NEW t \in Themes \cup {None},
         SaveChoice(p, t)
  PROVE  choice' \in [Projects -> Themes \cup {None}]
<1>1. choice' = choice \/ choice' = [choice EXCEPT ![p] = t]
  BY DEF SaveChoice
<1> QED BY <1>1

\* Mounting: an empty map is reconciled, then the remembered theme applied.
LEMMA MountKeepsInv ==
  ASSUME Inv, NEW p \in Projects, NEW w, NEW cached \in BOOLEAN, Mount(p, w, cached)
  PROVE  Inv'
<1> DEFINE s == Synced(EmptyMap, Entered(p, cached))
<1>1. MapOK(s) /\ DOMAIN s.shown \in SUBSET Layers
  BY SyncedIsOK, EmptyMapIsOK, EnteredIsLayers DEF Inv, Chosen, MapOK
<1>2. choice[p] \in Themes \cup {None}
  BY DEF Inv, Chosen
<1>3. /\ MapOK(Applied(s, choice[p], p))
      /\ DOMAIN Applied(s, choice[p], p).shown \subseteq Layers
  <2> HIDE DEF s
  <2> QED BY <1>1, <1>2, AppliedIsOK
<1>4. MapOK(CurrentMap)' /\ (DOMAIN shown \subseteq Layers)'
  BY <1>3, SetMapIsOK DEF Mount
<1>5. Chosen'
  BY <1>2 DEF Inv, Chosen, Mount, MountLayout
<1> QED BY <1>4, <1>5 DEF Inv

\* Every step keeps the invariant.
LEMMA InvStep == Inv /\ [Next]_vars => Inv'
<1> SUFFICES ASSUME Inv, [Next]_vars PROVE Inv'
  OBVIOUS
<1> USE DEF Inv
<1>a. MapTyped(CurrentMap)
  BY DEF MapOK
<1>1. ASSUME UNCHANGED mapVars, Chosen' PROVE Inv'
  BY <1>1 DEF mapVars, CurrentMap, MapOK, MapTyped, OnlyBasemapsHidden, TheMap
<1>2. CASE LayoutNext /\ UNCHANGED basemapVars
  BY <1>1, <1>2, LayoutKeepsProject DEF basemapVars, Chosen
<1>3. CASE \E p \in Projects, withDrawer, cached \in BOOLEAN : Enter(p, withDrawer, cached)
  BY <1>3, MountKeepsInv DEF Enter
<1>4. CASE Reload
  BY <1>4, MountKeepsInv DEF Reload, Chosen
<1>5. CASE Leave
  <2>1. Chosen'
    BY <1>5 DEF Leave, UnmountLayout, Chosen
  <2> QED BY <1>5, <2>1, EmptyMapIsOK, SetMapIsOK DEF Leave
<1>6. ASSUME NEW p \in Projects, NEW cached \in BOOLEAN, SwitchProject(p, cached) PROVE Inv'
  <2> DEFINE s == Synced(CurrentMap, Entered(p, cached))
  <2>1. MapOK(s) /\ DOMAIN s.shown \in SUBSET Layers
    BY <1>a, SyncedIsOK, EnteredIsLayers DEF Chosen
  <2>2. choice[p] \in Themes \cup {None}
    BY DEF Chosen
  <2>3. /\ MapOK(Applied(s, choice[p], p))
        /\ DOMAIN Applied(s, choice[p], p).shown \subseteq Layers
    <3> HIDE DEF s
    <3> QED BY <2>1, <2>2, AppliedIsOK
  <2>4. MapOK(CurrentMap)' /\ (DOMAIN shown \subseteq Layers)'
    BY <1>6, <2>3, SetMapIsOK DEF SwitchProject
  <2>5. Chosen'
    BY <1>6, <2>2 DEF Chosen, SwitchProject, SwitchLayout
  <2> QED BY <2>4, <2>5
<1>7. CASE LayersArrive
  <2>1. LayersOf[project] \in SUBSET Layers
    BY <1>7, WorkspaceBounds DEF LayersArrive, Chosen
  <2>2. /\ MapOK(Synced(CurrentMap, LayersOf[project]))
        /\ DOMAIN Synced(CurrentMap, LayersOf[project]).shown \subseteq Layers
    BY <1>a, <2>1, SyncedIsOK DEF Chosen
  <2>3. Chosen'
    BY <1>7 DEF LayersArrive, layoutVars, Chosen
  <2> QED BY <1>7, <2>2, <2>3, SetMapIsOK DEF LayersArrive
<1>8. ASSUME NEW l \in Layers, ToggleVisible(l) PROVE Inv'
  <2>1. visible' \in [Layers -> BOOLEAN]
    BY <1>8, Zenon DEF ToggleVisible, Chosen
  <2>2. Chosen'
    BY <1>8, <2>1 DEF ToggleVisible, Chosen
  <2> QED BY <1>1, <1>8, <2>2 DEF ToggleVisible
<1>9. ASSUME NEW t \in Themes \cup {None}, ChooseTheme(t) PROVE Inv'
  <2>1. project \in Projects
    BY <1>9 DEF ChooseTheme, Gesture, Chosen
  <2>2. /\ MapOK(Applied(CurrentMap, t, project))
        /\ DOMAIN Applied(CurrentMap, t, project).shown \subseteq Layers
    BY <2>1, AppliedIsOK, CurrentMapParts
  <2>3. choice' \in [Projects -> Themes \cup {None}]
    BY <1>9, ChoiceStaysTyped DEF ChooseTheme, Chosen
  <2>4. Chosen'
    BY <1>9, <2>3 DEF ChooseTheme, Chosen
  <2> QED BY <1>9, <2>2, <2>4, SetMapIsOK DEF ChooseTheme
<1>10. ASSUME tiles # None, NEW n \in Nat, tiles' = [tiles EXCEPT !.failures = n],
              UNCHANGED <<shown, flagged>>, Chosen'
       PROVE  Inv'
  <2>1. tiles \in TileLayers
    BY <1>a, <1>10, CurrentMapParts DEF MapTyped
  <2>2. tiles' \in TileLayers
    BY <1>10, <2>1 DEF TileLayers
  <2>3. tiles' # None
    BY <2>2, WorkspaceBounds DEF TileLayers
  <2>4. MapTyped(TheMap(tiles', shown, flagged))
    BY <1>a, <2>2 DEF MapTyped, CurrentMap, TheMap
  <2>5. MapOK(TheMap(tiles', shown, flagged))
    BY <2>3, <2>4 DEF MapOK, OnlyBasemapsHidden, CurrentMap, TheMap
  <2>6. SetMap(TheMap(tiles', shown, flagged))
    BY <1>10 DEF SetMap, TheMap
  <2>7. DOMAIN TheMap(tiles', shown, flagged).shown \subseteq Layers
    BY DEF TheMap
  <2> QED BY <1>10, <2>5, <2>6, <2>7, SetMapIsOK
<1>11. CASE TileLoaded
  <2>1. Chosen'
    BY <1>11 DEF TileLoaded, layoutVars, Chosen
  <2> QED BY <1>10, <1>11, <2>1 DEF TileLoaded
<1>12. CASE TileFailed
  <2>1. tiles # None /\ tiles \in TileLayers
    BY <1>a, <1>12, CurrentMapParts DEF TileFailed, MapTyped
  <2>2. Failed \in Nat /\ tiles.project \in Projects
    BY <2>1 DEF Failed, TileLayers
  <2>3. CASE ~(Failed >= ErrorLimit /\ ~tiles.reported)
    <3>1. Chosen'
      BY <1>12, <2>3 DEF TileFailed, layoutVars, Chosen
    <3> QED BY <1>10, <1>12, <2>1, <2>2, <2>3, <3>1 DEF TileFailed
  <2>4. CASE Failed >= ErrorLimit /\ ~tiles.reported
    <3>1. Applied(CurrentMap, None, project) = Applied(CurrentMap, None, tiles.project)
      BY DEF Applied
    <3>2. /\ MapOK(Applied(CurrentMap, None, project))
          /\ DOMAIN Applied(CurrentMap, None, project).shown \subseteq Layers
      BY <2>2, <3>1, AppliedIsOK, CurrentMapParts
    <3>3. /\ theme' = None /\ SaveChoice(tiles.project, None)
          /\ SetMap(Applied(CurrentMap, None, project))
          /\ UNCHANGED <<project, visible>>
      BY <1>12, <2>4 DEF TileFailed, layoutVars
    <3>4. choice' \in [Projects -> Themes \cup {None}]
      BY <3>3, ChoiceStaysTyped DEF Chosen
    <3>5. Chosen'
      BY <3>3, <3>4 DEF Chosen
    <3> QED BY <3>2, <3>3, <3>5, SetMapIsOK
  <2> QED BY <2>3, <2>4
<1>13. CASE UNCHANGED vars
  <2>1. Chosen'
    BY <1>13 DEF vars, layoutVars, basemapVars, Chosen
  <2> QED BY <1>1, <1>13, <2>1 DEF vars, basemapVars
<1> QED
  BY <1>2, <1>3, <1>4, <1>5, <1>6, <1>7, <1>8, <1>9, <1>11, <1>12, <1>13 DEF Next

-----------------------------------------------------------------------------
(***************************************************************************)
(* The theorems.                                                           *)
(***************************************************************************)

\* On every map the program reaches, what the list shows and the map does not
\* is a basemap layer marked for the moment the theme goes (mapboxLayer.ts).
THEOREM BasemapInvariance == Spec => []Inv
<1>1. Init => Inv
  BY InvInit
<1>2. Inv /\ [Next]_vars => Inv'
  BY InvStep
<1> QED BY <1>1, <1>2, PTL DEF Spec

\* A theme never loses a layer: without one the map shows all the list shows,
\* with one at least all but the basemap layers, for any number of projects,
\* layers and themes.
THEOREM VisibleIsShownHolds == Spec => []VisibleIsShown
<1>1. Inv => VisibleIsShown
  BY CurrentMapParts DEF Inv, MapOK, OnlyBasemapsHidden, VisibleIsShown
<1> QED BY <1>1, BasemapInvariance, PTL
=============================================================================
