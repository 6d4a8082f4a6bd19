------------------------------ MODULE Workspace ------------------------------
(***************************************************************************)
(* The map workspace of one project (App): its layout, and the basemap.    *)
(* A Mapbox theme is one tile layer underneath the project's own layers;   *)
(* while it is there the project's basemap layers are hidden on the map,   *)
(* not on the server.  The reconciliation of the map with the server's     *)
(* layer list (syncLayers) sets the visibility of the same map layers.     *)
(***************************************************************************)
EXTENDS WorkspaceLayout

CONSTANTS
  Themes,
  HasToken,    \* VITE_MAPBOX_ACCESS_TOKEN is set
  Layers,      \* map layers
  LayersOf,    \* LayersOf[p]: the layers of project p
  Basemaps     \* the layers of kind basemap

ASSUME WorkspaceBounds ==
  /\ None \notin Themes /\ HasToken \in BOOLEAN
  /\ LayersOf \in [Projects -> SUBSET Layers] /\ Basemaps \subseteq Layers
  /\ None \notin [theme : Themes, project : Projects, failures : Nat, reported : BOOLEAN]

ErrorLimit == 3   \* TILE_ERROR_LIMIT

VARIABLES
  theme,     \* App's basemapId, or None
  choice,    \* localStorage: the theme chosen for each project, or None
  tiles,     \* the Mapbox layer on the map, or None: its theme, the project
             \* its onBroken was made for, the tiles failed in a row, reported
  shown,     \* the project layers on the map: layer -> visible there (on),
             \* and in the list the map was last reconciled with (listed)
  flagged,   \* the layers hidden for Mapbox (HIDDEN_FLAG)
  visible,   \* the visibility of each layer on the server
  refused    \* the themes whose tiles never load: a bad token, no network

mapVars == <<tiles, shown, flagged>>
basemapVars == <<theme, choice, mapVars, visible, refused>>
vars == <<layoutVars, basemapVars>>

TypeOK ==
  /\ LayoutTypeOK
  /\ theme \in Themes \cup {None} /\ choice \in [Projects -> Themes \cup {None}]
  /\ tiles = None \/ /\ tiles.theme \in Themes /\ tiles.project \in Projects
                     /\ tiles.failures \in Nat /\ tiles.reported \in BOOLEAN
  /\ DOMAIN shown \subseteq Layers /\ flagged \subseteq DOMAIN shown
  /\ visible \in [Layers -> BOOLEAN] /\ refused \subseteq Themes

Init ==
  /\ LayoutInit
  /\ theme = None /\ choice = [p \in Projects |-> None]
  /\ tiles = None /\ shown = [l \in {} |-> TRUE] /\ flagged = {}
  /\ visible \in [Layers -> BOOLEAN]
  /\ refused \in SUBSET Themes

-----------------------------------------------------------------------------
(***************************************************************************)
(* The map as a value: what is on it, what it shows, what is flagged.      *)
(***************************************************************************)
TheMap(t, s, f) == [tiles |-> t, shown |-> s, flagged |-> f]
CurrentMap == TheMap(tiles, shown, flagged)
EmptyMap == TheMap(None, [l \in {} |-> TRUE], {})

SetMap(m) == tiles' = m.tiles /\ shown' = m.shown /\ flagged' = m.flagged

\* syncLayers for the layers of a list: layers no longer wanted go, new ones
\* come, and every one shows what the server says.
Synced(m, wanted) ==
  TheMap(m.tiles, [l \in wanted |-> [on |-> visible[l], listed |-> visible[l]]],
         m.flagged \cap wanted)

HiddenForMapbox(m) ==
  LET hide == {l \in DOMAIN m.shown \cap Basemaps : m.shown[l].on}
  IN  TheMap(m.tiles, [l \in DOMAIN m.shown |-> [m.shown[l] EXCEPT !.on = @ /\ l \notin hide]],
             m.flagged \cup hide)

MutantRestored(m) == TheMap(m.tiles, m.shown, {})

Restored(m) ==
  TheMap(m.tiles, [l \in DOMAIN m.shown |-> [m.shown[l] EXCEPT !.on = @ \/ l \in m.flagged]], {})

\* applyMapboxBasemap: onBroken is the callback of the project that is open.
Applied(m, t, p) ==
  IF t = None \/ ~HasToken THEN Restored([m EXCEPT !.tiles = None])
  ELSE IF m.tiles # None /\ m.tiles.theme = t THEN m
  ELSE HiddenForMapbox([m EXCEPT !.tiles = [theme |-> t, project |-> p,
                                            failures |-> 0, reported |-> FALSE]])

SaveChoice(p, t) ==
  choice' = IF blocked /\ t # None THEN choice ELSE [choice EXCEPT ![p] = t]

-----------------------------------------------------------------------------
(***************************************************************************)
(* Entering a workspace and switching between projects.  cached: TanStack  *)
(* Query still holds the project, its layers are there in the first        *)
(* commit; otherwise the list is empty until the answer arrives.  The      *)
(* effect of MapCanvas runs before that of MapboxBasemap.                  *)
(***************************************************************************)
Entered(p, cached) == IF cached THEN LayersOf[p] ELSE {}

Mount(p, withDrawer, cached) ==
  /\ MountLayout(p, withDrawer)
  /\ theme' = choice[p]
  /\ SetMap(Applied(Synced(EmptyMap, Entered(p, cached)), choice[p], p))
  /\ UNCHANGED <<choice, visible, refused>>

Enter(p, withDrawer, cached) == project = None /\ Mount(p, withDrawer, cached)

Reload == project # None /\ Mount(project, drawer, FALSE)

Leave ==
  /\ project # None
  /\ UnmountLayout
  /\ theme' = None /\ SetMap(EmptyMap)
  /\ UNCHANGED <<choice, visible, refused>>

SwitchProject(p, cached) ==
  /\ project # None /\ p # project
  /\ SwitchLayout(p)
  /\ theme' = choice[p]
  /\ SetMap(Applied(Synced(CurrentMap, Entered(p, cached)), choice[p], p))
  /\ UNCHANGED <<choice, visible, refused>>

-----------------------------------------------------------------------------
\* The project's layer list arrives, or arrives again after a mutation.
LayersArrive ==
  /\ project # None
  /\ SetMap(Synced(CurrentMap, LayersOf[project]))
  /\ UNCHANGED <<layoutVars, theme, choice, visible, refused>>

\* The eye of the layer panel: the server has it, the list is refetched.
ToggleVisible(l) ==
  /\ l \in DOMAIN shown /\ Gesture("theme")
  /\ visible' = [visible EXCEPT ![l] = ~@]
  /\ UNCHANGED <<project, layout, storageVars, blocked, drawer, menu, drag, stage,
                 theme, choice, mapVars, refused>>

\* The basemap selector: the rows of the themes are disabled without a token.
ChooseTheme(t) ==
  /\ Gesture("theme") /\ t # theme
  /\ t # None => HasToken
  /\ theme' = t /\ SaveChoice(project, t)
  /\ SetMap(Applied(CurrentMap, t, project))
  /\ UNCHANGED <<project, layout, storageVars, blocked, drawer, menu, drag, stage,
                 visible, refused>>

TileLoaded ==
  /\ tiles # None /\ tiles.theme \notin refused
  /\ tiles' = [tiles EXCEPT !.failures = 0]
  /\ UNCHANGED <<layoutVars, theme, choice, shown, flagged, visible, refused>>

MutantFailed == 1

Failed == tiles.failures + 1

\* A tile fails.  The third in a row ends the theme: App falls back to the
\* project's basemap and forgets the choice.
TileFailed ==
  /\ tiles # None
  /\ IF Failed >= ErrorLimit /\ ~tiles.reported
       THEN /\ theme' = None
            /\ SaveChoice(tiles.project, None)
            /\ SetMap(Applied(CurrentMap, None, project))
       ELSE /\ tiles' = [tiles EXCEPT !.failures = Failed]
            /\ UNCHANGED <<theme, choice, shown, flagged>>
  /\ UNCHANGED <<layoutVars, visible, refused>>

Next ==
  \/ LayoutNext /\ UNCHANGED basemapVars
  \/ \E p \in Projects, withDrawer, cached \in BOOLEAN : Enter(p, withDrawer, cached)
  \/ Reload
  \/ Leave
  \/ \E p \in Projects, cached \in BOOLEAN : SwitchProject(p, cached)
  \/ LayersArrive
  \/ \E l \in Layers : ToggleVisible(l)
  \/ \E t \in Themes \cup {None} : ChooseTheme(t)
  \/ TileLoaded
  \/ TileFailed

Spec == Init /\ [][Next]_vars

\* Requested tiles are answered, and so is the list of layers.
Fairness == WF_vars(TileFailed /\ tiles.theme \in refused) /\ WF_vars(LayersArrive)

FairSpec == Spec /\ Fairness

-----------------------------------------------------------------------------
(***************************************************************************)
(* Properties.                                                             *)
(***************************************************************************)
\* The map shows every layer its last list shows, the basemap layers only
\* without a theme, whatever themes came and went and whenever the list was
\* reconciled meanwhile: a theme never loses a layer.
VisibleIsShown ==
  \A l \in DOMAIN shown :
    shown[l].listed /\ (tiles = None \/ l \notin Basemaps) => shown[l].on

\* A theme whose tiles never load does not stay: the workspace falls back to
\* the project's basemap, or the user leaves it.
BrokenThemeEnds ==
  (tiles # None /\ tiles.theme \in refused) ~> (tiles = None \/ tiles.theme \notin refused)

\* "While a Mapbox theme is active, project layers of kind basemap are hidden
\* at the OpenLayers level" (map/basemaps/mapboxLayer.ts).
BasemapsAreHidden ==
  tiles # None => \A l \in DOMAIN shown \cap Basemaps : ~shown[l].on
=============================================================================
