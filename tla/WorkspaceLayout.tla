--------------------------- MODULE WorkspaceLayout ---------------------------
(***************************************************************************)
(* The layout of the map workspace in one browser tab: which panels are    *)
(* open, how wide, docked where or floating where; its copy in             *)
(* localStorage, one per project; the named presets, shared with the other *)
(* tabs of the browser; and the drawer parameter of the URL.               *)
(*                                                                         *)
(* React commits a state change and runs the effect that saves the layout  *)
(* in one go: an action here is a user's gesture with that effect.         *)
(* Lengths are in pixels.                                                  *)
(***************************************************************************)
EXTENDS Integers, FiniteSets, FiniteSetsExt

CONSTANTS
  Projects, None,
  Names,      \* names of presets
  Stages,     \* sizes of the window: records [w, h]
  Widths,     \* widths the user drags a panel to
  Budgets,    \* bounds: how many gestures of each kind; a behaviour has one of them
  MaxPresets  \* bound: presets ever created

ASSUME LayoutBounds ==
  /\ None \notin Projects
  /\ Stages \subseteq [w : Nat, h : Nat] /\ Stages # {}
  /\ Widths \subseteq Nat /\ MaxPresets \in Nat
  /\ Budgets \subseteq [{"panel", "preset", "theme", "route", "fault"} -> Nat]

Dockable == {"sidebar", "inspector"}
Panels == Dockable \cup {"table"}
Sides == {"left", "right"}
Scopes == Projects \cup {"global"}

MutantDockZone == 8

DockZone == 72        \* DOCK_ZONE_PX
DragThreshold == 6    \* DRAG_THRESHOLD_PX
Header == 48          \* how much of a header must stay inside the stage
AssumedWidth == 320   \* the panel width a drop is clamped for
DefaultWidth == [sidebar |-> 280, inspector |-> 300]
Tolerance == 2        \* a width observed this close to the known one is no change

DefaultSides == [sidebar |-> "left", inspector |-> "right"]
DefaultLayout ==
  [open  |-> [p \in Panels |-> p # "table"],
   side  |-> DefaultSides,
   float |-> [p \in Dockable |-> None],
   size  |-> [p \in Panels |-> 0]]       \* 0: no width known, the style sheet's applies

VARIABLES
  project,   \* the project of the route, None outside the workspace
  layout,    \* App's layout
  stored,    \* localStorage: the layout of each project, or None
  blocked,   \* localStorage refuses writes
  drawer,    \* the URL says drawer=1
  presets,   \* localStorage: the presets of each scope
  nextId,    \* crypto.randomUUID
  menu,      \* the layout menu: [open, list]; list is read when it opens
  elsewhere, \* the presets listed in the menu of another tab
  drag,      \* AppShell's drag, or None
  stage,     \* the size of the window
  left       \* gestures left of each kind

storageVars == <<stored, presets, nextId, elsewhere>>
layoutVars == <<project, layout, storageVars, blocked, drawer, menu, drag, stage, left>>

Min2(a, b) == IF a < b THEN a ELSE b
Max2(a, b) == IF a > b THEN a ELSE b
Distance(a, b) == IF a < b THEN b - a ELSE a - b

Positions == [x : Int, y : Int]
Layouts ==
  [open : [Panels -> BOOLEAN], side : [Dockable -> Sides],
   float : [Dockable -> Positions \cup {None}], size : [Panels -> Nat]]
Preset(scope, id, name, contents) ==
  [scope |-> scope, id |-> id, name |-> name, layout |-> contents]

MenuClosed == [open |-> FALSE, list |-> {}]

LayoutInit ==
  /\ project = None /\ layout = DefaultLayout
  /\ stored = [p \in Projects |-> None]
  /\ blocked = FALSE /\ drawer = FALSE
  /\ presets = [s \in Scopes |-> {}] /\ nextId = 1
  /\ menu = MenuClosed /\ elsewhere = {} /\ drag = None
  /\ stage \in Stages
  /\ left \in Budgets

-----------------------------------------------------------------------------
(***************************************************************************)
(* localStorage.  A refused write is swallowed.                            *)
(***************************************************************************)
Load(p) == IF stored[p] = None THEN DefaultLayout ELSE stored[p]

Save(p, contents) ==
  stored' = IF blocked THEN stored ELSE [stored EXCEPT ![p] = contents]

WritePresets(s, contents) ==
  presets' = IF blocked THEN presets ELSE [presets EXCEPT ![s] = contents]

\* The other entries of a scope when a preset of this name is saved.
OthersNamed(s, name) == {e \in presets[s] : e.name # name}

\* savePreset: a name already in the scope keeps its id.
StorePreset(s, name, contents) ==
  LET match == {e \in presets[s] : e.name = name}
      id == IF match = {} THEN nextId ELSE (CHOOSE e \in match : TRUE).id
  IN  /\ nextId <= MaxPresets
      /\ nextId' = IF match = {} THEN nextId + 1 ELSE nextId
      /\ WritePresets(s, OthersNamed(s, name) \cup {Preset(s, id, name, contents)})

\* deletePreset, by the id of an entry a menu listed some time ago.
AfterDelete(p, preset) ==
  {e \in presets[IF preset.scope = "global" THEN "global" ELSE p] : e.id # preset.id}

DeletePreset(p, preset) ==
  WritePresets(IF preset.scope = "global" THEN "global" ELSE p, AfterDelete(p, preset))

Listed(p, contents) == contents[p] \cup contents["global"]

Spend(kind) == left[kind] > 0 /\ left' = [left EXCEPT ![kind] = @ - 1]

StorageFills ==
  /\ ~blocked /\ blocked' = TRUE /\ Spend("fault")
  /\ UNCHANGED <<project, layout, storageVars, drawer, menu, drag, stage>>

-----------------------------------------------------------------------------
(***************************************************************************)
(* Entering, leaving and switching.                                        *)
(***************************************************************************)
\* App mounts: from a platform page, or again when the page is reloaded.
MountLayout(p, withDrawer) ==
  LET loaded == IF withDrawer THEN [Load(p) EXCEPT !.open.table = TRUE] ELSE Load(p)
  IN  /\ Spend("route")
      /\ project' = p /\ layout' = loaded /\ drawer' = withDrawer
      /\ Save(p, loaded)
      /\ menu' = MenuClosed /\ drag' = None
      /\ UNCHANGED <<blocked, presets, nextId, elsewhere, stage>>

UnmountLayout ==
  /\ project' = None /\ layout' = DefaultLayout /\ drawer' = FALSE
  /\ menu' = MenuClosed /\ drag' = None
  /\ UNCHANGED <<blocked, storageVars, stage, left>>

\* The project switcher changes the route only: App stays mounted with the
\* layout it has, and the effect saves it under the new project.
SwitchLayout(p) ==
  /\ Spend("route")
  /\ project' = p /\ drawer' = FALSE
  /\ Save(p, layout)
  /\ UNCHANGED <<layout, blocked, presets, nextId, elsewhere, menu, drag, stage>>

-----------------------------------------------------------------------------
(***************************************************************************)
(* Gestures on the panels.                                                 *)
(***************************************************************************)
Gesture(kind) == project # None /\ Spend(kind)

\* setLayout and the effect that saves what it set.
Commit(contents) ==
  /\ layout' = contents /\ Save(project, contents)
  /\ UNCHANGED <<project, blocked, presets, nextId, elsewhere, stage>>

TogglePanel(p) ==
  /\ Gesture("panel")
  /\ Commit([layout EXCEPT !.open[p] = ~@])
  /\ UNCHANGED <<drawer, menu, drag>>

\* The close button of a title bar.
ClosePanel(p) == layout.open[p] /\ TogglePanel(p)

ToggleTable ==
  /\ Gesture("panel")
  /\ drawer' = ~layout.open.table
  /\ Commit([layout EXCEPT !.open.table = ~@])
  /\ UNCHANGED <<menu, drag>>

\* Another layer is selected: the table comes up.
LayerSelected ==
  /\ Gesture("panel")
  /\ drawer' = TRUE
  /\ IF layout.open.table
       THEN UNCHANGED <<project, layout, storageVars, blocked, stage>>
       ELSE Commit([layout EXCEPT !.open.table = TRUE])
  /\ UNCHANGED <<menu, drag>>

\* How wide the style sheet lets a panel be: at least 200 pixels, otherwise at
\* most 520 and 40 percent of the window.
Fitted(width) == Max2(200, Min2(width, Min2(520, (2 * stage.w) \div 5)))

Width(p) == Fitted(IF layout.size[p] = 0 THEN DefaultWidth[p] ELSE layout.size[p])

\* The resize observer of an open panel reports its size.
Observed(p, width) ==
  /\ Gesture("panel") /\ layout.open[p] /\ width > 0
  /\ layout.size[p] = 0 \/ Distance(layout.size[p], width) > Tolerance
  /\ Commit([layout EXCEPT !.size[p] = width])
  /\ UNCHANGED <<drawer, menu, drag>>

\* The user drags the corner of a panel, or the edge of the drawer.
PanelResized(p, width) ==
  /\ p \in Dockable => width = Fitted(width)
  /\ Observed(p, width)

\* A panel has just appeared, or the window has made it narrower.  It takes from
\* the same bound.
WidthObserved(p) == Observed(p, Width(p))

Docked(p, side) == [layout EXCEPT !.side[p] = side, !.float[p] = None]
Floating(p, position) == [layout EXCEPT !.float[p] = position]

Opposite(side) == IF side = "left" THEN "right" ELSE "left"

\* The buttons of the title bar: dock, or move to the other side.
MoveToSide(p) ==
  /\ Gesture("panel") /\ layout.open[p]
  /\ Commit(Docked(p, IF layout.float[p] # None THEN layout.side[p]
                                                ELSE Opposite(layout.side[p])))
  /\ UNCHANGED <<drawer, menu, drag>>

\* Two panels docked open on one side split its height.
Dragged(p) == IF drag = None THEN FALSE ELSE drag.panel = p /\ drag.started
IsDocked(p) == layout.open[p] /\ layout.float[p] = None /\ ~Dragged(p)
Stacked == (\A p \in Dockable : IsDocked(p)) /\ layout.side.sidebar = layout.side.inspector

\* Where a panel is on the stage; 12 is the gap to the edges.
Corner(p) ==
  IF layout.float[p] # None THEN layout.float[p]
  ELSE [x |-> IF layout.side[p] = "left" THEN 12 ELSE stage.w - Width(p) - 12,
        y |-> IF Stacked /\ p = "inspector" THEN stage.h \div 2 + 6 ELSE 12]

\* Detach: a nudge inward, the whole panel on the stage when it fits.
DetachedAt(p) ==
  [x |-> Max2(12, Min2(Corner(p).x + 24, stage.w - Width(p) - 12)),
   y |-> Max2(12, Min2(Corner(p).y + 24, stage.h - 160))]

Detach(p) ==
  /\ Gesture("panel") /\ IsDocked(p)
  /\ Commit(Floating(p, DetachedAt(p)))
  /\ UNCHANGED <<drawer, menu, drag>>

-----------------------------------------------------------------------------
(***************************************************************************)
(* Dragging a panel by its title bar.  The geometry of the stage is taken  *)
(* once, when the drag begins.                                             *)
(***************************************************************************)
PointerXs == {10, DockZone, stage.w - DockZone, stage.w - 10}
PointerYs == {-30, stage.h + 30}

BeginDrag(p, grab) ==
  /\ Gesture("panel") /\ layout.open[p]
  /\ Corner(p).x + grab \in 0 .. stage.w /\ Corner(p).y + 10 \in 0 .. stage.h
  /\ drag' = [panel |-> p, started |-> FALSE, stage |-> stage,
              grab |-> grab, at |-> [x |-> Corner(p).x + grab, y |-> Corner(p).y + 10]]
  /\ UNCHANGED <<project, layout, storageVars, blocked, drawer, menu, stage>>

DragMove(to) ==
  /\ drag # None /\ to # drag.at
  /\ drag.started \/ Distance(to.x, drag.at.x) + Distance(to.y, drag.at.y) >= DragThreshold
  /\ drag' = [drag EXCEPT !.started = TRUE, !.at = to]
  /\ UNCHANGED <<project, layout, storageVars, blocked, drawer, menu, stage, left>>

MutantClampFloat(x, y, s) ==
  [x |-> Min2(Max2(x, Header - AssumedWidth), Max2(0, s.w - Header)),
   y |-> Max2(y, 0)]

ClampFloat(x, y, s) ==
  [x |-> Min2(Max2(x, Header - AssumedWidth), Max2(0, s.w - Header)),
   y |-> Min2(Max2(y, 0), Max2(0, s.h - Header))]

\* Where the panel goes when the pointer is released.
Dropped ==
  IF drag.at.x < DockZone THEN Docked(drag.panel, "left")
  ELSE IF drag.stage.w - drag.at.x < DockZone THEN Docked(drag.panel, "right")
  ELSE Floating(drag.panel, ClampFloat(drag.at.x - drag.grab, drag.at.y - 10, drag.stage))

DragEnd ==
  /\ drag # None /\ drag' = None
  /\ IF drag.started THEN Commit(Dropped)
                     ELSE UNCHANGED <<project, layout, storageVars, blocked, stage>>
  /\ UNCHANGED <<drawer, menu, left>>

WindowResized(s) ==
  /\ s # stage /\ stage' = s
  /\ UNCHANGED <<project, layout, storageVars, blocked, drawer, menu, drag, left>>

-----------------------------------------------------------------------------
(***************************************************************************)
(* The layout menu, here and in another tab of the same browser.           *)
(***************************************************************************)
MenuUnchanged == UNCHANGED <<project, layout, stored, blocked, drawer, drag, stage>>

ToggleMenu ==
  /\ Gesture("preset")
  /\ menu' = IF menu.open THEN MenuClosed ELSE [open |-> TRUE, list |-> Listed(project, presets)]
  /\ MenuUnchanged /\ UNCHANGED <<presets, nextId, elsewhere>>

\* A click outside, or Escape.
DismissMenu ==
  /\ menu.open /\ menu' = MenuClosed
  /\ MenuUnchanged /\ UNCHANGED <<presets, nextId, elsewhere, left>>

SavePreset(s, name) ==
  /\ Gesture("preset") /\ menu.open /\ s \in {project, "global"}
  /\ StorePreset(s, name, layout)
  /\ menu' = [menu EXCEPT !.list = Listed(project, presets')]
  /\ MenuUnchanged /\ UNCHANGED elsewhere

RemovePreset(preset) ==
  /\ Gesture("preset") /\ menu.open /\ preset \in menu.list
  /\ DeletePreset(project, preset)
  /\ menu' = [menu EXCEPT !.list = Listed(project, presets')]
  /\ MenuUnchanged /\ UNCHANGED <<nextId, elsewhere>>

ApplyPreset(preset) ==
  /\ Gesture("preset") /\ menu.open /\ preset \in menu.list
  /\ Commit(preset.layout) /\ menu' = MenuClosed
  /\ UNCHANGED <<drawer, drag>>

ResetLayout ==
  /\ Gesture("preset") /\ menu.open
  /\ Commit(DefaultLayout) /\ menu' = MenuClosed
  /\ UNCHANGED <<drawer, drag>>

\* The menu of another tab, on any project: the same three handlers.
ElsewhereOpens(p) ==
  /\ Gesture("preset")
  /\ elsewhere' = Listed(p, presets)
  /\ MenuUnchanged /\ UNCHANGED <<presets, nextId, menu>>

ElsewhereSaves(s, name) ==
  /\ Gesture("preset") /\ StorePreset(s, name, DefaultLayout)
  /\ MenuUnchanged /\ UNCHANGED <<menu, elsewhere>>

ElsewhereRemoves(preset) ==
  /\ Gesture("preset") /\ preset \in elsewhere
  /\ DeletePreset(IF preset.scope = "global" THEN CHOOSE p \in Projects : TRUE ELSE preset.scope,
                  preset)
  /\ elsewhere' = elsewhere \ {preset}
  /\ MenuUnchanged /\ UNCHANGED <<nextId, menu>>

LayoutNext ==
  \/ StorageFills
  \/ \E p \in Dockable : TogglePanel(p) \/ ClosePanel(p) \/ MoveToSide(p) \/ Detach(p)
  \/ \E p \in Panels, width \in Widths : PanelResized(p, width)
  \/ \E p \in Dockable : WidthObserved(p)
  \/ ToggleTable
  \/ LayerSelected
  \/ \E p \in Dockable : \E grab \in {8, Width(p) - 8} : BeginDrag(p, grab)
  \/ \E x \in PointerXs, y \in PointerYs : DragMove([x |-> x, y |-> y])
  \/ DragEnd
  \/ \E s \in Stages : WindowResized(s)
  \/ ToggleMenu
  \/ DismissMenu
  \/ \E s \in Scopes, name \in Names : SavePreset(s, name) \/ ElsewhereSaves(s, name)
  \/ \E preset \in menu.list : RemovePreset(preset) \/ ApplyPreset(preset)
  \/ ResetLayout
  \/ \E p \in Projects : ElsewhereOpens(p)
  \/ \E preset \in elsewhere : ElsewhereRemoves(preset)

-----------------------------------------------------------------------------
(***************************************************************************)
(* Properties.                                                             *)
(***************************************************************************)
LayoutTypeOK ==
  /\ project \in Projects \cup {None} /\ layout \in Layouts
  /\ stored \in [Projects -> Layouts \cup {None}]
  /\ blocked \in BOOLEAN /\ drawer \in BOOLEAN
  /\ nextId \in Nat /\ left \in [DOMAIN left -> Nat] /\ stage \in Stages

\* What can be seen and taken hold of: Header pixels of a panel's title bar.
Reachable(position, width, s) ==
  /\ position.x + width >= Header /\ position.x <= s.w - Header
  /\ position.y \in 0 .. s.h - Header

\* A panel that has just been dropped or detached can be taken hold of again,
\* wherever the pointer was released and whatever width the panel has (clampFloat
\* assumes 320: it is the dock zone that keeps a panel of another width on the
\* stage).  For a drop, as long as the window is the one the drag began in and has
\* not made the panel too narrow to be under the pointer.
DragStillFits(p) == drag.stage = stage /\ drag.grab <= Width(p)

MovedIsReachable ==
  [][\A p \in Dockable :
       /\ layout'.float[p] # layout.float[p] /\ layout'.float[p] # None
       /\ left'.route = left.route /\ left'.preset = left.preset
       /\ drag' = drag \/ DragStillFits(p)
       => Reachable(layout'.float[p], Width(p), stage)]_layoutVars

\* "Keep a floating panel reachable: its header must stay inside the stage"
\* (app/workspaceLayout.ts), also when the window shrinks during the drag.
DroppedIsReachable ==
  [][\A p \in Dockable :
       /\ drag # None /\ drag' = None /\ left' = left
       /\ layout'.float[p] # layout.float[p] /\ layout'.float[p] # None
       => Reachable(layout'.float[p], Width(p), stage)]_layoutVars

\* The layout is the project's: what is stored for a project changes only
\* while that project is open, or to what opening it loads.
LayoutIsPerProject ==
  [][\A p \in Projects :
       project # p => stored'[p] \in {stored[p], Load(p),
                                      [Load(p) EXCEPT !.open.table = TRUE]}]_layoutVars
=============================================================================
