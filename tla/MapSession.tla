---------------------------- MODULE MapSession ----------------------------
(***************************************************************************)
(* The map of the workspace across projects: App's query of the project,   *)
(* the restored and the user's camera (MapProvider), the selection and its *)
(* pin, click-to-identify (IdentifyPopup), the URL and the dashboard's     *)
(* thumbnail (WorkspaceSync), around LayerMemory.                          *)
(*                                                                         *)
(* The selection lives in a store that outlives App; the manager, the map  *)
(* and its sources live and die with App; a change of the project in the   *)
(* route keeps them all.                                                   *)
(***************************************************************************)
EXTENDS LayerMemory

CONSTANTS
  Projects,
  LayersOf,    \* LayersOf[p]: the layers of project p
  Home,        \* the window shown when no view is known
  Saved,       \* Saved[p]: the window of the view saved with project p
  Budgets      \* bounds: how many steps of each kind; a behaviour has one of them

ASSUME SessionBounds ==
  /\ None \notin Projects /\ LayersOf \in [Projects -> SUBSET Layers] /\ Home \in Windows
  /\ Saved \in [Projects -> Windows]
  /\ Budgets \subseteq [{"route", "list", "camera", "select"} -> Nat]

VARIABLES
  project,     \* the project of the route, or None
  known,       \* the query cache: the list of each project, or None
  initialView, \* App's initialUrl.view, or None
  interacted,  \* MapProvider: the user has taken hold of the camera
  picked,      \* a feature of the selected layer is selected
  hit,         \* the layer of the identify card, or None
  url,         \* the view and sel parameters: [view, sel, picked]
  capture,     \* the thumbnail timer: the project it is for, or None
  firstRender, \* rendercomplete has not fired for this subscription
  thumbnail,   \* the layers the stored thumbnail of each project shows
  left         \* steps left of each kind

routeVars == <<project, known, initialView, hit, capture, firstRender>>
sessionVars == <<routeVars, interacted, picked, url, thumbnail, left>>
vars == <<memoryVars, sessionVars>>

NoList == [l \in Layers |-> None]
NoUrl == [view |-> None, sel |-> None, picked |-> FALSE]

Init ==
  /\ MemoryInit /\ view = Home
  /\ project = None /\ known = [p \in Projects |-> None]
  /\ initialView = None /\ interacted = FALSE /\ picked = FALSE /\ hit = None
  /\ url = NoUrl /\ capture = None /\ firstRender = FALSE
  /\ thumbnail = [p \in Projects |-> {}]
  /\ left \in Budgets

Spend(kind) == left[kind] > 0 /\ left' = [left EXCEPT ![kind] = @ - 1]
Gesture(kind) == project # None /\ Spend(kind)

-----------------------------------------------------------------------------
(***************************************************************************)
(* The camera.                                                             *)
(***************************************************************************)
\* The list of a project the query gives App; nothing before its first answer.
Data(p, cache) == IF cache[p] = None THEN NoList ELSE cache[p]

\* App's center: the URL of the mount, then the project's saved view.
Center(p, cache, initial) ==
  IF initial # None THEN initial ELSE IF cache[p] = None THEN Home ELSE Saved[p]

\* The timer restarts when the map has a target: while App is mounted.
MovedTo(w) ==
  IF w = view THEN view' = view /\ UNCHANGED <<url, capture>>
  ELSE view' = w /\ url' = [url EXCEPT !.view = w] /\ capture' = project

\* A center that changed lands unless the user has taken hold of the camera.
Landed(p, cache) ==
  IF interacted \/ Center(p, cache, initialView) = Center(project, known, initialView)
    THEN view ELSE Center(p, cache, initialView)

\* Dragged or wheeled: the pointer is seen first, moveend comes last.  The
\* card closes when the map starts to move.
UserMoves(w) ==
  /\ Gesture("camera") /\ w # view
  /\ interacted' = TRUE /\ hit' = None /\ MovedTo(w)
  /\ UNCHANGED <<layers, source, requests, entry, order, selected, early,
                 project, known, initialView, firstRender, picked, thumbnail>>

\* zoomToFeature, from the attribute table: the camera moves, nothing says
\* that it was the user.
ZoomToFeature(w) ==
  /\ Gesture("camera") /\ w # view /\ picked /\ selected # None
  /\ source[selected].on /\ source[selected].held # {}
  /\ hit' = None /\ MovedTo(w)
  /\ UNCHANGED <<layers, source, requests, entry, order, selected, early, interacted,
                 project, known, initialView, firstRender, picked, thumbnail>>

-----------------------------------------------------------------------------
(***************************************************************************)
(* Selecting.  Every store change is written to the URL.                   *)
(***************************************************************************)
Selecting(l, feature) ==
  /\ selected' = l /\ picked' = feature
  /\ early' = IF l = selected THEN early ELSE ~Registered(l)
  /\ entry' = IF l = selected THEN entry ELSE Repinned(selected, l)
  /\ url' = [url EXCEPT !.sel = l, !.picked = feature]

\* A row of the layer panel, for a layer of the list.
SelectLayer(l) ==
  /\ Gesture("select") /\ layers[l] # None /\ l # selected
  /\ Selecting(l, FALSE)
  /\ UNCHANGED <<layers, view, source, requests, order, routeVars, interacted, thumbnail>>

\* A click on a drawn feature selects it and its layer, and opens the card.
IdentifyFeature(l) ==
  /\ Gesture("select") /\ source[l].on /\ source[l].held # {}
  /\ Selecting(l, TRUE) /\ hit' = l
  /\ UNCHANGED <<layers, view, source, requests, order, project, known, initialView, capture,
                 firstRender, interacted, thumbnail>>

\* A click on the bare map keeps the layer, drops the feature.
ClickNothing ==
  /\ Gesture("select") /\ picked' = FALSE /\ hit' = None
  /\ url' = [url EXCEPT !.sel = selected, !.picked = FALSE]
  /\ UNCHANGED <<memoryVars, project, known, initialView, capture, firstRender,
                 interacted, thumbnail>>

CloseCard ==
  /\ hit # None /\ hit' = None
  /\ UNCHANGED <<memoryVars, project, known, initialView, capture, firstRender,
                 interacted, picked, url, thumbnail, left>>

-----------------------------------------------------------------------------
(***************************************************************************)
(* The project: its list, entering it, switching, leaving.                 *)
(***************************************************************************)
\* The query answers, first or after an invalidation: one layer differs.
Answers(p) ==
  IF known[p] = None
    THEN {[l \in Layers |-> IF l \in LayersOf[p] THEN t[l] ELSE None] :
            t \in {u \in [Layers -> Tiers] : \A l \in Layers : u[l] \in TiersOf[l]}}
    ELSE {[known[p] EXCEPT ![l] = t] : l \in LayersOf[p], t \in Tiers \cup {None}}

ListArrives(list) ==
  LET cache == [known EXCEPT ![project] = list] IN
  /\ IF known[project] = None THEN UNCHANGED left ELSE Spend("list")
  /\ list # known[project]
  /\ \A l \in Layers : list[l] # None => list[l] \in TiersOf[l]
  /\ known' = cache
  /\ SyncLayers(list) /\ MovedTo(Landed(project, cache))
  /\ hit' = IF view' = view THEN hit ELSE None
  /\ UNCHANGED <<project, initialView, firstRender, interacted, picked, thumbnail>>

\* App mounts, with the parameters of the URL: a manager, a map and sources
\* of its own.  MapCanvas's effect (the sync) runs before App's (the pin).
Mounted(p, cache, u, sel, feature) ==
  LET list == Data(p, cache)
      present == {l \in Layers : list[l] # None}
  IN
  /\ project' = p /\ known' = cache /\ layers' = list
  /\ source' = [l \in Layers |->
       IF l \in present THEN [tier |-> list[l], on |-> TRUE, gen |-> 0, marked |-> {}, held |-> {}]
                        ELSE NoSource]
  /\ entry' = [l \in Layers |-> IF l \in present
                                  THEN [bytes |-> 0, pinned |-> l = sel, clears |-> 0] ELSE None]
  /\ order' = SetToSeq(present) /\ requests' = {}
  /\ selected' = sel /\ picked' = feature /\ early' = (sel # None /\ sel \notin present)
  /\ url' = u /\ initialView' = u.view /\ interacted' = FALSE /\ hit' = None
  /\ view' = Center(p, cache, u.view)
  /\ capture' = None /\ firstRender' = TRUE

\* From a platform page: the URL names the project only; the selection of the
\* last visit is still in the store.
Enter(p) ==
  /\ project = None /\ Spend("route")
  /\ Mounted(p, known, NoUrl, selected, picked)
  /\ UNCHANGED thumbnail

\* A link with parameters opened in a new page.
FollowLink(p, sel, w) ==
  /\ project = None /\ Spend("route") /\ url = NoUrl /\ selected = None
  /\ Mounted(p, [q \in Projects |-> None], [view |-> w, sel |-> sel, picked |-> FALSE], sel, FALSE)
  /\ UNCHANGED thumbnail

\* The page is reloaded: the URL is all that is left.
Reload ==
  /\ project # None /\ Spend("route")
  /\ Mounted(project, [q \in Projects |-> None], url, url.sel, url.picked)
  /\ UNCHANGED thumbnail

\* clearAll, and the timer with the subscriptions; the store stays.
Leave ==
  /\ project # None /\ project' = None
  /\ layers' = NoList /\ source' = [l \in Layers |-> NoSource] /\ requests' = {}
  /\ entry' = [l \in Layers |-> None] /\ order' = <<>>
  /\ hit' = None /\ capture' = None /\ firstRender' = FALSE /\ url' = NoUrl
  /\ early' = (selected # None)
  /\ UNCHANGED <<view, selected, known, initialView, interacted, picked, thumbnail, left>>

MutantResubscribed == capture
\* WorkspaceSync's effect runs anew for the new project: the timer of the old
\* one is cleared, the next rendercomplete schedules another.
Resubscribed == None

\* The project switcher: the route changes under App.  The camera goes where
\* the new project was left; its moveend comes after the effects.
SwitchProject(p) ==
  /\ project \notin {None, p} /\ Spend("route")
  /\ project' = p /\ SyncLayers(Data(p, known)) /\ view' = Landed(p, known)
  /\ IF view' = view THEN url' = NoUrl /\ capture' = Resubscribed
                     ELSE url' = [NoUrl EXCEPT !.view = view'] /\ capture' = p
  /\ firstRender' = TRUE
  /\ hit' = IF view' = view THEN hit ELSE None
  /\ UNCHANGED <<known, initialView, interacted, picked, thumbnail>>

-----------------------------------------------------------------------------
(***************************************************************************)
(* The thumbnail.                                                          *)
(***************************************************************************)
RenderComplete ==
  /\ firstRender /\ firstRender' = FALSE /\ capture' = project
  /\ UNCHANGED <<memoryVars, project, known, initialView, hit,
                 interacted, picked, url, thumbnail, left>>

Shown == {l \in Layers : source[l].on}

\* Three seconds after the last move; a map without canvases is not captured.
Capture ==
  /\ capture # None /\ capture' = None
  /\ thumbnail' = IF Shown = {} THEN thumbnail
                  ELSE [thumbnail EXCEPT ![capture] = Shown]
  /\ UNCHANGED <<memoryVars, project, known, initialView, hit, firstRender,
                 interacted, picked, url, left>>

-----------------------------------------------------------------------------
MemoryStep ==
  /\ \/ Enforce
     \/ \E l \in Layers : Ask(l)
     \/ \E r \in requests : Answer(r) \/ Fail(r)
  /\ UNCHANGED sessionVars

Next ==
  \/ MemoryStep
  \/ \E w \in Windows : UserMoves(w) \/ ZoomToFeature(w)
  \/ \E l \in Layers : SelectLayer(l) \/ IdentifyFeature(l)
  \/ ClickNothing \/ CloseCard
  \/ project # None /\ \E list \in Answers(project) : ListArrives(list)
  \/ \E p \in Projects : \/ Enter(p) \/ SwitchProject(p)
                         \/ \E sel \in LayersOf[p], w \in Windows \ {Home} : FollowLink(p, sel, w)
  \/ Reload \/ Leave
  \/ RenderComplete \/ Capture

\* The interval of two seconds; the render loop, which asks for something
\* when there is something to ask; the network, which settles some request.
Fairness ==
  /\ WF_vars(Enforce /\ UNCHANGED sessionVars)
  /\ WF_vars((\E l \in Layers : Ask(l)) /\ UNCHANGED sessionVars)
  /\ WF_vars((\E r \in requests : Answer(r) \/ Fail(r)) /\ UNCHANGED sessionVars)

Spec == Init /\ [][Next]_vars /\ Fairness

-----------------------------------------------------------------------------
TypeOK ==
  /\ MemoryTypeOK
  /\ project \in Projects \cup {None} /\ interacted \in BOOLEAN /\ picked \in BOOLEAN
  /\ hit \in Layers \cup {None} /\ capture \in Projects \cup {None} /\ firstRender \in BOOLEAN
  /\ thumbnail \in [Projects -> SUBSET Layers]
  /\ left \in [{"route", "list", "camera", "select"} -> Nat]

\* The picture stored for a project shows that project's layers and no others,
\* wherever the route went, and whatever list arrived, while the timer ran.
ThumbnailIsOwn == \A p \in Projects : thumbnail[p] \subseteq LayersOf[p]
=============================================================================
