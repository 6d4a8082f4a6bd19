----------------------------- MODULE WorkspaceMC -----------------------------
(***************************************************************************)
(* The workspace on small instances: a wide and a narrow window, a project *)
(* with a basemap layer and a data layer, and one without layers.          *)
(***************************************************************************)
EXTENDS Workspace, TLC

CONSTANTS p1, p2, base, data

MCProjects == {p1, p2}
MCLayers == {base, data}
MCLayersOf == p1 :> {base, data} @@ p2 :> {}
MCStages == {[w |-> 1300, h |-> 800], [w |-> 600, h |-> 400]}
MCBudget(a, b, c, d, e) == [panel |-> a, preset |-> b, theme |-> c, route |-> d, fault |-> e]
MCBudgets == {MCBudget(2, 0, 0, 1, 0), MCBudget(1, 1, 0, 2, 1),
              MCBudget(0, 6, 0, 1, 0), MCBudget(0, 0, 3, 2, 1)}
MCOneGesture == {MCBudget(1, 0, 0, 2, 0)}
MCOneDrag == {MCBudget(1, 0, 0, 1, 0)}
MCOneTheme == {MCBudget(0, 0, 1, 1, 0)}

\* What a mix of gestures does not vary starts the same.
MCInit ==
  /\ Init
  /\ left.theme = 0 => refused = {} /\ \A l \in Layers : visible[l]
  /\ left.panel = 0 \/ left.preset > 0 => stage.w = 1300
MCSpec == MCInit /\ [][Next]_vars /\ Fairness
=============================================================================
