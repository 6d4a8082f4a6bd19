--------------------------- MODULE MapSessionMC ---------------------------
(***************************************************************************)
(* Two projects with a layer each (and one more in the first), two windows *)
(* of the map, answers that weigh the budget or more.                      *)
(***************************************************************************)
EXTENDS MapSession

MCProjects == {"p", "q"}
MCLayers == {"a", "b", "c"}
MCLayersOf == [p |-> {"a", "b"}, q |-> {"c"}]
MCTiersOf == [a |-> {"medium", "small"}, b |-> {"small"}, c |-> {"tiles"}]
MCSize == [small |-> 2, medium |-> 4, tiles |-> 4]
Budget(r, l, c, s) == [route |-> r, list |-> l, camera |-> c, select |-> s]
MCBudgets == {Budget(1, 1, 0, 1), Budget(1, 0, 1, 1), Budget(2, 0, 0, 0), Budget(1, 0, 0, 2), Budget(2, 0, 0, 1)}
MCSaved == [p |-> "west", q |-> "east"]
=============================================================================
