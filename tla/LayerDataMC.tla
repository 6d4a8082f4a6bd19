----------------------------- MODULE LayerDataMC -----------------------------
(***************************************************************************)
(* Two tables of two rows, a row to a page, that share one column; a stack *)
(* of up to three layers.  Each behaviour has steps for one part of the    *)
(* workspace, or for where the parts meet.                                 *)
(***************************************************************************)
EXTENDS LayerData

MCLayers == {"a", "b", "c", "d"}
MCTables == [l \in MCLayers |-> IF l = "b" THEN {"name"} ELSE {"name", "height"}]

Steps(select, turn, edit, patch, move, drop, add, lost) ==
  [select |-> select, turn |-> turn, edit |-> edit, patch |-> patch, move |-> move,
   drop |-> drop, add |-> add, lost |-> lost]

MCScenarios ==
  { [initial |-> <<"a", "b">>, left |-> Steps(3,1,1,0,0,0,0,0)],
    [initial |-> <<"a", "b">>, left |-> Steps(3,0,1,0,0,0,0,1)],
    [initial |-> <<"a">>, left |-> Steps(1,2,2,0,0,0,0,0)],
    [initial |-> <<"a", "b">>, left |-> Steps(2,0,1,0,0,1,0,0)],
    [initial |-> <<"a", "b", "c">>, left |-> Steps(0,0,0,0,2,1,1,0)],
    [initial |-> <<"a", "b">>, left |-> Steps(0,0,0,2,1,0,0,1)],
    [initial |-> <<"a">>, left |-> Steps(0,0,0,0,1,0,2,1)] }
=============================================================================
