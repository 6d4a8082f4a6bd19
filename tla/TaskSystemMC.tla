---------------------------- MODULE TaskSystemMC ----------------------------
(***************************************************************************)
(* TaskSystem on small instances.  Clients are interchangeable, so the     *)
(* safety runs identify states that differ by a permutation of them.       *)
(***************************************************************************)
EXTENDS TaskSystem, TLC

ClientSymmetry == Permutations(Clients)
=============================================================================
