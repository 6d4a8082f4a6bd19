---------------------------- MODULE EditSessionMC ----------------------------
(***************************************************************************)
(* The edit session on small instances.                                    *)
(***************************************************************************)
EXTENDS EditSession, TLC

GeomSymmetry == Permutations(Geoms)
=============================================================================
