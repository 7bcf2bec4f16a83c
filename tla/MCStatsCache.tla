---------------------------- MODULE MCStatsCache ----------------------------
(***************************************************************************)
(* Instances of StatsCache for TLC.                                        *)
(***************************************************************************)
EXTENDS StatsCache, TLC

Symmetry == Permutations(Resetter)
=============================================================================
