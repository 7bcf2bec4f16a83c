--------------------------- MODULE MCStatsPoller ---------------------------
(***************************************************************************)
(* Instances of StatsPoller for TLC: the limits 60 s and 3600 s become 1   *)
(* and 2, and an interval on either side of them is requested too.         *)
(***************************************************************************)
EXTENDS StatsPoller, TLC

AnyInterval == 0 .. 3

Symmetry == Permutations(Bus)
=============================================================================
