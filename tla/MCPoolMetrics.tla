--------------------------- MODULE MCPoolMetrics ---------------------------
(***************************************************************************)
(* PoolMetrics for TLC.                                                    *)
(***************************************************************************)
EXTENDS PoolMetrics, TLC

Symmetry == Permutations(Calls) \cup Permutations(FirstIds)
=============================================================================
