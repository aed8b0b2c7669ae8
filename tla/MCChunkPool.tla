----------------------------- MODULE MCChunkPool -----------------------------
(***************************************************************************)
(* Every growth policy and boundary on a size_t of 0 .. 9: fixed growth,   *)
(* doubling until the layout no longer fits, a cap, and a factor that      *)
(* leaves size_t at once, with and without a cap.                          *)
(***************************************************************************)
EXTENDS ChunkPool, TLC

CONSTANTS s1, s2, s3

MCSlabs == {s1, s2, s3}
MCGrowths ==
    {[mode |-> "fixed", factor |-> 2, maximum |-> 0]} \cup
    {[mode |-> "geometric", factor |-> f, maximum |-> m] : f \in {2, 5}, m \in {0, 3}}

SlabSymmetry == Permutations(MCSlabs)
==============================================================================
