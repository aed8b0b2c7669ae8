---------------------------- MODULE MCThreadCache ----------------------------
(***************************************************************************)
(* ThreadCache on a small instance: arbitrary callers.                     *)
(***************************************************************************)
EXTENDS ThreadCacheInvariant, TLC

CONSTANTS p1, p2, p3, small, medium, large, odd

\* p1 and p2 hash to the same shard, p3 to another.
MCAddr == {p1, p2, p3}
MCShards == {0, 1}
MCShardOf == (p1 :> 0) @@ (p2 :> 0) @@ (p3 :> 1)

MCSizeClass == [r \in Requests |->
    CASE r = small -> 0 [] r = medium -> 1
      [] r = large -> Fallback [] r = odd -> Rejected]

\* Two threads may be exchanged, and the two addresses of shard 0.
MCSymmetry == Permutations(Threads) \cup Permutations({p1, p2})
==============================================================================
