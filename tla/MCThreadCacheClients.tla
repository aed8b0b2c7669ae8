------------------------- MODULE MCThreadCacheClients -------------------------
(***************************************************************************)
(* ThreadCacheClients on a small instance.                                 *)
(***************************************************************************)
EXTENDS ThreadCacheClients, TLC

CONSTANTS p1, p2, p3, small, large

MCAddr == {p1, p2, p3}
MCShards == {0, 1}
MCShardOf == (p1 :> 0) @@ (p2 :> 0) @@ (p3 :> 1)

MCClasses == {0}
MCRequests == {small, large}
MCSizeClass == (small :> 0) @@ (large :> Fallback)
==============================================================================
