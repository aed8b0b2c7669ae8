--------------------------- MODULE MCPoolResources ---------------------------
(***************************************************************************)
(* Classes of two and four bytes; requests for each, by size and by        *)
(* alignment, for the fallback, and with an invalid alignment.  Two        *)
(* containers use the first of two resources of the same configuration,    *)
(* one the second; direct callers use the first.                           *)
(***************************************************************************)
EXTENDS PoolResources, TLC

CONSTANTS r1, r2, c1, c2, c3

MCClasses == <<2, 4>>
MCRequests ==
    {[size |-> 1, alignment |-> 1], [size |-> 2, alignment |-> 4],
     [size |-> 0, alignment |-> 8], [size |-> 5, alignment |-> 1],
     [size |-> 1, alignment |-> 3]}
MCResourceOf == (c1 :> r1 @@ c2 :> r1 @@ c3 :> r2)
SlabSymmetry == Permutations(Slabs)
==============================================================================
