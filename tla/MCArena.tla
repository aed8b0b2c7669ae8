------------------------------- MODULE MCArena -------------------------------
(***************************************************************************)
(* Chunks of four bytes with alignment two on a size_t of 0 .. 31.  One    *)
(* request fits everywhere, one needs padding and a chunk of its own, one  *)
(* is invalid; growth is fixed, capped or saturates.                       *)
(***************************************************************************)
EXTENDS ArenaLifetimes

MCRequests ==
    {[size |-> 1, alignment |-> 1], [size |-> 7, alignment |-> 4],
     [size |-> 1, alignment |-> 3]}
MCGrowths ==
    {[mode |-> "fixed", factor |-> 1, maximum |-> 0],
     [mode |-> "geometric", factor |-> 2, maximum |-> 6],
     [mode |-> "geometric", factor |-> 4, maximum |-> 0]}
==============================================================================
