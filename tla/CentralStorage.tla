--------------------------- MODULE CentralStorage ----------------------------
(***************************************************************************)
(* What an allocator that serves one call at a time promises: an address   *)
(* that is handed out is not in use, and a return is accepted exactly if   *)
(* the address is in use and the size it is given, if any, is of the kind  *)
(* the address was allocated for.  This is the central storage that        *)
(* ThreadCache assumes behind central_mutex_.                              *)
(***************************************************************************)
CONSTANTS Addr, Kinds, Unsized, Free, NoAddr

VARIABLES
    allocated,   \* Addr -> the kind it was allocated for, or Free
    answer       \* the last call and how it ended

vars == <<allocated, answer>>

NoAnswer == [said |-> "none", ptr |-> NoAddr, kind |-> Unsized]

Init == allocated = [p \in Addr |-> Free] /\ answer = NoAnswer

\* The call that ends in this step is of one of the kinds and ends with said.
Answers(said, kinds) ==
    answer'.said = said /\ answer'.ptr \in Addr /\ answer'.kind \in kinds

Allocate ==
    /\ Answers("allocated", Kinds)
    /\ allocated[answer'.ptr] = Free
    /\ allocated' = [allocated EXCEPT ![answer'.ptr] = answer'.kind]

AllocateFails ==
    /\ answer'.said = "failed" /\ answer'.ptr = NoAddr /\ answer'.kind \in Kinds
    /\ UNCHANGED allocated

Releasable(p, k) == allocated[p] # Free /\ k \in {Unsized, allocated[p]}

Deallocate ==
    /\ Answers("returned", Kinds \cup {Unsized})
    /\ Releasable(answer'.ptr, answer'.kind)
    /\ allocated' = [allocated EXCEPT ![answer'.ptr] = Free]

DeallocateRefused ==
    /\ Answers("refused", Kinds \cup {Unsized})
    /\ ~ Releasable(answer'.ptr, answer'.kind)
    /\ UNCHANGED allocated

\* The storage is built empty and may be destroyed with blocks in use.
OpenOrClose == answer' = NoAnswer /\ allocated' = [p \in Addr |-> Free]

Next == Allocate \/ AllocateFails \/ Deallocate \/ DeallocateRefused \/ OpenOrClose

Spec == Init /\ [][Next]_vars
==============================================================================
