------------------------------ MODULE Allocator ------------------------------
(***************************************************************************)
(* What a thread-safe allocator promises its callers: each call takes      *)
(* effect in one step between its invocation and its return.               *)
(***************************************************************************)
CONSTANTS Threads, Addr, Kinds, Unsized, Free, NoAddr

VARIABLES
    allocated,      \* Addr -> the kind it was allocated for, or Free
    pending         \* Threads -> the call that has not taken effect yet

vars == <<allocated, pending>>

NoCall == [op |-> "none", arg |-> Unsized, ptr |-> NoAddr]

Init ==
    /\ allocated = [p \in Addr |-> Free]
    /\ pending = [t \in Threads |-> NoCall]

Begin(t, calls) ==
    /\ pending[t] = NoCall
    /\ pending'[t] \in calls
    /\ pending' = [pending EXCEPT ![t] = pending'[t]]
    /\ UNCHANGED allocated

BeginAllocate(t) ==
    Begin(t, [op : {"allocate"}, arg : Kinds, ptr : {NoAddr}])

BeginDeallocate(t) ==
    Begin(t, [op : {"deallocate"}, arg : Kinds \cup {Unsized}, ptr : Addr])

End(t) == pending' = [pending EXCEPT ![t] = NoCall]

\* An allocation yields an address that is not in use, or fails.
Allocate(t) ==
    /\ pending[t].op = "allocate"
    /\ \E p \in Addr :
          /\ allocated[p] = Free
          /\ allocated' = [allocated EXCEPT ![p] = pending[t].arg]
    /\ End(t)

AllocateFails(t) ==
    /\ pending[t].op = "allocate"
    /\ End(t)
    /\ UNCHANGED allocated

Releasable(call) ==
    /\ allocated[call.ptr] # Free
    /\ call.arg \in {Unsized, allocated[call.ptr]}

\* A block is released by whoever names it while it is live, and is refused
\* otherwise.
Deallocate(t) ==
    /\ pending[t].op = "deallocate"
    /\ Releasable(pending[t])
    /\ allocated' = [allocated EXCEPT ![pending[t].ptr] = Free]
    /\ End(t)

DeallocateRefused(t) ==
    /\ pending[t].op = "deallocate"
    /\ ~ Releasable(pending[t])
    /\ End(t)
    /\ UNCHANGED allocated

Next == \E t \in Threads :
    \/ BeginAllocate(t) \/ BeginDeallocate(t)
    \/ Allocate(t) \/ AllocateFails(t)
    \/ Deallocate(t) \/ DeallocateRefused(t)

Spec == Init /\ [][Next]_vars
==============================================================================
