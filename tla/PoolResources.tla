---------------------------- MODULE PoolResources ----------------------------
(***************************************************************************)
(* PoolMemoryResources over one upstream, and the containers that use      *)
(* them.  A resource is a SegregatedAllocator whose provider forwards to   *)
(* the upstream; do_deallocate passes the size on, so a mismatch or a      *)
(* foreign pointer throws.  A container keeps its resource for life and    *)
(* takes over the buffers of another only if their resources are equal.    *)
(* A resource outlives the containers that use it.  A program uses its     *)
(* allocators either through containers or, unshared, one of them directly *)
(* and in any way it likes.                                                *)
(***************************************************************************)
EXTENDS Segregated

CONSTANTS
    Containers,
    ResourceOf,   \* the resource each container was built with
    Unshared,     \* the allocators used directly
    MaxAcquires   \* bounds the allocations asked of one resource

ASSUME ResourceAssumption ==
    ResourceOf \in [Containers -> Allocators] /\ Unshared \subseteq Allocators

VARIABLES
    buffers,      \* the blocks every container owns: pointer and request
    refused,      \* a do_deallocate of a container has thrown
    direct        \* the program uses an allocator directly

resourceVars == <<vars, buffers, refused, direct>>

ResourceInit ==
    /\ Init
    /\ buffers = [c \in Containers |-> {}] /\ refused = FALSE
    /\ direct \in BOOLEAN

\* Mutant: resources with the same configuration are equal.
EqualConfiguration(r, s) == TRUE

do_is_equal(r, s) == r = s

\* do_allocate: the caller keeps the pointer and what it asked for.
Acquire(c, q) ==
    /\ statistics[ResourceOf[c]].allocation_requests < MaxAcquires
    /\ Allocate(ResourceOf[c], q)
    /\ buffers' = [buffers EXCEPT ![c] = @ \cup
           {[ptr |-> answer'[ResourceOf[c]].ptr, request |-> q]}]
    /\ UNCHANGED refused

AcquireFails(c, q) ==
    /\ statistics[ResourceOf[c]].allocation_requests < MaxAcquires
    /\ AllocateFails(ResourceOf[c], q) \/ InsertionFails(ResourceOf[c], q)
    /\ UNCHANGED <<buffers, refused>>

\* do_deallocate, with the size and alignment of the request.
Release(c, b) ==
    /\ IF Accepts(ResourceOf[c], b.ptr, Kind(b.request))
       THEN Deallocate(ResourceOf[c], b.ptr, Kind(b.request)) /\ UNCHANGED refused
       ELSE DeallocateRejected(ResourceOf[c], b.ptr, Kind(b.request)) /\ refused' = TRUE
    /\ buffers' = [buffers EXCEPT ![c] = @ \ {b}]

\* Move assignment or swap: the standard library asks do_is_equal first.
TakeOver(c, d) ==
    /\ c # d /\ buffers[d] # {}
    /\ do_is_equal(ResourceOf[c], ResourceOf[d])
    /\ buffers' = [buffers EXCEPT ![c] = @ \cup buffers[d], ![d] = {}]
    /\ UNCHANGED <<vars, refused>>

CloseResource(r) ==
    /\ \A c \in Containers : ResourceOf[c] = r => buffers[c] = {}
    /\ Close(r)
    /\ UNCHANGED <<buffers, refused>>

UseResources ==
    \/ \E c \in Containers : Construct(ResourceOf[c]) /\ UNCHANGED <<buffers, refused>>
    \/ \E c \in Containers : CloseResource(ResourceOf[c])
    \/ \E c \in Containers :
          \/ \E q \in Requests : Acquire(c, q) \/ AcquireFails(c, q)
          \/ \E b \in buffers[c] : Release(c, b)
          \/ \E d \in Containers : TakeOver(c, d)

Next ==
    /\ \/ ~ direct /\ UseResources
       \/ direct /\ (\E a \in Unshared : Step(a)) /\ UNCHANGED <<buffers, refused>>
    /\ UNCHANGED direct

Spec == ResourceInit /\ [][Next]_resourceVars

------------------------------------------------------------------------------
\* No container ever has a return refused: a block goes back to the resource
\* it came from, with a size that selects its class, also after buffers
\* changed hands between containers.
ReturnsAccepted == ~ refused

\* The inductive invariant behind it: each buffer is live in the resource of
\* its container, as what it was asked for, and in one container only.
BufferInvariant ==
    /\ direct \in BOOLEAN
    /\ buffers \in [Containers -> SUBSET [ptr : Pointers, request : Requests]]
    /\ direct => \A c \in Containers : buffers[c] = {}
    /\ \A c \in Containers : \A b \in buffers[c] :
          /\ state[ResourceOf[c]] = "open"
          /\ LiveKind(ResourceOf[c])[b.ptr] = Kind(b.request)
    /\ \A c, d \in Containers : \A b \in buffers[c], e \in buffers[d] :
          ResourceOf[c] = ResourceOf[d] /\ b.ptr = e.ptr => c = d /\ b = e

==============================================================================
