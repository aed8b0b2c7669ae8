----------------------------- MODULE Segregated ------------------------------
(***************************************************************************)
(* SegregatedAllocator: requests are routed to one growing pool per size   *)
(* class, or straight to the memory provider when no class suits.  Several *)
(* allocators may share a provider, as PoolMemoryResources share their     *)
(* upstream.  Nothing here is thread-safe: a call is one step.             *)
(*                                                                         *)
(* ChunkPool models the pools in detail.  Here a chunk is a slab of the    *)
(* provider with the set of its live blocks; a pool takes any free block   *)
(* of the first chunk that has one, grows by chunks of InitialBlocks and   *)
(* gives an empty chunk back beyond Spare others.  A pointer is a slab and *)
(* a block; a fallback block is block 0 of a slab of its own.  Callers     *)
(* return any pointer to any allocator, without a size or with any.        *)
(***************************************************************************)
EXTENDS SizeClasses, FiniteSets

CONSTANTS
    Allocators, Slabs,
    Classes,          \* options.size_classes
    Requests,         \* the sizes and alignments callers pass
    InitialBlocks,    \* initial_blocks_per_class
    Spare,            \* reclamation.spare_empty_chunks
    MaxRequests,      \* bounds the allocations asked of one allocator
    Unsized, Free, NoAddr

ASSUME SegregatedAssumption ==
    /\ Classes \in Seq(Nat) /\ ValidClasses(Classes)
    /\ InitialBlocks \in Nat \ {0} /\ Spare \in Nat /\ MaxRequests \in Nat
    /\ \A q \in Requests : q.size \in Nat /\ q.alignment \in Nat
    /\ {Unsized, Free} \cap [class : Nat, size : Nat, alignment : Nat] = {}

VARIABLES
    state,         \* "new", "open" or "closed"
    pools,         \* the chunks of every class
    fallback,      \* fallback_allocations: slab -> size and alignment
    statistics,
    outstanding,   \* the slabs the provider has handed out
    answer         \* the last call of every allocator and how it ended

vars == <<state, pools, fallback, statistics, outstanding, answer>>

ClassIndices == DOMAIN Classes
Blocks == 0 .. InitialBlocks - 1
Pointers == [slab : Slabs, block : Blocks]

\* What a request is served as: a class or the exact size and alignment.
Pooled(c) == [class |-> c, size |-> 0, alignment |-> 0]
Direct(metadata) == [class |-> 0, size |-> metadata.size, alignment |-> metadata.alignment]
Invalid == [class |-> 0, size |-> 0, alignment |-> 0]
Kind(q) ==
    IF ~ is_power_of_two(q.alignment) THEN Invalid
    ELSE IF select(Classes, q) # 0 THEN Pooled(select(Classes, q))
    ELSE Direct([size |-> Size(q), alignment |-> q.alignment])
Kinds == {Kind(q) : q \in Requests}

Answer(said, p, kind) == [said |-> said, ptr |-> p, kind |-> kind]
NoChunks == [c \in ClassIndices |-> <<>>]
ZeroStatistics ==
    [allocation_requests |-> 0, successful_allocations |-> 0, failed_allocations |-> 0,
     deallocations |-> 0, currently_allocated |-> [c \in ClassIndices |-> 0],
     current_fallback_allocations |-> 0]

Init ==
    /\ state = [a \in Allocators |-> "new"]
    /\ pools = [a \in Allocators |-> NoChunks]
    /\ fallback = [a \in Allocators |-> <<>>]
    /\ statistics = [a \in Allocators |-> ZeroStatistics]
    /\ outstanding = {}
    /\ answer = [a \in Allocators |-> Answer("none", NoAddr, Unsized)]

\* The constructor gives every class its first chunk.  When a provider call
\* fails, the chunks built before are destroyed with the members.
Construct(a) ==
    /\ state[a] = "new"
    /\ \E slab \in [ClassIndices -> Slabs \ outstanding] :
          /\ \A c, d \in ClassIndices : slab[c] = slab[d] => c = d
          /\ pools' = [pools EXCEPT ![a] = [c \in ClassIndices |-> <<[slab |-> slab[c], live |-> {}]>>]]
          /\ outstanding' = outstanding \cup {slab[c] : c \in ClassIndices}
    /\ state' = [state EXCEPT ![a] = "open"]
    /\ UNCHANGED <<fallback, statistics, answer>>

------------------------------------------------------------------------------
Full(chunk) == chunk.live = Blocks

Succeeds(a, q, p) ==
    /\ answer' = [answer EXCEPT ![a] = Answer("allocated", p, Kind(q))]
    /\ UNCHANGED state

Requested(a) == state[a] = "open" /\ statistics[a].allocation_requests < MaxRequests

CountPooled(a, c) ==
    statistics' = [statistics EXCEPT ![a].allocation_requests = @ + 1, ![a].successful_allocations = @ + 1,
                                     ![a].currently_allocated[c] = @ + 1]

\* A pool hands out a block of its first chunk that has one.
AllocatePooled(a, q) ==
    LET c == Kind(q).class
    IN  /\ Requested(a) /\ c # 0
        /\ \E i \in DOMAIN pools[a][c] :
              /\ ~ Full(pools[a][c][i])
              /\ \A j \in 1 .. i - 1 : Full(pools[a][c][j])
              /\ \E b \in Blocks \ pools[a][c][i].live :
                    /\ pools' = [pools EXCEPT ![a][c][i].live = @ \cup {b}]
                    /\ Succeeds(a, q, [slab |-> pools[a][c][i].slab, block |-> b])
        /\ CountPooled(a, c)
        /\ UNCHANGED <<fallback, outstanding>>

\* All its chunks are full: GrowOnExhaustion adds one and takes its first block.
AllocateGrows(a, q) ==
    LET c == Kind(q).class
    IN  /\ Requested(a) /\ c # 0
        /\ \A i \in DOMAIN pools[a][c] : Full(pools[a][c][i])
        /\ \E s \in Slabs \ outstanding :
              /\ pools' = [pools EXCEPT ![a][c] = Append(@, [slab |-> s, live |-> {0}])]
              /\ outstanding' = outstanding \cup {s}
              /\ Succeeds(a, q, [slab |-> s, block |-> 0])
        /\ CountPooled(a, c)
        /\ UNCHANGED fallback

Extended(f, s, value) == [x \in DOMAIN f \cup {s} |-> IF x = s THEN value ELSE f[x]]
Without(f, s) == [x \in DOMAIN f \ {s} |-> f[x]]

AllocateFallback(a, q) ==
    /\ Requested(a) /\ Kind(q) # Invalid /\ Kind(q).class = 0
    /\ \E s \in Slabs \ outstanding :
          /\ fallback' = [fallback EXCEPT ![a] = Extended(@, s, [size |-> Size(q), alignment |-> q.alignment])]
          /\ outstanding' = outstanding \cup {s}
          /\ Succeeds(a, q, [slab |-> s, block |-> 0])
    /\ statistics' = [statistics EXCEPT ![a].allocation_requests = @ + 1, ![a].successful_allocations = @ + 1,
                                        ![a].current_fallback_allocations = @ + 1]
    /\ UNCHANGED pools

Fails(a, q) ==
    /\ statistics' = [statistics EXCEPT ![a].allocation_requests = @ + 1, ![a].failed_allocations = @ + 1]
    /\ answer' = [answer EXCEPT ![a] = Answer("failed", NoAddr, Kind(q))]
    /\ UNCHANGED <<state, pools, fallback>>

\* The alignment is invalid, or the provider throws.
AllocateFails(a, q) ==
    /\ Requested(a)
    /\ Kind(q).class # 0 => \A i \in DOMAIN pools[a][Kind(q).class] : Full(pools[a][Kind(q).class][i])
    /\ Fails(a, q)
    /\ UNCHANGED outstanding

\* Mutant: the handler forgets provider->deallocate.
InsertionFailureLeaks(a, q) ==
    /\ Requested(a) /\ Kind(q) # Invalid /\ Kind(q).class = 0
    /\ \E s \in Slabs \ outstanding : outstanding' = outstanding \cup {s}
    /\ Fails(a, q)

\* The metadata of a fallback block cannot be inserted: the provider has it back.
InsertionFails(a, q) ==
    /\ Requested(a) /\ Kind(q) # Invalid /\ Kind(q).class = 0
    /\ \E s \in Slabs \ outstanding : outstanding' = (outstanding \cup {s}) \ {s}
    /\ Fails(a, q)

------------------------------------------------------------------------------
\* The class whose pool owns the slab of p, or 0.
owning_class(a, p) ==
    LET owners == {c \in ClassIndices : \E i \in DOMAIN pools[a][c] : pools[a][c][i].slab = p.slab}
    IN  IF owners = {} THEN 0 ELSE CHOOSE c \in owners : \A d \in owners : c <= d

RemoveAt(chunks, i) == SubSeq(chunks, 1, i - 1) \o SubSeq(chunks, i + 1, Len(chunks))

\* What the owner of p serves there, or Free if it is not owned.
ServedAs(a, p) ==
    IF owning_class(a, p) # 0 THEN Pooled(owning_class(a, p))
    ELSE IF p.slab \in DOMAIN fallback[a] /\ p.block = 0 THEN Direct(fallback[a][p.slab])
    ELSE Free

\* Mutant: any size is good for a pooled block.
MatchesAnyClass(a, p, kind) ==
    /\ ServedAs(a, p) # Free
    /\ owning_class(a, p) # 0 \/ kind \in {Unsized, ServedAs(a, p)}

\* The check of a sized return: the class it selects, or the exact metadata.
\* select() throws on an invalid alignment for a pooled block.
Matches(a, p, kind) ==
    /\ ServedAs(a, p) # Free
    /\ kind \in {Unsized, ServedAs(a, p)}

\* The chunk itself refuses a block that is not live.
Accepts(a, p, kind) ==
    LET c == owning_class(a, p)
    IN  /\ Matches(a, p, kind)
        /\ c # 0 => \E i \in DOMAIN pools[a][c] :
                       pools[a][c][i].slab = p.slab /\ p.block \in pools[a][c][i].live

Returned(a, p, kind) ==
    /\ answer' = [answer EXCEPT ![a] = Answer("returned", p, kind)]
    /\ UNCHANGED state

\* The chunk keeps the live blocks; one that has just become empty goes back
\* to the provider if more than Spare chunks are empty.
Reclaim(a, c, i, live) ==
    LET empty == {j \in DOMAIN pools[a][c] : j = i \/ pools[a][c][j].live = {}}
        release == live = {} /\ Cardinality(empty) > Spare
    IN  /\ pools' = [pools EXCEPT ![a][c] = IF release THEN RemoveAt(@, i) ELSE [@ EXCEPT ![i].live = live]]
        /\ outstanding' = IF release THEN outstanding \ {pools[a][c][i].slab} ELSE outstanding

DeallocatePooled(a, p, kind) ==
    LET c == owning_class(a, p)
    IN  /\ state[a] = "open" /\ c # 0 /\ Accepts(a, p, kind)
        /\ \E i \in DOMAIN pools[a][c] :
              /\ pools[a][c][i].slab = p.slab
              /\ Reclaim(a, c, i, pools[a][c][i].live \ {p.block})
        /\ Returned(a, p, kind)
        /\ statistics' = [statistics EXCEPT ![a].deallocations = @ + 1, ![a].currently_allocated[c] = @ - 1]
        /\ UNCHANGED fallback

DeallocateFallback(a, p, kind) ==
    /\ state[a] = "open" /\ owning_class(a, p) = 0 /\ Accepts(a, p, kind)
    /\ outstanding' = outstanding \ {p.slab}
    /\ fallback' = [fallback EXCEPT ![a] = Without(@, p.slab)]
    /\ Returned(a, p, kind)
    /\ statistics' = [statistics EXCEPT ![a].deallocations = @ + 1, ![a].current_fallback_allocations = @ - 1]
    /\ UNCHANGED pools

\* InvalidPoolPointer, AllocationMismatchError, invalid_argument, or the
\* DoubleFreeError of the chunk.
DeallocateRejected(a, p, kind) ==
    /\ state[a] = "open" /\ ~ Accepts(a, p, kind)
    /\ answer' = [answer EXCEPT ![a] = Answer("refused", p, kind)]
    /\ UNCHANGED <<state, pools, fallback, statistics, outstanding>>

ChunkSlabs(a) == UNION {{pools[a][c][i].slab : i \in DOMAIN pools[a][c]} : c \in ClassIndices}

\* ~Impl gives back the fallback blocks, the destructors of the pools their chunks.
Close(a) ==
    /\ state[a] = "open"
    /\ state' = [state EXCEPT ![a] = "closed"]
    /\ outstanding' = outstanding \ (ChunkSlabs(a) \cup DOMAIN fallback[a])
    /\ pools' = [pools EXCEPT ![a] = NoChunks]
    /\ fallback' = [fallback EXCEPT ![a] = <<>>]
    /\ answer' = [answer EXCEPT ![a] = Answer("none", NoAddr, Unsized)]
    /\ UNCHANGED statistics

Allocate(a, q) ==
    AllocatePooled(a, q) \/ AllocateGrows(a, q) \/ AllocateFallback(a, q)

Deallocate(a, p, kind) == DeallocatePooled(a, p, kind) \/ DeallocateFallback(a, p, kind)

\* What callers may do with one allocator.
Step(a) ==
    \/ Construct(a) \/ Close(a)
    \/ \E q \in Requests : Allocate(a, q) \/ AllocateFails(a, q) \/ InsertionFails(a, q)
    \/ \E p \in Pointers, kind \in Kinds \cup {Unsized} :
          Deallocate(a, p, kind) \/ DeallocateRejected(a, p, kind)

------------------------------------------------------------------------------
(***************************************************************************)
(* Properties.                                                             *)
(***************************************************************************)
TypeOK ==
    /\ state \in [Allocators -> {"new", "open", "closed"}]
    /\ pools \in [Allocators -> [ClassIndices -> Seq([slab : Slabs, live : SUBSET Blocks])]]
    /\ DOMAIN fallback = Allocators /\ DOMAIN answer = Allocators
    /\ \A a \in Allocators : DOMAIN fallback[a] \subseteq Slabs
    /\ \A a \in Allocators : \A s \in DOMAIN fallback[a] : fallback[a][s] \in [size : Nat, alignment : Nat]
    /\ outstanding \subseteq Slabs

LivePooled(a, c) ==
    UNION {{[slab |-> pools[a][c][i].slab, block |-> b] : b \in pools[a][c][i].live} : i \in DOMAIN pools[a][c]}
LiveFallback(a) == {[slab |-> s, block |-> 0] : s \in DOMAIN fallback[a]}

\* The provider has handed out exactly the slabs of the chunks and of the
\* fallback blocks, none to two owners: no failure, refusal, reclamation or
\* destruction leaks one or gives one back twice.
ProviderBalanced ==
    /\ outstanding = UNION {ChunkSlabs(a) \cup DOMAIN fallback[a] : a \in Allocators}
    /\ \A a, b \in Allocators, c, d \in ClassIndices :
          \A i \in DOMAIN pools[a][c], j \in DOMAIN pools[b][d] :
             pools[a][c][i].slab = pools[b][d][j].slab => <<a, c, i>> = <<b, d, j>>
    /\ \A a, b \in Allocators :
          /\ ChunkSlabs(a) \cap DOMAIN fallback[b] = {}
          /\ a # b => DOMAIN fallback[a] \cap DOMAIN fallback[b] = {}

\* Behind the properties: an allocator that is not open has no chunks and no
\* fallback blocks.
SegregatedInvariant ==
    /\ ProviderBalanced
    /\ \A a \in Allocators : state[a] # "open" => pools[a] = NoChunks /\ fallback[a] = <<>>

LiveKind(a) ==
    [p \in Pointers |->
       IF p \in LiveFallback(a)
       THEN Direct(fallback[a][p.slab])
       ELSE IF \E c \in ClassIndices : p \in LivePooled(a, c)
       THEN Pooled(CHOOSE c \in ClassIndices : p \in LivePooled(a, c))
       ELSE Free]

Central(a) == INSTANCE CentralStorage WITH
    Addr <- Pointers, allocated <- LiveKind(a), answer <- answer[a]

\* Every allocator is a CentralStorage: it never hands out an address in use,
\* and accepts a return exactly if the address is in use there and the size
\* it is given selects the class, or is the exact size, it was allocated for.
ImplementsCentralStorage ==
    /\ \A a \in Allocators : Central(a)!Init
    /\ [][\A a \in Allocators : Central(a)!Next \/ UNCHANGED Central(a)!vars]_vars
==============================================================================
