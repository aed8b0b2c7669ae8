------------------------------ MODULE ChunkPool ------------------------------
(***************************************************************************)
(* BasicChunkPool over ChunkManager over MemoryChunk: a sequence of chunks *)
(* of blocks that grows when an exhaustion policy says so and gives empty  *)
(* chunks back to the memory provider.  None of it is thread-safe: one     *)
(* call is one step, with the provider calls it makes.                     *)
(*                                                                         *)
(* The provider hands out slabs; a released slab may be handed out again,  *)
(* so a pointer may outlive its chunk and come to point into another one.  *)
(* A pointer is a slab, a block index and whether it is the block's start; *)
(* a fallback block is the block 0 of a slab of its own.  Callers return   *)
(* any pointer, held or not.                                               *)
(***************************************************************************)
EXTENDS Naturals, FiniteSets, Sequences, FiniteSetsExt, Powers

CONSTANTS
    Slabs,          \* the provider's storage, by address
    Policies,       \* the exhaustion policies explored
    Spares,         \* the values of spare_empty_chunks explored
    Growths,        \* the GrowthPolicies explored: mode, factor, maximum
    InitialBlocks,
    SizeMax,        \* the largest size_t
    Stride,         \* block_stride
    MaxGrows        \* bounds how many chunks are ever added

\* The growth policies ChunkManager's constructor accepts.
ValidGrowth(g) ==
    /\ g.mode \in {"fixed", "geometric"}
    /\ g.mode = "geometric" => g.factor >= 2
    /\ g.maximum # 0 => g.maximum >= InitialBlocks

ASSUME ChunkAssumption ==
    /\ InitialBlocks \in Nat \ {0} /\ Stride \in Nat \ {0}
    /\ SizeMax \in Nat /\ MaxGrows \in Nat
    /\ InitialBlocks * Stride <= SizeMax
    /\ Policies \subseteq {"null", "throw", "grow", "heap"}
    /\ Spares \subseteq Nat
    /\ Growths \subseteq [mode : {"fixed", "geometric"}, factor : Nat, maximum : 0 .. SizeMax]
    /\ \A g \in Growths : ValidGrowth(g)

VARIABLES
    options,            \* the policy, spare_empty_chunks and the GrowthPolicy
    chunks,             \* chunks_, each with its slab, free list and states
    next_growth_blocks, \* next_growth_blocks_
    fallback,           \* fallback_allocations_, by slab
    outstanding,        \* the slabs the provider has handed out
    held,               \* the pointers callers were given and have not returned
    grows,              \* how many chunks were ever added
    call                \* the last call and how it ended

vars == <<options, chunks, next_growth_blocks, fallback, outstanding, held, grows, call>>

Block(slab, i) == [slab |-> slab, index |-> i, start |-> TRUE]
MaxBlocks == SizeMax \div Stride   \* make_block_layout throws beyond it
Pointers == [slab : Slabs, index : 0 .. MaxBlocks - 1, start : BOOLEAN]

Running == call.op # "destroy"
Ends(op, result) == call' = [op |-> op, result |-> result]

------------------------------------------------------------------------------
\* MemoryChunk: the blocks in order on the free list, none of them live.
NewChunk(slab, n) ==
    [slab |-> slab, count |-> n, free |-> [i \in 1 .. n |-> i - 1], live |-> {}]

IsEmpty(chunk) == Len(chunk.free) = chunk.count

\* MemoryChunk::allocate and deallocate, past their early returns.
Pop(chunk) ==
    [chunk EXCEPT !.free = Tail(@), !.live = @ \cup {Head(chunk.free)}]

Push(chunk, i) == [chunk EXCEPT !.free = <<i>> \o @, !.live = @ \ {i}]

\* Mutant: the multiplication saturates past the configured maximum.
GrowthSaturates(current) ==
    LET g == options.growth
    IN  IF g.mode = "fixed" THEN InitialBlocks
        ELSE IF g.maximum # 0 /\ current >= g.maximum THEN g.maximum
        ELSE IF current > SizeMax \div g.factor THEN SizeMax
        ELSE IF g.maximum # 0 THEN Min({current * g.factor, g.maximum})
        ELSE current * g.factor

CalculateNextGrowth(current) ==
    LET g == options.growth
    IN  IF g.mode = "fixed" THEN InitialBlocks
        ELSE IF g.maximum # 0 /\ current >= g.maximum THEN g.maximum
        ELSE IF current > SizeMax \div g.factor
             THEN IF g.maximum # 0 THEN g.maximum ELSE SizeMax
        ELSE IF g.maximum # 0 THEN Min({current * g.factor, g.maximum})
        ELSE current * g.factor

\* grow on success: the provider gave the slab.
Grown(slab) ==
    /\ grows < MaxGrows
    /\ next_growth_blocks <= MaxBlocks
    /\ slab \in Slabs \ outstanding
    /\ outstanding' = outstanding \cup {slab}
    /\ next_growth_blocks' = CalculateNextGrowth(next_growth_blocks)
    /\ grows' = grows + 1

\* The constructor grows once.
Init ==
    /\ options \in [policy : Policies, spare : Spares, growth : Growths]
    /\ \E slab \in Slabs :
          /\ chunks = <<NewChunk(slab, InitialBlocks)>>
          /\ outstanding = {slab}
    /\ next_growth_blocks = CalculateNextGrowth(InitialBlocks)
    /\ fallback = {}
    /\ held = {}
    /\ grows = 1
    /\ call = [op |-> "construct", result |-> "ok"]

(***************************************************************************)
(* allocate: the first chunk with a block, or the exhaustion policy.       *)
(***************************************************************************)
HasBlock(i) == chunks[i].free # <<>>
Full == \A i \in DOMAIN chunks : ~ HasBlock(i)

Allocate ==
    /\ Running
    /\ ~ Full
    /\ LET i == Min({j \in DOMAIN chunks : HasBlock(j)})
       IN  /\ chunks' = [chunks EXCEPT ![i] = Pop(@)]
           /\ held' = held \cup {Block(chunks[i].slab, Head(chunks[i].free))}
    /\ Ends("allocate", "ok")
    /\ UNCHANGED <<options, next_growth_blocks, fallback, outstanding, grows>>

\* nullptr, or an exception: bad_alloc from the policy or the provider, or
\* length_error from the layout of a chunk that would overflow size_t.
AllocateFails ==
    /\ Running
    /\ Full
    /\ Ends("allocate", IF options.policy = "null" THEN "null" ELSE "throws")
    /\ UNCHANGED <<options, chunks, next_growth_blocks, fallback, outstanding, held, grows>>

AllocateGrows ==
    /\ Running
    /\ Full
    /\ options.policy = "grow"
    /\ \E slab \in Slabs :
          /\ Grown(slab)
          /\ chunks' = Append(chunks, Pop(NewChunk(slab, next_growth_blocks)))
          /\ held' = held \cup {Block(slab, 0)}
    /\ Ends("allocate", "ok")
    /\ UNCHANGED <<options, fallback>>

AllocateFallsBack ==
    /\ Running
    /\ Full
    /\ options.policy = "heap"
    /\ \E slab \in Slabs \ outstanding :
          /\ outstanding' = outstanding \cup {slab}
          /\ fallback' = fallback \cup {slab}
          /\ held' = held \cup {Block(slab, 0)}
    /\ Ends("allocate", "ok")
    /\ UNCHANGED <<options, chunks, next_growth_blocks, grows>>

\* ChunkManager::grow, which a caller reaches through chunk_manager().
Grow ==
    /\ Running
    /\ \E slab \in Slabs :
          /\ Grown(slab)
          /\ chunks' = Append(chunks, NewChunk(slab, next_growth_blocks))
    /\ Ends("grow", "ok")
    /\ UNCHANGED <<options, fallback, held>>

(***************************************************************************)
(* deallocate.                                                             *)
(***************************************************************************)
Owns(i, p) == chunks[i].slab = p.slab /\ p.index < chunks[i].count
InFallback(p) == p.slab \in fallback /\ p.index = 0 /\ p.start

\* Mutants: the chunk goes even when it is not empty, or whatever is spare, or
\* only when one chunk too many is empty.
ReclaimsUsed(i, after) == Len(after) > options.spare
ReclaimsEvery(i, after) == IsEmpty(after[i])
ReclaimsLate(i, after) ==
    /\ IsEmpty(after[i])
    /\ Cardinality({j \in DOMAIN after : IsEmpty(after[j])}) > options.spare + 1

\* reclaim_if_allowed, for chunk i of the chunks after the return.
Reclaims(i, after) ==
    /\ IsEmpty(after[i])
    /\ Cardinality({j \in DOMAIN after : IsEmpty(after[j])}) > options.spare

\* chunks_.erase.
RemoveAt(s, i) == SubSeq(s, 1, i - 1) \o SubSeq(s, i + 1, Len(s))

DeallocateBlock(p) ==
    /\ Running
    /\ \E i \in DOMAIN chunks :
          LET after == [chunks EXCEPT ![i] = Push(@, p.index)]
          IN  /\ Owns(i, p)
              /\ p.start
              /\ p.index \in chunks[i].live
              /\ chunks' = IF Reclaims(i, after) THEN RemoveAt(after, i) ELSE after
              /\ outstanding' = IF Reclaims(i, after) THEN outstanding \ {p.slab}
                                ELSE outstanding
    /\ held' = held \ {p}
    /\ Ends("deallocate", "ok")
    /\ UNCHANGED <<options, next_growth_blocks, fallback, grows>>

\* Mutant: the ownership entry is erased, the provider is not called.
FallbackLeaks(slab) == outstanding

FallbackReleased(slab) == outstanding \ {slab}

DeallocateFallback(p) ==
    /\ Running
    /\ \A i \in DOMAIN chunks : ~ Owns(i, p)
    /\ InFallback(p)
    /\ outstanding' = FallbackReleased(p.slab)
    /\ fallback' = fallback \ {p.slab}
    /\ held' = held \ {p}
    /\ Ends("deallocate", "ok")
    /\ UNCHANGED <<options, chunks, next_growth_blocks, grows>>

\* DoubleFreeError, or InvalidPoolPointer.
DeallocateRejected(p) ==
    /\ Running
    /\ \A i \in DOMAIN chunks : Owns(i, p) => ~ p.start \/ p.index \notin chunks[i].live
    /\ InFallback(p) => \E i \in DOMAIN chunks : Owns(i, p)
    /\ Ends("deallocate", "error")
    /\ UNCHANGED <<options, chunks, next_growth_blocks, fallback, outstanding, held, grows>>

\* ~BasicChunkPool: release_all, then the chunks.
Destroy ==
    /\ Running
    /\ outstanding' = (outstanding \ fallback) \ {chunks[i].slab : i \in DOMAIN chunks}
    /\ fallback' = {}
    /\ chunks' = <<>>
    /\ Ends("destroy", "ok")
    /\ UNCHANGED <<options, next_growth_blocks, held, grows>>

Next ==
    \/ Allocate \/ AllocateFails \/ AllocateGrows \/ AllocateFallsBack
    \/ \E p \in Pointers :
          DeallocateBlock(p) \/ DeallocateFallback(p) \/ DeallocateRejected(p)
    \/ Grow \/ Destroy

Spec == Init /\ [][Next]_vars

------------------------------------------------------------------------------
(***************************************************************************)
(* Properties.                                                             *)
(***************************************************************************)
TypeOK ==
    /\ options \in [policy : Policies, spare : Spares, growth : Growths]
    /\ chunks \in Seq([slab : Slabs, count : Nat, free : Seq(Nat), live : SUBSET Nat])
    /\ next_growth_blocks \in 1 .. SizeMax
    /\ fallback \subseteq Slabs /\ outstanding \subseteq Slabs
    /\ grows \in Nat
    /\ call \in [op : {"construct", "allocate", "deallocate", "grow", "destroy"},
                result : {"ok", "null", "throws", "error"}]

LivePointers ==
    UNION {{Block(chunks[i].slab, b) : b \in chunks[i].live} : i \in DOMAIN chunks}

EmptyChunks == {i \in DOMAIN chunks : IsEmpty(chunks[i])}

\* A pointer a caller holds stays valid until it is returned, and no other
\* pointer is ever accepted: growth, reclamation and reuse of a slab by the
\* provider never take a live block away, and stale pointers are refused.
HeldPointersExact == Running =>
    held = LivePointers \cup {Block(slab, 0) : slab \in fallback}

\* Every slab the provider handed out is backing exactly one chunk or fallback
\* block, and all are given back by the time the pool is destroyed.
ProviderBalanced ==
    LET slabs == {chunks[i].slab : i \in DOMAIN chunks}
    IN  /\ outstanding = slabs \cup fallback
        /\ slabs \cap fallback = {}
        /\ Cardinality(slabs) = Len(chunks)

\* Empty chunks do not pile up: whatever the order in which blocks come back,
\* only an explicit grow() adds one when spare_empty_chunks are already empty.
EmptyChunksBounded ==
    [][Cardinality(EmptyChunks') > Cardinality(EmptyChunks) =>
          Cardinality(EmptyChunks') <= options.spare \/ call'.op = "grow"]_vars

\* With a spare chunk allowed, reclamation never takes the last chunk: a pool
\* whose blocks have all come back can always allocate without its policy.
PoolNeverDriesUp ==
    Running /\ options.spare > 0 /\ held = {} => ~ Full

\* The k-th chunk added has initial * factor^k blocks, capped by the configured
\* maximum and saturated at the largest size, whatever was reclaimed since.
GrowthClosedForm ==
    LET g == options.growth
        cap == IF g.maximum = 0 THEN SizeMax ELSE g.maximum
    IN  next_growth_blocks =
          IF g.mode = "fixed" THEN InitialBlocks
          ELSE Min({InitialBlocks * Power(g.factor, grows), cap})

\* Behind the properties: every block of a chunk is on its free list, once, or
\* live; each slab backs one chunk or one fallback block; and with a spare chunk
\* allowed there is always a chunk.
ChunkOK(chunk) ==
    /\ chunk.count \in 1 .. MaxBlocks
    /\ Range(chunk.free) \cup chunk.live = 0 .. chunk.count - 1
    /\ Range(chunk.free) \cap chunk.live = {}
    /\ \A j, k \in DOMAIN chunk.free : chunk.free[j] = chunk.free[k] => j = k
    /\ Len(chunk.free) + Cardinality(chunk.live) = chunk.count

ChunkInvariant ==
    /\ \A i \in DOMAIN chunks : ChunkOK(chunks[i])
    /\ \A i, j \in DOMAIN chunks : chunks[i].slab = chunks[j].slab => i = j
    /\ outstanding = {chunks[i].slab : i \in DOMAIN chunks} \cup fallback
    /\ \A i \in DOMAIN chunks : chunks[i].slab \notin fallback
    /\ HeldPointersExact
    /\ Running /\ options.spare > 0 => chunks # <<>>
==============================================================================
