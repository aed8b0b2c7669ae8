# Verification of fixed-size-memory-pool

TLA+ specifications of the memory-pool library, model-checked with TLC on small
instances; the safety properties are also proved with TLAPS for every value of
the constants. Paths below are relative to the repository.

## The system

| Part | Source | State and operations | Modelled in |
|---|---|---|---|
| `FixedSizeMemoryPool` | `src/fixed_size_memory_pool.cpp`, `include/memory_pool/fixed_size_memory_pool.hpp` | one slab with an intrusive free list; allocate, deallocate, validate_integrity, create/destroy | `FixedPool`, `ObjectPool` |
| guards, state table, statistics | `src/detail/memory_guard.cpp`, `diagnostic_state.cpp`, `statistics_tracker.cpp` | canaries and poison, block states, counters | `FixedPool` |
| block layout | `src/detail/block_layout.cpp` | pure arithmetic with overflow checks | `BlockLayout` |
| `MemoryChunk`, `ChunkManager` | `src/memory_chunk.cpp`, `src/chunk_manager.cpp` | chunks with free lists and states; growth, reclamation | `ChunkPool` |
| `BasicChunkPool`, exhaustion policies | `include/memory_pool/chunk_pool.hpp`, `exhaustion_policies.hpp` | null, throw, grow, heap fallback | `ChunkPool` |
| memory providers | `src/new_delete_memory_provider.cpp`, `src/pool_memory_resource.cpp` | backing memory; may throw | slabs of `ChunkPool` and `Segregated` |
| `SizeClassSelector`, `SegregatedAllocator` | `src/size_class_selector.cpp`, `src/segregated_allocator.cpp` | a growing chunk pool per class, a fallback map, statistics | `SizeClasses`, `SizeClassSelector`, `Segregated` |
| `BasicSynchronizedAllocator` | `include/memory_pool/synchronized_allocator.hpp` | one mutex around `SegregatedAllocator` | `Synchronized` |
| `ThreadCacheState` | `src/detail/thread_cache_state.cpp` | record shards under mutexes, central storage under a mutex, relaxed atomic gauges | `ThreadCache`, `AtomicPeak` |
| `ThreadCachedAllocator`, thread registry | `src/thread_cached_allocator.cpp` | thread-local bins behind weak references, flush at thread exit | `ThreadCache`, `Registry` |
| `PoolMemoryResource` | `src/pool_memory_resource.cpp` | PMR adapter | `PoolResources` |
| `MonotonicArena`, `ArenaChunk` | `src/monotonic_arena.cpp`, `src/detail/arena_chunk.cpp` | bump allocation, rollback, destructors, reset | `Arena`, `ArenaLifetimes` |
| `ObjectPool`, `PoolPtr` | `include/memory_pool/object_pool.hpp`, `pool_ptr.hpp` | object lifetimes over the fixed pool | `ObjectPool` |

Concurrency lives in the thread cache, its registry and the synchronized
allocator; all other classes are single-threaded by contract, and a call of
theirs is one step, unless it runs user code. Constructors and destructors may
call the object back, so `Arena` and `ObjectPool` keep a stack of calls in
progress.

## The modules

### ThreadCache

`records` is the union of the 64 record shards, `shardLock` who holds which shard
mutex, `bins` the thread-local caches, `central` what the central allocator has
allocated and for which kind, `cached` and `live` two gauges, and `frame[t]`
the position of thread `t` in a call with the locals it needs later.

A critical section that takes no further lock is one step. `central_mutex_` is a
leaf lock, so a central call is one step; a shard mutex held across one is
explicit. The steps of `allocate` are `CallAllocate` (pop from the bin or start
a refill), `CacheHit`, and per block of a batch `CentralAllocate`,
`RecordAllocation`, `KeepBlock`, with `CentralAllocateFails`,
`RecordAllocationFails` and `UndoAllocation` for failures, then
`NoteLiveAllocation`. A fallback request takes the same steps with a batch of
one. `deallocate` is `CallDeallocate`, then `DeallocateRejected`,
`DeallocateToCentral`/`CentralDeallocate`/`EraseRecord` for remote and
fallback blocks, or `DeallocateLocal`/`PushLocal`. `flush_bin` is `FlushLock`,
`FlushCentral`, `FlushErase` per block; `CallRelease` and `ExitThread` flush
all bins. A failed internal check leads to the label `broken`.

Data is abstracted: a request is a model value with a size class, and a block is
allocated for a *kind*, its class or, for a fallback block, the exact request.
The unordered maps, the hash and the cumulative counters are left out.

* `Allocator` is the abstract specification: allocation and release in one
  step each, blocks free, active or idle. `ImplementsAllocator` maps the records
  and frames to it.
* `ThreadCacheClients` composes the cache with callers that keep the rules.
* `ThreadCacheInvariant` states the inductive invariants.

### AtomicPeak

`note_live_allocation` and the other `fetch_add`s followed by `update_peak`. One
atomic operation is one step. A relaxed load may return an earlier value of the
peak (any value up to the current one, since the peak only grows); a
read-modify-write sees the latest; `compare_exchange_weak` may fail spuriously.

### FixedPool

A block is its words: the `FreeNode` link at the start of the raw block, the two
canaries and the payload. Without guards the link *is* the payload; with guards
and an alignment of at most `sizeof(FreeNode)` it *is* the front canary. Calls
are atomic; `call` keeps the last call and its outcome. The fast path does what
the general path does with all options off. `FreeNodes` and `IntegrityHolds` are
the walk and the comparison of `validate_integrity`. Callers write their payload,
overrun it by a word on either side and return blocks they do not hold; where
`dangling` is true, a choice of the initial state, they also write through
dangling pointers. `MisuseSpec` leaves out the restriction `Contained` (see
Findings). `AllocateUndefined` ends a behaviour in which the program would read through a
link that is no address.

### ChunkPool

`chunks` is the vector of chunks, each with its slab, free list and state bytes;
`outstanding` is what the provider has handed out. The provider may fail at any
time and may hand a released slab out again. `Allocate`, `AllocateFails`,
`AllocateGrows` and `AllocateFallsBack` are `allocate` with its four policies;
`DeallocateBlock` includes the reclamation that ends every return; `Grow` is the
public `ChunkManager::grow`. The growth arithmetic runs on a `size_t` whose
largest value is a constant, with saturation as in the code, and a slab that
would overflow it cannot be acquired.

### Registry

What `ThreadCache` leaves out: several allocators, their lifetimes and the
thread-local registries that name them. A registry entry is a count of cached
blocks behind a weak reference; `wrapper` is the life of a
`ThreadCachedAllocator`, `freed` the states destroyed, `locked` the reference a
flushing thread got from `weak_ptr::lock`. A call is one step, a flush gives
back one block per step, and `DestroyAllocator` flushes the destroying thread's own bins
before it drops the allocator's reference, as `Impl::~Impl` does. The state is
destroyed in the step that drops the last reference (`DropReferences`), whoever
does it. A call that throws has made the registry entry already (`CallFails`).

### SizeClasses and SizeClassSelector

`ValidClasses` is what the constructor accepts, `select` the binary search by the
larger of size and alignment. `SizeClassSelector` runs it on every vector,
sorted or not, and every request around the class boundaries. `Powers` defines
powers by a recursive function, which the proofs can unfold.

### Segregated, CentralStorage and PoolResources

`Segregated` is `SegregatedAllocator` with one growing pool per class and the
fallback table. A pool is reduced to its chunks and their live blocks; the
detail is in `ChunkPool`. Any number of allocators share one provider.
`InsertionFails` is the path that gives a fallback block back after the metadata
could not be stored. `CentralStorage` is the contract: an address handed out is
not in use, and a return is accepted exactly if the address is in use and the
size given, if any, is of the right kind. `ThreadCache` and `Synchronized` are
written against this contract, and `ImplementsCentralStorage` shows that
`Segregated` keeps it. `PoolResources` adds `do_is_equal` and containers that
take over each other's buffers when their resources are equal; where `direct` is
true, a choice of the initial state, one allocator is called with any pointer
and any size instead.

### Synchronized

The body of a call is split where another thread could see it half done: the
request is counted, a block found, marked, and the success counted;
`statistics()` copies the counters in two steps. `Lock` and `Unlock` are the
`lock_guard`, which also unlocks when the call throws. `ImplementsAllocator`
maps it to `Allocator`, the abstract specification that `ThreadCache` implements
too: both ways of sharing an allocator promise the same.

### Arena and ArenaLifetimes

An address is a chunk and an offset. `FirstFit` and `AddChunk` are the loop and
the tail of `allocate`, `Take` is `try_allocate` with `record_allocation`.
`stack` holds the constructions, resets and destructor calls in progress; user
code inside them may allocate, create, and, from a destructor, reset.
`RegistrationFails` is `register_destructor` throwing after the constructor
returned, `CreateFails` the handler with `rollback_last`. `reset` is `Reset`,
one `RunDestructor` per record and `FinishReset`. Nobody resets the arena while
an object is under construction: `reset` invalidates every arena pointer.
`live` and `alive` are history: the regions handed out and the objects built.
A destructor that calls `reset` gives up the storage of its own object while it
still runs: `ObjectsInLiveStorage` is about the objects that are registered or
under construction, whose storage is therefore live when a destructor begins.
`ArenaLifetimes` records the workload between two resets to compare it with the
one before.

### BlockLayout

`make_block_layout` with its checked arithmetic on a `size_t` of `Width` bits,
compared with the layout computed without bounds, and `owns`, `is_block_start`
and `block_index` for every pointer into and around the slab. `SizeArithmetic`
explores it side by side with `SizeClassSelector`: the two are the pure
computations of the library and share no state.

### ObjectPool

`create`, `destroy`, `make_unique` and the deleter of `PoolPtr`. `frames` is the
stack of calls in progress, `object` what lives in a block, `owner` who must end
its life, `breached` the blocks whose canary was overrun. A breached canary
makes `deallocate` throw: out of `destroy` after the destructor has run, in
place of the constructor's exception out of `create`, or into `std::terminate`
out of a deleter. A caller to whom `destroy` threw does not destroy again; the
code gives them no way to tell whether the destructor ran.

## The runs

| Run | Configuration | Shows |
|---|---|---|
| `thread_cache` | 2 threads, 3 blocks in 2 shards, 2 classes, a fallback and a rejected request, watermarks 2 and 1, batch 2; callers free any address with any size | no internal error, one holder per block, consistent ownership queries, bins within their reserve, exact gauges; the cache implements `Allocator` |
| `thread_cache_clients` | 7 calls by rule-keeping callers | held pointers stay live, the live gauge does not wrap, every call returns |
| `gauge_peaks` | 3 threads, gauge up to 3 | peaks exact once no update is running; every update returns |
| `fixed_pool` | 3 blocks, all options, both layouts, `size_t` up to 7; callers with and without dangling writes | exact list and counters; the integrity check is exact; no block handed out twice |
| `fixed_pool_double_free` | diagnostics and poisoning, no guards | an expected violation, see Findings |
| `chunk_pool` | 3 slabs, 4 policies, 5 growth policies, 0 to 2 spares, `size_t` up to 9, explicit `grow()` | held blocks survive, provider balanced, pool never dries up, growth in closed form; only `grow()` raises the number of empty chunks above the spare count |
| `object_pool` | 3 blocks, 3 nested calls, 5 objects, with and without guards and diagnostics | each object destroyed once; a block is lost only to a breached canary |
| `registry` | 2 threads, 2 allocators of 3 blocks | no flush into a destroyed state, no block stranded, states reclaimed |
| `pool_resources` | 2 resources with 2 classes and a fallback over 5 slabs; containers exchange buffers, or callers return any pointer with any size | buffers only reach containers whose resource takes them back; the provider is balanced; the contract `CentralStorage` is kept |
| `synchronized` | 3 threads, 2 blocks, 4 calls | snapshots of one moment, the refinement of `Allocator`, every call returns |
| `arena` | 4 requests, plain, padded or invalid, 2 resets, 4 nested calls, fixed, capped and saturating growth, `size_t` up to 31 | regions and objects safe, reverse destruction, capacities follow the policy across resets, a repeated workload gets the same addresses and no new chunk |
| `size_arithmetic` | every block size and count of a 6-bit `size_t`, 10 alignments, guards on and off; all vectors of up to 3 of 8 classes | a slab is refused exactly when it overflows; links, guards and payloads lie where they should; exactly the payload starts have an index; the smallest suitable class is selected |

Each property was also checked against a version of the model with a plausible
bug in the code it is about (the definitions marked "Mutant" beside the ones
they replace): TLC finds every one of them violated.

**Bounds.** Three blocks and two threads are the least for which a flush leaves
a block behind, a refill fails in its middle, two blocks share a shard while a
third does not, and a freed address is reused by the other thread during the
erasure of its record. The watermarks let a push overflow and a flush stop
above zero. `MaxCalls` bounds the calls of rule-keeping callers: seven are
enough to fill a bin by a refill, overflow it and free remotely. `MaxRequests`
bounds the counters of `FixedPool` past the saturation of its byte total.
`MaxGrows` lets geometric growth pass the cap and the point where the layout
overflows. `MaxGauge` makes each of three threads hold a different candidate.
Three nested calls are the least for a destructor that creates an object whose
constructor destroys a third; four let a destructor that the arena runs reset
the arena again and a destructor of that reset run, or two constructions nest in
a destructor. Two
registries and two allocators let one thread exit while another destroys one of
the allocators it names and keeps the other. A 6-bit `size_t` has every overflow
of the layout within reach, and 31 saturates geometric growth after two chunks.
In `pool_resources` a directly used allocator is asked three times
(`MaxRequests`), enough to make a class grow past its two blocks, and each
shared resource twice (`MaxAcquires`), enough for a buffer from each side.
The deadlock check is off where all threads may have exited, all calls may have
been made, or the pool may have been destroyed. Threads, the addresses of one
shard, and slabs are symmetric where a configuration says so.

**Fairness.** In `thread_cache_clients` a thread inside a call is scheduled and
gets a mutex that stays free: weak fairness of its steps, which is what
`std::mutex` and the operating system give. Callers are not fair. In
`synchronized` the same holds for a thread that holds the mutex or finds it
free, but a thread that waits must get it in the end although others keep
calling: `MaxCalls` ends the competition, so weak fairness is enough. In
`registry` a flush or an exit that has begun goes on. In
`gauge_peaks` a thread in `update_peak` keeps running, and a weak
compare-exchange that could succeed again and again does not fail spuriously
for ever: strong fairness of `Exchange`.

## Findings

**A refused double free damages the free list** (run
`fixed_pool_double_free`). `deallocate` poisons the
payload before `mark_free` looks at the state table. With diagnostics and
poisoning but no guards the payload of a free block holds its link, so the
call that throws `DoubleFreeError` has overwritten it
(`src/fixed_size_memory_pool.cpp:120-129`). The diagnostics test calls
`validate_integrity()` after a double free, without poisoning.

`fixed_pool` leaves the callers of this finding out (`Contained`) and shows that
nothing else goes wrong. Two smaller differences between documentation and code
were met while modelling and are part of the model, without a run of their own:

* With guards and an alignment of at most 8 a second return is reported as
  `MemoryCorruptionError`: the link lies over the front canary, and canaries are
  compared first. `README.md:118-124` promises `DoubleFreeError` for diagnostic
  mode; with the 16-byte alignment of its example that is what happens.
* `chunk_policies.hpp:35` describes `spare_empty_chunks` as the number of free
  chunks retained after a return, and `README.md:210-211` says that the extras
  are released. A return considers only the chunk it has just emptied, so empty
  chunks added by explicit `grow()` stay. `EmptyChunksBounded` states the bound
  that does hold.

## The proofs

Every safety property that a passing run checks is proved, and so are the three
refinements. The proofs are in modules of their own:

| Module | About |
|---|---|
| `ArithmeticLemmas` | induction over the numbers, division, powers, multiples of powers of two; shared by the others |
| `ThreadCacheProofs` | `CacheInvariant`: records, bins, locks and central storage |
| `ThreadCacheHolderProofs` | `HolderInvariant` and `ClientInvariant`, step by step |
| `ThreadCacheTheorems` | counting holders and gauges, the refinement of `Allocator`, and the theorems |
| `FixedPoolProofs` | `FixedPool`, `ObjectPool`, `AtomicPeak` |
| `ChunkPoolProofs` | `ChunkPool`, `Synchronized`, `Registry` |
| `AllocatorProofs` | `Segregated`, `PoolResources`, `SizeClassSelector`, `BlockLayout` |
| `ArenaProofs` | `Arena`, `ArenaLifetimes` |

Some definitions carry the name of their component (`SyncNext`, `objectVars`,
`ReleaseCache`) so that one module can extend several.

Some invariants are proved and not model-checked, because a run could only
repeat on a small instance what the theorem says in general: `CacheInvariant`,
`PeakInvariant`, `PeakNeverFalls`, `SyncInvariant`, `OneCallPerBlock`,
`DestructorsOfLiveObjects`, `LifetimeInvariant`, `CursorInvariant`,
`RegionsAligned` and `NewChunkSuffices`.

The assumptions are the named ones beside the constants: what the constructors
and `validate_options` accept, that sentinels differ from the values they stand
beside, and that threads and addresses are finite where something is counted.
The numbers that bound a run (`MaxCalls`, `MaxRequests`, `MaxDepth`, ...) are
arbitrary in the proofs.

**Induction over data.** `NatSetInduction` says that a set that contains 0 and
with n also n + 1 contains every number; it follows from the least element of a
well-founded order. It is applied to sets written out for the purpose, for
example the lengths for which a walk of the free list is right. With it, and with
the fact that a recursive function satisfies its equation (proved each time from
functions on initial segments), the proofs cover the binary search of `select`,
the walk of `validate_integrity`, the powers of the growth policies, the sum of
the cached blocks over all threads and the comparison of two workloads.

### Thread cache

`CacheInvariant` is behind `NoInternalError` and `OwnershipQueryConsistent`.
Neither is inductive: that a flush finds an inactive record depends on
what every bin contains, and that depends on which thread may touch a record
while a block travels between a bin, a caller and central storage. So
`CacheInvariant` says for each label of a frame what it knows of the block in
hand (`FrameOK`, `LockOK`, `FreshOK`, `HandOK`, `FreeOK`, `FlushOK`), of every
bin that it holds inactive blocks of its thread and class, each once (`BinOK`),
and of every address that record and central storage agree but for a block
whose record is being erased under its lock and one that is allocated and not
yet recorded (`CentralOK`). The delicate case is a block that central storage
has back and hands out again while its old record still exists: `FreshOK` allows
a fresh block to have a record only in that window, and the shard lock makes
`record_allocation` wait until it is over.

`HolderInvariant` adds where the blocks are: an inactive block is in a bin of its
owner or in the owner's hand (`PlaceOK`), and a bin is as full as the position
of its thread allows (`ReserveOK`: up to the watermark between calls, less what a
refill has still to fetch inside one). That gives `BinsWithinReserve`, by which
no `push_back` can throw, and `BlockHasOneHolder`. `Gauges` equates the two
gauges with cardinalities of sets of records, less the threads that have
recorded a block and not yet counted it; every action flips at most one element
of each set.

`ClientInvariant`, for callers that free only what they hold: a pointer in a
caller's hands or in a call in progress has one such use and an active record.
`HeldPointersStayLive` follows, and with `Gauges` also `LiveGaugeNeverWraps`: the
free that lowers `live` is of a block that was counted, or another is.

The refinement of `Allocator` maps a record to its state and a frame to the call
it is in. A call takes effect when its record is written, marked or erased, and
all other steps stutter; the invariants say that the abstract guard holds then.

### Pools

`PoolInvariant` (`FixedPool`): the state table marks what callers hold, also
while dangling writes corrupt the list, and without dangling writes list and
counters are exact. `NeverHandedOutTwice` needs only the first part.
`IntegrityCheckExact` compares the bounded walk with the list the links really
form: if the walk finds every free block once, they are a list. For `ObjectPool`
the invariant combines the types, `OneCallPerBlock`, `LostBlocksAreBreached` and
`OneOwner`: an object has an owner exactly while it is live, so no call in
progress can be overtaken by a second `destroy` of the same block. For
`AtomicPeak` the largest value is in the peak or is the candidate of a thread
still in `update_peak`.

`ChunkInvariant` (`ChunkPool`): every block of a chunk is free once or live, no
slab backs two chunks or a chunk and a fallback block, and what is outstanding is
exactly those slabs. `PoolNeverDriesUp` and `EmptyChunksBounded` rest on
how many chunks are empty before and after a return. `GrowthClosedForm` needs
that one multiplication with the overflow check of the code computes the next
power, cut off at the maximum or at the largest `size_t`.

`Synchronized`: exactly the holder of the mutex is inside the allocator. The
invariant has to say what a thread inside has found and not yet acted on (a
block is free, a pointer is returnable, half a copy is current): the mutex is
what keeps that true.

`Registry`: who flushes holds a reference, and a referenced state is not
destroyed (`LifetimeInvariant`). `NoBlockStranded` is a sum over the registries
of all threads, and needs that an exiting thread has left nothing in the entries
it has visited (`StorageInvariant`).

### Allocators

`SegregatedInvariant`: the slabs of all open allocators' chunks and fallback
blocks are distinct and are what the provider has out; an allocator that is not
open has none. `BufferInvariant`: each buffer is live in the resource of its
container, as what it was asked for, and in one container only; equal resources
are the same allocator, so handing over a buffer keeps it true. The refinement
of `CentralStorage` is read off the two: the map from addresses to kinds
(`LiveKind`) gains one entry with an allocation and loses one with an accepted
return, whatever is reclaimed.

`SelectsSmallestSuitable`: for increasing classes the binary search finds the
first that is not below the larger of size and alignment; among powers of two
"at least as large" is "a multiple".

`LayoutInvariant` says that the layout is the one computed from the arguments.
The rest is arithmetic for a `size_t` of any width: the checks are made in an
order in which each sum is the true one as long as none was refused, a valid
alignment divides the number of values of a `size_t`, so that rounding up is the
next multiple exactly when it fits, and a distance is a multiple of the stride
exactly for payload starts.

### Arena

`LiveRegionsSafe` is not inductive: whether a rewind
is harmless depends on `last_allocation` being the newest region of its chunk
(`CursorInvariant`), and whether the storage of an object survives a rewind
depends on all objects under construction and all registered ones having
different addresses, and on no reset lying above a construction
(`ObjectsKept`). The alignment rests on a lemma about rounding up with `%`.
`CapacityFollowsPolicy` is proved with the size of the next chunk: after any
rollback or reset it is again the closed form for the chunks that are left.
`DestroyedInReverse` needs that the records are exactly the objects alive, in
order, with no address twice (`InOrder`): then the object whose destructor
begins is the last one alive.

`RepeatedWorkloadReusesAddresses` compares two lifetimes. A *position* is the
current chunk, the last allocation and every cursor, zero for chunks that do not
exist yet. `Follows` says what a logged call does to a position; it is a function
of the position and of the capacities and alignments of the chunks, and it gives
the same in a longer list of chunks, because a chunk is added only when none
before it has room. `Walked` says that both logs are walks through
positions over the chunks there are now, this one ending at the current
position, and that chunks beyond the retained ones were added for a logged call.
Two walks that start at the origin and make the same calls pass the same
positions.

### Only model-checked

* Liveness (`EveryCallReturns` of both kinds, `UpdateReturns`,
  `StateReclaimed`): it needs fairness and `ENABLED`, which the prover does not
  support.

## Not modelled

* The order in which the runtime destroys static and `thread_local` objects: an
  allocator with static storage may outlive the registry of the main thread,
  which its destructor uses. The source does not determine that order;
  `Registry` lets only running threads destroy allocators.
* A second `destroy` of a pointer for which the first has thrown.
* The cumulative activity counters of the thread cache, and the peaks and byte
  totals of the arena and of the segregated allocator: nothing in the code reads
  them, and each is one addition beside a counter that is modelled.
* The choice between the two families of `operator new` in
  `NewDeleteMemoryProvider`; the provider hands out whole slabs.
* Weak memory beyond relaxed gauges: everything else is read and written under
  a mutex or by one thread.
* `debug_dump` and error texts (output), benchmarks and examples, compile-time
  type checks, and the standard containers beyond throwing on allocation.
