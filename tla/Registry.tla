------------------------------ MODULE Registry -------------------------------
(***************************************************************************)
(* ThreadCachedAllocator::Impl::ThreadRegistry: every thread maps the ids  *)
(* of the allocators it has used to a weak reference and to its bins.      *)
(* Threads exit, allocators are destroyed, and both flush.  What happens   *)
(* inside a call is ThreadCache's subject: here a call is one step and     *)
(* bins are counted, so that several allocators and their lifetimes fit.   *)
(***************************************************************************)
EXTENDS Integers, FiniteSetsExt

CONSTANTS
    CacheThreads,       \* the threads that use the allocators
    CachedAllocators,   \* ids; next_allocator_id never repeats one
    HighWatermark, LowWatermark, Batch,
    Capacity,           \* bounds the blocks of one allocator
    None

ASSUME RegistryAssumption ==
    /\ IsFiniteSet(CacheThreads) /\ None \notin CachedAllocators
    /\ LowWatermark \in Nat /\ HighWatermark \in Nat /\ LowWatermark <= HighWatermark
    /\ Batch \in Nat \ {0} /\ Capacity \in Nat

Absent == -1    \* no entry in caches

VARIABLES
    wrapper,        \* CachedAllocators -> the life of the ThreadCachedAllocator
    freed,          \* the allocators whose ThreadCacheState is destroyed
    central,        \* CachedAllocators -> blocks taken from central storage
    inUse,          \* CachedAllocators -> blocks in callers' hands
    caches,         \* CacheThreads -> CachedAllocators -> blocks in the bins, or Absent
    op,             \* CacheThreads -> what the thread is doing
    flushing,       \* CacheThreads -> the allocator whose bins it flushes, or None
    locked,         \* CacheThreads -> what its shared_ptr from lock() refers to
    todo            \* CacheThreads -> the entries ~ThreadRegistry has still to visit

registryVars == <<wrapper, freed, central, inUse, caches, op, flushing, locked, todo>>
blocks == <<central, inUse>>

RegistryInit ==
    /\ wrapper = [a \in CachedAllocators |-> "unborn"]
    /\ freed = {}
    /\ central = [a \in CachedAllocators |-> 0]
    /\ inUse = [a \in CachedAllocators |-> 0]
    /\ caches = [t \in CacheThreads |-> [a \in CachedAllocators |-> Absent]]
    /\ op = [t \in CacheThreads |-> "idle"]
    /\ flushing = [t \in CacheThreads |-> None]
    /\ locked = [t \in CacheThreads |-> None]
    /\ todo = [t \in CacheThreads |-> {}]

------------------------------------------------------------------------------
(***************************************************************************)
(* Reference counting.                                                     *)
(***************************************************************************)
\* Mutant: the registry holds shared_ptrs.
HeldByRegistry(a) ==
    wrapper[a] \in {"alive", "destroying"} \/ \E t \in CacheThreads : locked[t] = a \/ caches[t][a] # Absent

Referenced(a) == wrapper[a] \in {"alive", "destroying"} \/ \E t \in CacheThreads : locked[t] = a

\* The last reference that goes destroys the state and central storage with it.
DropReferences == freed' = freed \cup {a \in CachedAllocators : wrapper'[a] # "unborn" /\ ~ Referenced(a)'}

expired(a) == a \in freed

\* Mutant: expired() is asked, and nothing keeps the state alive afterwards.
LockWithoutReference(t, a) == UNCHANGED locked

lock(t, a) == locked' = [locked EXCEPT ![t] = a]

------------------------------------------------------------------------------
ConstructAllocator(a) ==
    /\ wrapper[a] = "unborn"
    /\ wrapper' = [wrapper EXCEPT ![a] = "alive"]
    /\ UNCHANGED <<freed, blocks, caches, op, flushing, locked, todo>>

\* The bins get() finds for a thread, replacing an expired entry or none.
get(t, a) == IF caches[t][a] # Absent /\ ~ expired(a) THEN caches[t][a] ELSE 0

\* Calls are made by running threads, and not during destruction.
CanCall(t, a) == op[t] = "idle" /\ wrapper[a] = "alive"

Cache(t, a, n) == caches' = [caches EXCEPT ![t][a] = n]

\* From the bin, or with a batch from central storage that may fall short.
AllocateBlock(t, a) ==
    /\ CanCall(t, a)
    /\ \/ /\ get(t, a) > 0
          /\ Cache(t, a, get(t, a) - 1)
          /\ UNCHANGED central
       \/ /\ get(t, a) = 0
          /\ \E n \in 1 .. Batch :
                /\ central[a] + n <= Capacity
                /\ central' = [central EXCEPT ![a] = @ + n]
                /\ Cache(t, a, n - 1)
    /\ inUse' = [inUse EXCEPT ![a] = @ + 1]
    /\ UNCHANGED <<wrapper, freed, op, flushing, locked, todo>>

AfterPush(n) == IF n = HighWatermark THEN LowWatermark ELSE n + 1

\* To the own bin, which is flushed above the high watermark, or for another
\* thread's block to central storage.
ReturnBlock(t, a) ==
    /\ CanCall(t, a) /\ inUse[a] > 0
    /\ \E n \in {get(t, a), AfterPush(get(t, a))} :
          /\ Cache(t, a, n)
          /\ central' = [central EXCEPT ![a] = @ - (get(t, a) + 1 - n)]
    /\ inUse' = [inUse EXCEPT ![a] = @ - 1]
    /\ UNCHANGED <<wrapper, freed, op, flushing, locked, todo>>

\* A call that throws has called get() before.
CallFails(t, a) ==
    /\ CanCall(t, a)
    /\ Cache(t, a, get(t, a))
    /\ UNCHANGED <<wrapper, freed, blocks, op, flushing, locked, todo>>

------------------------------------------------------------------------------
\* release(id): the state is alive, its allocator was just asked for the id.
ReleaseCache(t, a) ==
    /\ CanCall(t, a)
    /\ caches[t][a] # Absent
    /\ op' = [op EXCEPT ![t] = "release"]
    /\ flushing' = [flushing EXCEPT ![t] = a]
    /\ lock(t, a)
    /\ UNCHANGED <<wrapper, freed, blocks, caches, todo>>

\* ~Impl, on the thread that destroys the wrapper; no call of another thread
\* is in progress, but threads may be exiting.
DestroyAllocator(t, a) ==
    /\ CanCall(t, a)
    /\ \A u \in CacheThreads : op[u] = "release" => flushing[u] # a
    /\ wrapper' = [wrapper EXCEPT ![a] = "destroying"]
    /\ op' = [op EXCEPT ![t] = "destroy"]
    /\ flushing' = [flushing EXCEPT ![t] = a]
    /\ lock(t, a)
    /\ UNCHANGED <<freed, blocks, caches, todo>>

\* flush_bin returns one block.
FlushBlock(t) ==
    /\ flushing[t] # None
    /\ LET a == flushing[t] IN
          /\ caches[t][a] > 0
          /\ Cache(t, a, caches[t][a] - 1)
          /\ central' = [central EXCEPT ![a] = @ - 1]
    /\ UNCHANGED <<wrapper, freed, inUse, op, flushing, locked, todo>>

\* Mutant: the entry is erased while it still holds a block.
EraseEarly(t) == flushing[t] # None /\ caches[t][flushing[t]] <= 1

\* The bins are empty, or there were none.
Flushed(t) == flushing[t] # None /\ caches[t][flushing[t]] \in {Absent, 0}

\* The reference taken by lock() goes out of scope; after release the entry is
\* erased, after ~Impl the allocator's own reference goes, and ~ThreadRegistry
\* turns to the next entry.
FlushDone(t) ==
    /\ Flushed(t)
    /\ LET a == flushing[t] IN
          /\ wrapper' = IF op[t] = "destroy" THEN [wrapper EXCEPT ![a] = "gone"] ELSE wrapper
          /\ IF op[t] = "exit" THEN UNCHANGED <<caches, op>>
             ELSE Cache(t, a, Absent) /\ op' = [op EXCEPT ![t] = "idle"]
          /\ todo' = [todo EXCEPT ![t] = @ \ {a}]
    /\ flushing' = [flushing EXCEPT ![t] = None]
    /\ locked' = [locked EXCEPT ![t] = None]
    /\ DropReferences
    /\ UNCHANGED blocks

------------------------------------------------------------------------------
(***************************************************************************)
(* ~ThreadRegistry, when a thread returns.                                 *)
(***************************************************************************)
Exit(t) ==
    /\ op[t] = "idle"
    /\ op' = [op EXCEPT ![t] = "exit"]
    /\ todo' = [todo EXCEPT ![t] = {a \in CachedAllocators : caches[t][a] # Absent}]
    /\ UNCHANGED <<wrapper, freed, blocks, caches, flushing, locked>>

\* The entries come in no particular order; an expired one is passed over.
ExitVisit(t) ==
    /\ op[t] = "exit" /\ flushing[t] = None
    /\ \E a \in todo[t] :
          IF expired(a)
          THEN /\ todo' = [todo EXCEPT ![t] = @ \ {a}]
               /\ UNCHANGED <<flushing, locked>>
          ELSE /\ flushing' = [flushing EXCEPT ![t] = a]
               /\ lock(t, a)
               /\ UNCHANGED todo
    /\ UNCHANGED <<wrapper, freed, blocks, caches, op>>

AllVisited(t) == op[t] = "exit" /\ flushing[t] = None /\ todo[t] = {}

ExitDone(t) ==
    /\ AllVisited(t)
    /\ op' = [op EXCEPT ![t] = "exited"]
    /\ caches' = [caches EXCEPT ![t] = [a \in CachedAllocators |-> Absent]]
    /\ UNCHANGED <<wrapper, blocks, flushing, locked, todo>>
    /\ DropReferences

Proceed(t) == FlushBlock(t) \/ FlushDone(t) \/ ExitVisit(t) \/ ExitDone(t)

RegistryNext ==
    \/ \E a \in CachedAllocators : ConstructAllocator(a)
    \/ \E t \in CacheThreads, a \in CachedAllocators :
          AllocateBlock(t, a) \/ ReturnBlock(t, a) \/ CallFails(t, a) \/ ReleaseCache(t, a) \/ DestroyAllocator(t, a)
    \/ \E t \in CacheThreads : Exit(t) \/ Proceed(t)

\* A flush or an exit that has begun goes on; no call is ever obliged to start.
RegistrySpec == RegistryInit /\ [][RegistryNext]_registryVars /\ \A t \in CacheThreads : WF_registryVars(Proceed(t))

------------------------------------------------------------------------------
(***************************************************************************)
(* Properties.                                                             *)
(***************************************************************************)
\* A thread that exits while another destroys the allocator never flushes into
\* a destroyed state: lock() keeps alive what it has found unexpired.
FlushesIntoLiveState == \A t \in CacheThreads : flushing[t] # None => flushing[t] \notin freed

\* The inductive invariant behind it: who flushes holds a reference, and what
\* is referenced is not destroyed.
LifetimeInvariant ==
    /\ freed \subseteq CachedAllocators
    /\ wrapper \in [CachedAllocators -> {"unborn", "alive", "destroying", "gone"}]
    /\ flushing \in [CacheThreads -> CachedAllocators \cup {None}] /\ locked \in [CacheThreads -> CachedAllocators \cup {None}]
    /\ todo \in [CacheThreads -> SUBSET CachedAllocators]
    /\ \A t \in CacheThreads : locked[t] = flushing[t]
    /\ \A a \in freed : wrapper[a] = "gone" /\ ~ Referenced(a)

Cached(t, a) == IF caches[t][a] = Absent THEN 0 ELSE caches[t][a]

\* As long as an allocator's state exists, every block taken from its central
\* storage is with a caller or in the bins of a thread that can still return
\* it: no exit, release or replaced entry drops blocks of any allocator.
NoBlockStranded == \A a \in CachedAllocators \ freed :
    /\ central[a] = inUse[a] + MapThenSumSet(LAMBDA t : Cached(t, a), CacheThreads)
    /\ \A t \in CacheThreads : op[t] = "exited" => Cached(t, a) = 0

\* The inductive invariant behind it: what an exiting thread has visited is
\* empty, so that no entry is erased with a block in it.
StorageInvariant ==
    /\ central \in [CachedAllocators -> Int] /\ inUse \in [CachedAllocators -> Int]
    /\ caches \in [CacheThreads -> [CachedAllocators -> Nat \cup {Absent}]]
    /\ op \in [CacheThreads -> {"idle", "release", "destroy", "exit", "exited"}]
    /\ NoBlockStranded
    /\ \A t \in CacheThreads : op[t] = "exit" =>
          \A a \in CachedAllocators \ freed : a \notin todo[t] => Cached(t, a) = 0

\* Entries that outlive their allocator do not keep its storage: once the
\* wrapper is gone the state is destroyed, whatever the threads do.
StateReclaimed == \A a \in CachedAllocators : wrapper[a] = "gone" ~> a \in freed
==============================================================================
