--------------------------- MODULE ChunkPoolProofs ---------------------------
(***************************************************************************)
(* An allocator that any number of threads share behind one mutex.  Then   *)
(* BasicChunkPool for any slabs, policies and growth: its invariant is     *)
(* inductive, and what follows from it.  Then the lifetimes of thread      *)
(* caches and of the allocators they belong to.                            *)
(***************************************************************************)
EXTENDS ChunkPool, Synchronized, Registry, ArithmeticLemmas, FiniteSetTheorems

------------------------------------------------------------------------------
(***************************************************************************)
(* BasicSynchronizedAllocator, for any number of threads, addresses, kinds *)
(* and calls: the mutex makes the calls atomic.                            *)
(***************************************************************************)
LEMMA SyncStarts == SyncInit => SyncInvariant
  BY SyncAssumption
     DEF SyncInit, SyncInvariant, SyncTypeOK, CallInvariant, Undecided, NoCall, Operations, Body

LEMMA LockKeeps ==
  ASSUME SyncInvariant, NEW t \in Threads, Lock(t)
  PROVE  SyncInvariant'
  <1> DEFINE first == FirstStep(task[t].op)
  <1>1. first \in Body /\ CallInvariant(first, task[t]) /\ first \notin {"mark", "free", "take", "fail", "tally", "copy_outcomes"}
    BY Zenon DEF Lock, SyncInvariant, SyncTypeOK, At, FirstStep, CallInvariant, Body, Operations
  <1> HIDE DEF first
  <1>2. pc' = [pc EXCEPT ![t] = first] /\ task' = task
    BY Zenon DEF Lock, Goto, first
  <1>3. SyncTypeOK'
    BY <1>1, <1>2, Zenon DEF Lock, SyncInvariant, SyncTypeOK, statistics, copied
  <1>4. \A u \in Threads : CallInvariant(pc[u], task[u])'
    BY <1>1, <1>2, Zenon DEF SyncInvariant, SyncTypeOK
  <1>5. QED
    BY <1>1, <1>2, <1>3, <1>4, SyncAssumption DEF Lock, SyncInvariant, SyncTypeOK, Undecided, At, Body, Releasable, statistics, copied

LEMMA UnlockKeeps ==
  ASSUME SyncInvariant, NEW t \in Threads, Unlock(t)
  PROVE  SyncInvariant'
  <1>1. SyncTypeOK'
    BY SyncAssumption, Zenon DEF Unlock, Goto, FirstStep, SyncInvariant, SyncTypeOK, CallInvariant, At, Body, statistics, copied, NoCall, Operations
  <1>2. QED
    BY <1>1, SyncAssumption
       DEF Unlock, Goto, FirstStep, SyncInvariant, SyncTypeOK, CallInvariant, Undecided, At, Body, Releasable, statistics, copied, NoCall

LEMMA CountRequestKeeps ==
  ASSUME SyncInvariant, NEW t \in Threads, CountRequest(t)
  PROVE  SyncInvariant'
  <1>1. SyncTypeOK'
    BY SyncAssumption DEF CountRequest, Goto, FirstStep, SyncInvariant, SyncTypeOK, CallInvariant, At, Body, statistics, copied, NoCall, Operations
  <1>2. QED
    BY <1>1, SyncAssumption
       DEF CountRequest, Goto, FirstStep, SyncInvariant, SyncTypeOK, CallInvariant, Undecided, At, Body, Releasable, statistics, copied, NoCall

LEMMA TakeBlockKeeps ==
  ASSUME SyncInvariant, NEW t \in Threads, TakeBlock(t)
  PROVE  SyncInvariant'
  <1>1. SyncTypeOK'
    BY SyncAssumption DEF TakeBlock, Goto, FirstStep, SyncInvariant, SyncTypeOK, CallInvariant, At, Body, statistics, copied, NoCall, Operations
  <1>2. QED
    BY <1>1, SyncAssumption
       DEF TakeBlock, Goto, FirstStep, SyncInvariant, SyncTypeOK, CallInvariant, Undecided, At, Body, Releasable, statistics, copied, NoCall

LEMMA TakeFailsKeeps ==
  ASSUME SyncInvariant, NEW t \in Threads, TakeFails(t)
  PROVE  SyncInvariant'
  <1>1. SyncTypeOK'
    BY SyncAssumption, Zenon DEF TakeFails, Goto, FirstStep, SyncInvariant, SyncTypeOK, CallInvariant, At, Body, statistics, copied, NoCall, Operations
  <1>2. QED
    BY <1>1, SyncAssumption
       DEF TakeFails, Goto, FirstStep, SyncInvariant, SyncTypeOK, CallInvariant, Undecided, At, Body, Releasable, statistics, copied, NoCall

LEMMA MarkBlockKeeps ==
  ASSUME SyncInvariant, NEW t \in Threads, MarkBlock(t)
  PROVE  SyncInvariant'
  <1>1. SyncTypeOK'
    BY SyncAssumption, Zenon DEF MarkBlock, Goto, FirstStep, SyncInvariant, SyncTypeOK, CallInvariant, At, Body, statistics, copied, NoCall, Operations
  <1>2. QED
    BY <1>1, SyncAssumption
       DEF MarkBlock, Goto, FirstStep, SyncInvariant, SyncTypeOK, CallInvariant, Undecided, At, Body, Releasable, statistics, copied, NoCall

LEMMA CountFailureKeeps ==
  ASSUME SyncInvariant, NEW t \in Threads, CountFailure(t)
  PROVE  SyncInvariant'
  <1>1. SyncTypeOK'
    BY SyncAssumption DEF CountFailure, Goto, FirstStep, SyncInvariant, SyncTypeOK, CallInvariant, At, Body, statistics, copied, NoCall, Operations
  <1>2. QED
    BY <1>1, SyncAssumption
       DEF CountFailure, Goto, FirstStep, SyncInvariant, SyncTypeOK, CallInvariant, Undecided, At, Body, Releasable, statistics, copied, NoCall

LEMMA CheckPointerKeeps ==
  ASSUME SyncInvariant, NEW t \in Threads, CheckPointer(t)
  PROVE  SyncInvariant'
  <1>1. SyncTypeOK'
    BY SyncAssumption, Zenon DEF CheckPointer, Goto, FirstStep, SyncInvariant, SyncTypeOK, CallInvariant, At, Body, statistics, copied, NoCall, Operations
  <1>2. QED
    BY <1>1, SyncAssumption
       DEF CheckPointer, Goto, FirstStep, SyncInvariant, SyncTypeOK, CallInvariant, Undecided, At, Body, Releasable, statistics, copied, NoCall

LEMMA FreeBlockKeeps ==
  ASSUME SyncInvariant, NEW t \in Threads, FreeBlock(t)
  PROVE  SyncInvariant'
  <1>1. SyncTypeOK'
    BY SyncAssumption, Zenon DEF FreeBlock, Goto, FirstStep, SyncInvariant, SyncTypeOK, CallInvariant, At, Body, statistics, copied, NoCall, Operations
  <1>2. QED
    BY <1>1, SyncAssumption
       DEF FreeBlock, Goto, FirstStep, SyncInvariant, SyncTypeOK, CallInvariant, Undecided, At, Body, Releasable, statistics, copied, NoCall

LEMMA TallyKeeps ==
  ASSUME SyncInvariant, NEW t \in Threads, Tally(t)
  PROVE  SyncInvariant'
  <1>1. SyncTypeOK'
    BY SyncAssumption DEF Tally, Goto, FirstStep, SyncInvariant, SyncTypeOK, CallInvariant, At, Body, statistics, copied, NoCall, Operations
  <1>2. QED
    BY <1>1, SyncAssumption
       DEF Tally, Goto, FirstStep, SyncInvariant, SyncTypeOK, CallInvariant, Undecided, At, Body, Releasable, statistics, copied, NoCall

LEMMA CopyRequestsKeeps ==
  ASSUME SyncInvariant, NEW t \in Threads, CopyRequests(t)
  PROVE  SyncInvariant'
  <1>1. SyncTypeOK'
    BY SyncAssumption, Zenon DEF CopyRequests, Goto, FirstStep, SyncInvariant, SyncTypeOK, CallInvariant, At, Body, statistics, copied, NoCall, Operations
  <1>2. QED
    BY <1>1, SyncAssumption
       DEF CopyRequests, Goto, FirstStep, SyncInvariant, SyncTypeOK, CallInvariant, Undecided, At, Body, Releasable, statistics, copied, NoCall

LEMMA CopyOutcomesKeeps ==
  ASSUME SyncInvariant, NEW t \in Threads, CopyOutcomes(t)
  PROVE  SyncInvariant'
  <1>1. SyncTypeOK'
    BY SyncAssumption DEF CopyOutcomes, Goto, FirstStep, SyncInvariant, SyncTypeOK, CallInvariant, At, Body, statistics, copied, NoCall, Operations
  <1>2. QED
    BY <1>1, SyncAssumption
       DEF CopyOutcomes, Goto, FirstStep, SyncInvariant, SyncTypeOK, CallInvariant, Undecided, At, Body, Releasable, statistics, copied, NoCall

LEMMA CallKeeps ==
  ASSUME SyncInvariant, NEW t \in Threads, NEW name \in {"allocate", "deallocate", "statistics"},
         NEW arg \in Kinds \cup {Unsized}, NEW ptr \in Addr \cup {NoAddr},
         name = "allocate" => arg \in Kinds, name = "deallocate" => ptr \in Addr,
         Call(t, name, arg, ptr)
  PROVE  SyncInvariant'
  <1>1. SyncTypeOK'
    BY SyncAssumption DEF Call, Goto, SyncInvariant, SyncTypeOK, CallInvariant, At, Body, statistics, copied, Operations
  <1>2. QED
    BY <1>1, SyncAssumption
       DEF Call, Goto, SyncInvariant, SyncTypeOK, CallInvariant, Undecided, At, Body, Releasable, statistics, copied

LEMMA SyncNextKeeps == SyncInvariant /\ [SyncNext]_syncVars => SyncInvariant'
  <1> SUFFICES ASSUME SyncInvariant, [SyncNext]_syncVars PROVE SyncInvariant'
    BY Zenon
  <1>1. CASE UNCHANGED syncVars
    BY <1>1, Zenon DEF syncVars, statistics, copied, SyncInvariant, SyncTypeOK, CallInvariant, Undecided, Releasable
  <1>2. ASSUME NEW t \in Threads, NEW k \in Kinds, Call(t, "allocate", k, NoAddr) PROVE SyncInvariant'
    BY <1>2, CallKeeps, Zenon
  <1>3. ASSUME NEW t \in Threads, NEW p \in Addr, NEW k \in Kinds \cup {Unsized}, Call(t, "deallocate", k, p)
        PROVE  SyncInvariant'
    BY <1>3, CallKeeps, Zenon
  <1>4. ASSUME NEW t \in Threads, Call(t, "statistics", Unsized, NoAddr) PROVE SyncInvariant'
    BY <1>4, CallKeeps, Zenon
  <1>5. ASSUME NEW t \in Threads, Step(t) PROVE SyncInvariant'
    BY <1>5, LockKeeps, UnlockKeeps, CountRequestKeeps, TakeBlockKeeps, TakeFailsKeeps, MarkBlockKeeps, CountFailureKeeps,
       CheckPointerKeeps, FreeBlockKeeps, TallyKeeps, CopyRequestsKeeps, CopyOutcomesKeeps, Zenon DEF Step
  <1>6. QED
    BY <1>1, <1>2, <1>3, <1>4, <1>5, Zenon DEF SyncNext

\* Exactly the holder of the mutex is inside the allocator, and what it has
\* found there stays true until it acts on it, for any number of threads.
THEOREM SyncInvariantHolds == SyncSpec => []SyncInvariant
  BY SyncStarts, SyncNextKeeps, PTL DEF SyncSpec

\* Every statistics() a caller gets is of one moment between two calls.
THEOREM SnapshotConsistentHolds == SyncSpec => []SnapshotConsistent
  <1>1. SyncInvariant => SnapshotConsistent
    BY Zenon DEF SyncInvariant, SnapshotConsistent, At
  <1>2. QED
    BY <1>1, SyncInvariantHolds, PTL

------------------------------------------------------------------------------
(***************************************************************************)
(* Refinement.  The abstract pending calls change with a call's first      *)
(* step and with the step in which it takes effect, and no other.          *)
(***************************************************************************)
LEMMA PendingStays ==
  ASSUME SyncInvariant, NEW t \in Threads, NEW label, pc' = [pc EXCEPT ![t] = label], UNCHANGED <<task, allocated>>,
         Pending(label, task[t]) <=> Pending(pc[t], task[t])
  PROVE  UNCHANGED Abstract!vars
  <1>1. \A u \in Threads : Pending(pc[u], task[u])' <=> Pending(pc[u], task[u])
    BY Zenon DEF SyncInvariant, SyncTypeOK
  <1>2. PendingCalls' = PendingCalls
    BY <1>1, Zenon DEF PendingCalls
  <1>3. QED
    BY <1>2, Zenon DEF Abstract!vars

LEMMA PendingEnds ==
  ASSUME SyncInvariant, NEW t \in Threads, NEW label, pc' = [pc EXCEPT ![t] = label], UNCHANGED task,
         ~ Pending(label, task[t]), Pending(pc[t], task[t])
  PROVE  PendingCalls[t] = task[t] /\ Abstract!End(t)
  <1>1. \A u \in Threads \ {t} : Pending(pc[u], task[u])' <=> Pending(pc[u], task[u])
    BY Zenon DEF SyncInvariant, SyncTypeOK
  <1>2. ~ Pending(pc[t], task[t])'
    BY Zenon DEF SyncInvariant, SyncTypeOK
  <1>3. PendingCalls' = [PendingCalls EXCEPT ![t] = NoCall]
    BY <1>1, <1>2, Zenon DEF PendingCalls
  <1>4. QED
    BY <1>3, Zenon DEF PendingCalls, Abstract!End, Abstract!NoCall, NoCall

LEMMA CallImplements ==
  ASSUME SyncInvariant, NEW t \in Threads, NEW name \in {"allocate", "deallocate", "statistics"}, NEW arg, NEW ptr,
         NEW calls_begun, Call(t, name, arg, ptr), [op |-> name, arg |-> arg, ptr |-> ptr] \in calls_begun
  PROVE  IF name = "statistics" THEN UNCHANGED Abstract!vars ELSE Abstract!Begin(t, calls_begun)
  <1> DEFINE c == [op |-> name, arg |-> arg, ptr |-> ptr]
  <1>1. c.op = name
    BY Zenon
  <1> HIDE DEF c
  <1>2. task' = [task EXCEPT ![t] = c] /\ pc' = [pc EXCEPT ![t] = "lock"] /\ pc[t] = "idle" /\ allocated' = allocated
    BY Zenon DEF Call, Goto, At, c
  <1>3. \A u \in Threads \ {t} : task'[u] = task[u] /\ pc'[u] = pc[u]
    BY <1>2, Zenon DEF SyncInvariant, SyncTypeOK
  <1>4. task'[t] = c /\ pc'[t] = "lock"
    BY <1>2, Zenon DEF SyncInvariant, SyncTypeOK
  <1>5. PendingCalls[t] = NoCall
    BY <1>2, Zenon DEF PendingCalls, Pending
  <1>6. CASE name = "statistics"
    <2>1. PendingCalls' = PendingCalls
      BY <1>1, <1>2, <1>3, <1>4, <1>6 DEF PendingCalls, Pending
    <2>2. QED
      BY <1>2, <1>6, <2>1, Zenon DEF Abstract!vars
  <1>7. CASE name # "statistics"
    <2>1. PendingCalls' = [PendingCalls EXCEPT ![t] = c]
      BY <1>1, <1>3, <1>4, <1>7, Zenon DEF PendingCalls, Pending
    <2>2. PendingCalls'[t] = c /\ c \in calls_begun
      BY <2>1, Zenon DEF PendingCalls, c
    <2>3. QED
      BY <1>2, <1>5, <1>7, <2>1, <2>2, Zenon DEF Abstract!Begin, Abstract!NoCall, NoCall
  <1>8. QED
    BY <1>6, <1>7, Zenon

LEMMA QuietStepsStutter ==
  ASSUME SyncInvariant, NEW t \in Threads,
         Lock(t) \/ CountRequest(t) \/ TakeBlock(t) \/ TakeFails(t) \/ Tally(t) \/ CopyRequests(t) \/ CopyOutcomes(t)
  PROVE  UNCHANGED Abstract!vars
  <1>1. CASE Lock(t)
    BY <1>1, PendingStays, Zenon DEF Lock, Goto, At, FirstStep, Pending, SyncInvariant, SyncTypeOK, CallInvariant, Operations
  <1>2. CASE CountRequest(t)
    BY <1>2, PendingStays, Zenon DEF CountRequest, Goto, At, Pending
  <1>3. CASE TakeBlock(t)
    BY <1>3, PendingStays, Zenon DEF TakeBlock, Goto, At, Pending
  <1>4. CASE TakeFails(t)
    BY <1>4, PendingStays, Zenon DEF TakeFails, Goto, At, Pending
  <1>5. CASE Tally(t)
    BY <1>5, PendingStays, Zenon DEF Tally, Goto, At, Pending
  <1>6. CASE CopyRequests(t)
    BY <1>6, PendingStays, Zenon DEF CopyRequests, Goto, At, Pending
  <1>7. CASE CopyOutcomes(t)
    BY <1>7, PendingStays, Zenon DEF CopyOutcomes, Goto, At, Pending
  <1>8. QED
    BY <1>1, <1>2, <1>3, <1>4, <1>5, <1>6, <1>7, Zenon

LEMMA UnlockStutters ==
  ASSUME SyncInvariant, NEW t \in Threads, Unlock(t)
  PROVE  UNCHANGED Abstract!vars
  <1>1. \A u \in Threads \ {t} : pc'[u] = pc[u] /\ task'[u] = task[u]
    BY Zenon DEF Unlock, Goto, SyncInvariant, SyncTypeOK
  <1>2. ~ Pending(pc[t], task[t]) /\ ~ Pending(pc[t], task[t])'
    BY Zenon DEF Unlock, Goto, At, Pending, SyncInvariant, SyncTypeOK
  <1>3. PendingCalls' = PendingCalls
    BY <1>1, <1>2, Zenon DEF PendingCalls, Pending
  <1>4. QED
    BY <1>3, Zenon DEF Unlock, Abstract!vars

LEMMA MarkBlockImplements ==
  ASSUME SyncInvariant, NEW t \in Threads, MarkBlock(t)
  PROVE  Abstract!Allocate(t)
  <1>1. task[t].op = "allocate" /\ block[t] \in Addr /\ allocated[block[t]] = Free
    BY Zenon DEF MarkBlock, At, SyncInvariant, CallInvariant
  <1>2. PendingCalls[t] = task[t] /\ Abstract!End(t)
    BY <1>1, PendingEnds, Zenon DEF MarkBlock, Goto, At, Pending
  <1>3. QED
    BY <1>1, <1>2, Zenon DEF MarkBlock, Abstract!Allocate

LEMMA CountFailureImplements ==
  ASSUME SyncInvariant, NEW t \in Threads, CountFailure(t)
  PROVE  Abstract!AllocateFails(t)
  <1>1. task[t].op = "allocate"
    BY Zenon DEF CountFailure, At, SyncInvariant, CallInvariant
  <1>2. PendingCalls[t] = task[t] /\ Abstract!End(t)
    BY <1>1, PendingEnds, Zenon DEF CountFailure, Goto, At, Pending
  <1>3. QED
    BY <1>1, <1>2, Zenon DEF CountFailure, Abstract!AllocateFails

LEMMA CheckPointerImplements ==
  ASSUME SyncInvariant, NEW t \in Threads, CheckPointer(t)
  PROVE  Abstract!DeallocateRefused(t) \/ UNCHANGED Abstract!vars
  <1>1. task[t].op = "deallocate"
    BY Zenon DEF CheckPointer, At, SyncInvariant, CallInvariant
  <1>2. CASE Releasable(task[t])
    BY <1>1, <1>2, PendingStays, Zenon DEF CheckPointer, Goto, At, Pending
  <1>3. CASE ~ Releasable(task[t])
    <2>1. PendingCalls[t] = task[t] /\ Abstract!End(t)
      BY <1>1, <1>3, PendingEnds, Zenon DEF CheckPointer, Goto, At, Pending
    <2>2. QED
      BY <1>1, <1>3, <2>1, Zenon DEF CheckPointer, Abstract!DeallocateRefused, Abstract!Releasable, Releasable
  <1>4. QED
    BY <1>2, <1>3, Zenon

LEMMA FreeBlockImplements ==
  ASSUME SyncInvariant, NEW t \in Threads, FreeBlock(t)
  PROVE  Abstract!Deallocate(t)
  <1>1. task[t].op = "deallocate" /\ Releasable(task[t])
    BY Zenon DEF FreeBlock, At, SyncInvariant, CallInvariant
  <1>2. PendingCalls[t] = task[t] /\ Abstract!End(t)
    BY <1>1, PendingEnds, Zenon DEF FreeBlock, Goto, At, Pending
  <1>3. QED
    BY <1>1, <1>2, Zenon DEF FreeBlock, Abstract!Deallocate, Abstract!Releasable, Releasable

LEMMA SyncNextImplements == SyncInvariant /\ [SyncNext]_syncVars => [Abstract!Next]_(Abstract!vars)
  <1> SUFFICES ASSUME SyncInvariant, [SyncNext]_syncVars PROVE Abstract!Next \/ UNCHANGED Abstract!vars
    BY Zenon
  <1>1. CASE UNCHANGED syncVars
    BY <1>1, Zenon DEF syncVars, Abstract!vars, PendingCalls, Pending
  <1>2. ASSUME NEW t \in Threads, NEW k \in Kinds, Call(t, "allocate", k, NoAddr) PROVE Abstract!Next
    <2>1. Abstract!Begin(t, [op : {"allocate"}, arg : Kinds, ptr : {NoAddr}])
      BY <1>2, CallImplements, Zenon
    <2>2. QED
      BY <2>1, Zenon DEF Abstract!Next, Abstract!BeginAllocate
  <1>3. ASSUME NEW t \in Threads, NEW p \in Addr, NEW k \in Kinds \cup {Unsized}, Call(t, "deallocate", k, p)
        PROVE  Abstract!Next
    <2>1. Abstract!Begin(t, [op : {"deallocate"}, arg : Kinds \cup {Unsized}, ptr : Addr])
      BY <1>3, CallImplements, Zenon
    <2>2. QED
      BY <2>1, Zenon DEF Abstract!Next, Abstract!BeginDeallocate
  <1>4. ASSUME NEW t \in Threads, Call(t, "statistics", Unsized, NoAddr) PROVE UNCHANGED Abstract!vars
    <2>1. [op |-> "statistics", arg |-> Unsized, ptr |-> NoAddr] \in {[op |-> "statistics", arg |-> Unsized, ptr |-> NoAddr]}
      BY Zenon
    <2>2. QED
      BY <1>4, <2>1, CallImplements, Zenon
  <1>5. ASSUME NEW t \in Threads, Step(t) PROVE Abstract!Next \/ UNCHANGED Abstract!vars
    BY <1>5, QuietStepsStutter, UnlockStutters, MarkBlockImplements, CountFailureImplements, CheckPointerImplements,
       FreeBlockImplements, Zenon DEF Step, Abstract!Next
  <1>6. QED
    BY <1>1, <1>2, <1>3, <1>4, <1>5, Zenon DEF SyncNext

\* For any number of threads, the synchronized allocator implements the atomic
\* allocator: each call takes effect at one moment between call and return.
THEOREM SynchronizedImplementsAllocator == SyncSpec => ImplementsAllocator
  <1>1. SyncInit => Abstract!Init
    BY Zenon DEF SyncInit, Abstract!Init, PendingCalls, Pending, NoCall, Abstract!NoCall
  <1>2. QED
    BY <1>1, SyncNextImplements, SyncInvariantHolds, PTL DEF SyncSpec, ImplementsAllocator, Abstract!Spec

------------------------------------------------------------------------------
Chunk == [slab : Slabs, count : Nat, free : Seq(Nat), live : SUBSET Nat]

------------------------------------------------------------------------------
(* One chunk.                                                              *)

LEMMA ChunkFields ==
  ASSUME NEW c \in Chunk
  PROVE  /\ c.slab \in Slabs /\ c.count \in Nat /\ c.free \in Seq(Nat) /\ c.live \in SUBSET Nat
         /\ Len(c.free) \in Nat /\ DOMAIN c.free = 1 .. Len(c.free)
  BY DEF Chunk

LEMMA LiveFinite ==
  ASSUME NEW c \in Chunk, ChunkOK(c)
  PROVE  IsFiniteSet(c.live) /\ Cardinality(c.live) \in Nat
<1>1. c.live \subseteq 0 .. c.count - 1 /\ c.count \in Nat
  BY ChunkFields, Zenon DEF ChunkOK
<1>2. IsFiniteSet(0 .. c.count - 1)
  BY <1>1, FS_Interval
<1>3. IsFiniteSet(c.live)
  BY <1>1, <1>2, FS_Subset, Zenon
<1> QED BY <1>3, FS_CardinalityType, Zenon

\* is_empty: all the blocks of a chunk are on its free list.
LEMMA EmptyIff ==
  ASSUME NEW c \in Chunk, ChunkOK(c)
  PROVE  IsEmpty(c) <=> c.live = {}
<1>1. Len(c.free) \in Nat /\ c.count \in Nat /\ Cardinality(c.live) \in Nat
  BY ChunkFields, LiveFinite, Zenon
<1>2. IsEmpty(c) <=> Cardinality(c.live) = 0
  BY <1>1 DEF IsEmpty, ChunkOK
<1> QED BY <1>2, LiveFinite, FS_EmptySet, Zenon

LEMMA NewChunkOK ==
  ASSUME NEW s \in Slabs, NEW n \in 1 .. MaxBlocks
  PROVE  /\ NewChunk(s, n) \in Chunk /\ ChunkOK(NewChunk(s, n))
         /\ NewChunk(s, n).slab = s /\ NewChunk(s, n).live = {}
         /\ NewChunk(s, n).free # <<>> /\ Head(NewChunk(s, n).free) = 0
<1>0. n \in Nat /\ n >= 1
  OBVIOUS
<1> DEFINE f == [i \in 1 .. n |-> i - 1]
<1>1. f \in Seq(Nat) /\ Len(f) = n /\ DOMAIN f = 1 .. n /\ \A i \in 1 .. n : f[i] = i - 1
  BY <1>0
<1>2. f # <<>> /\ Head(f) = 0
  BY <1>0, <1>1
<1>3. Range(f) = 0 .. n - 1
  <2>1. ASSUME NEW x \in 0 .. n - 1 PROVE x \in Range(f)
    <3>1. x + 1 \in 1 .. n /\ f[x + 1] = x
      BY <1>0, <1>1
    <3> QED BY <1>1, <3>1, Zenon DEF Range
  <2>2. Range(f) \subseteq 0 .. n - 1
    BY <1>0, <1>1 DEF Range
  <2> QED BY <2>1, <2>2, Zenon
<1>4. /\ NewChunk(s, n).slab = s /\ NewChunk(s, n).live = {}
      /\ NewChunk(s, n).free = f /\ NewChunk(s, n).count = n
  BY Zenon DEF NewChunk
<1>5. NewChunk(s, n) \in Chunk
  BY <1>0, <1>1, Zenon DEF NewChunk, Chunk
<1> HIDE DEF f
<1>6. \A j, k \in DOMAIN f : f[j] = f[k] => j = k
  BY <1>0, <1>1
<1>7. Cardinality({}) = 0
  BY FS_EmptySet, Zenon
<1> QED BY <1>0, <1>1, <1>2, <1>3, <1>4, <1>5, <1>6, <1>7 DEF ChunkOK

\* Each block is once on a free list.
Injective(s) == \A j, k \in DOMAIN s : s[j] = s[k] => j = k

LEMMA TailFacts ==
  ASSUME NEW s \in Seq(Nat), s # <<>>, Injective(s)
  PROVE  /\ Tail(s) \in Seq(Nat) /\ Len(Tail(s)) = Len(s) - 1
         /\ Head(s) \in Range(s) /\ Range(Tail(s)) = Range(s) \ {Head(s)}
         /\ Injective(Tail(s))
<1>1. PICK n : n \in Nat /\ n = Len(s) /\ DOMAIN s = 1 .. n /\ n >= 1
  OBVIOUS
<1>2. PICK t : t = Tail(s)
  BY Zenon
<1>3. t \in Seq(Nat) /\ Len(t) = n - 1 /\ DOMAIN t = 1 .. n - 1 /\ \A i \in 1 .. n - 1 : t[i] = s[i + 1]
  BY <1>1, <1>2
<1>4. PICK h : h = Head(s)
  BY Zenon
<1>5. h = s[1] /\ 1 \in 1 .. n
  BY <1>1, <1>4
<1>6. ASSUME NEW i \in 1 .. n - 1
      PROVE  i \in Int /\ i + 1 \in 1 .. n /\ t[i] = s[i + 1] /\ t[i] # h
  <2>1. i \in Int /\ i + 1 \in 1 .. n /\ i + 1 # 1 /\ t[i] = s[i + 1]
    BY <1>1, <1>3
  <2>2. s[i + 1] # s[1]
    BY <1>1, <1>5, <2>1, Zenon DEF Injective
  <2> QED BY <1>5, <2>1, <2>2, Zenon
<1>7. ASSUME NEW i \in 1 .. n, s[i] # h
      PROVE  i - 1 \in 1 .. n - 1 /\ t[i - 1] = s[i]
  BY <1>1, <1>3, <1>5, <1>7
<1>8. Range(t) = Range(s) \ {h} /\ h \in Range(s)
  <2>1. Range(t) = {t[i] : i \in 1 .. n - 1} /\ Range(s) = {s[i] : i \in 1 .. n}
    BY <1>1, <1>3, Zenon DEF Range
  <2>2. ASSUME NEW x \in Range(t) PROVE x \in Range(s) \ {h}
    BY <1>6, <2>1, Zenon
  <2>3. ASSUME NEW x \in Range(s) \ {h} PROVE x \in Range(t)
    BY <1>7, <2>1, Zenon
  <2> QED BY <1>5, <2>1, <2>2, <2>3, Zenon
<1>9. Injective(t)
  <2> SUFFICES ASSUME NEW j \in 1 .. n - 1, NEW k \in 1 .. n - 1, t[j] = t[k] PROVE j = k
    BY <1>3, Zenon DEF Injective
  <2>1. j \in Int /\ k \in Int /\ j + 1 \in DOMAIN s /\ k + 1 \in DOMAIN s /\ s[j + 1] = s[k + 1]
    BY <1>1, <1>6, Zenon
  <2>2. j + 1 = k + 1
    BY <2>1, Zenon DEF Injective
  <2> QED BY <2>1, <2>2
<1> QED BY <1>1, <1>2, <1>3, <1>4, <1>8, <1>9, Zenon

LEMMA ConsFacts ==
  ASSUME NEW s \in Seq(Nat), NEW b \in Nat, b \notin Range(s), Injective(s)
  PROVE  /\ <<b>> \o s \in Seq(Nat) /\ Len(<<b>> \o s) = Len(s) + 1
         /\ Range(<<b>> \o s) = Range(s) \cup {b}
         /\ Injective(<<b>> \o s)
<1>1. PICK n : n \in Nat /\ n = Len(s) /\ DOMAIN s = 1 .. n
  OBVIOUS
<1>2. PICK t : t = <<b>> \o s
  BY Zenon
<1>3. /\ t \in Seq(Nat) /\ Len(t) = n + 1 /\ DOMAIN t = 1 .. n + 1 /\ t[1] = b
      /\ \A i \in 2 .. n + 1 : t[i] = s[i - 1]
  BY <1>1, <1>2
<1>4. ASSUME NEW i \in 2 .. n + 1
      PROVE  i \in Int /\ i - 1 \in 1 .. n /\ t[i] = s[i - 1] /\ t[i] # b
  <2>1. i \in Int /\ i - 1 \in 1 .. n /\ t[i] = s[i - 1]
    BY <1>1, <1>3
  <2> QED BY <1>1, <2>1, Zenon DEF Range
<1>5. ASSUME NEW i \in 1 .. n
      PROVE  i + 1 \in 2 .. n + 1 /\ t[i + 1] = s[i]
  BY <1>1, <1>3
<1>6. \A i \in 1 .. n + 1 : i = 1 \/ i \in 2 .. n + 1
  BY <1>1
<1>7. 1 \in 1 .. n + 1 /\ 2 .. n + 1 \subseteq 1 .. n + 1
  BY <1>1
<1>8. Range(t) = Range(s) \cup {b}
  <2>1. Range(t) = {t[i] : i \in 1 .. n + 1} /\ Range(s) = {s[i] : i \in 1 .. n}
    BY <1>1, <1>3, Zenon DEF Range
  <2>2. ASSUME NEW x \in Range(t) PROVE x \in Range(s) \cup {b}
    <3>1. PICK i \in 1 .. n + 1 : x = t[i]
      BY <2>1, Zenon
    <3>2. CASE i \in 2 .. n + 1
      BY <1>4, <2>1, <3>1, <3>2, Zenon
    <3> QED BY <1>3, <1>6, <3>1, <3>2, Zenon
  <2>3. ASSUME NEW x \in Range(s) \cup {b} PROVE x \in Range(t)
    <3>1. CASE x \in Range(s)
      <4>1. PICK i \in 1 .. n : x = s[i]
        BY <2>1, <3>1, Zenon
      <4>2. i + 1 \in 1 .. n + 1 /\ t[i + 1] = x
        BY <1>5, <1>7, <4>1, Zenon
      <4> QED BY <2>1, <4>2, Zenon
    <3>2. CASE x = b
      BY <1>3, <1>7, <2>1, <3>2, Zenon
    <3> QED BY <3>1, <3>2, Zenon
  <2> QED BY <2>2, <2>3, Zenon
<1>9. Injective(t)
  <2> SUFFICES ASSUME NEW j \in 1 .. n + 1, NEW k \in 1 .. n + 1, t[j] = t[k] PROVE j = k
    BY <1>3, Zenon DEF Injective
  <2>1. CASE j = 1 \/ k = 1
    BY <1>3, <1>4, <1>6, <2>1, Zenon
  <2>2. CASE j \in 2 .. n + 1 /\ k \in 2 .. n + 1
    <3>1. j \in Int /\ k \in Int /\ j - 1 \in DOMAIN s /\ k - 1 \in DOMAIN s /\ s[j - 1] = s[k - 1]
      BY <1>1, <1>4, <2>2, Zenon
    <3>2. j - 1 = k - 1
      BY <3>1, Zenon DEF Injective
    <3> QED BY <3>1, <3>2
  <2> QED BY <1>6, <2>1, <2>2, Zenon
<1> QED BY <1>1, <1>2, <1>3, <1>8, <1>9, Zenon

LEMMA PopOK ==
  ASSUME NEW c \in Chunk, ChunkOK(c), c.free # <<>>
  PROVE  /\ Pop(c) \in Chunk /\ ChunkOK(Pop(c))
         /\ Pop(c).slab = c.slab /\ Pop(c).live = c.live \cup {Head(c.free)}
         /\ Head(c.free) \in 0 .. c.count - 1 /\ Head(c.free) \notin c.live
<1>1. PICK s, n, L : s = c.free /\ n = c.count /\ L = c.live
  BY Zenon
<1>2. s \in Seq(Nat) /\ s # <<>> /\ n \in 1 .. MaxBlocks /\ L \in SUBSET Nat /\ Len(s) \in Nat
  BY <1>1, ChunkFields, Zenon DEF ChunkOK
<1>3. /\ Range(s) \cup L = 0 .. n - 1 /\ Range(s) \cap L = {} /\ Injective(s)
      /\ Len(s) + Cardinality(L) = n
  BY <1>1, Zenon DEF ChunkOK, Injective
<1>4. IsFiniteSet(L) /\ Cardinality(L) \in Nat
  BY <1>1, LiveFinite, Zenon
<1>5. PICK h, t : h = Head(s) /\ t = Tail(s)
  BY Zenon
<1>6. t \in Seq(Nat) /\ Len(t) = Len(s) - 1 /\ h \in Range(s) /\ Range(t) = Range(s) \ {h} /\ Injective(t)
  BY <1>2, <1>3, <1>5, TailFacts, Zenon
<1>7. h \in 0 .. n - 1 /\ h \notin L /\ h \in Nat
  BY <1>2, <1>3, <1>6
<1>8. Cardinality(L \cup {h}) = Cardinality(L) + 1
  BY <1>4, <1>7, FS_AddElement, Zenon
<1>9. /\ Pop(c).slab = c.slab /\ Pop(c).count = n /\ Pop(c).free = t /\ Pop(c).live = L \cup {h}
      /\ Pop(c) \in Chunk
  BY <1>1, <1>2, <1>5, <1>6, <1>7, Zenon DEF Pop, Chunk
<1>10. Range(t) \cup (L \cup {h}) = 0 .. n - 1 /\ Range(t) \cap (L \cup {h}) = {}
  BY <1>3, <1>6, <1>7, Zenon
<1>11. Len(t) + Cardinality(L \cup {h}) = n
  BY <1>2, <1>3, <1>4, <1>6, <1>8
<1>12. ChunkOK(Pop(c))
  BY <1>2, <1>6, <1>9, <1>10, <1>11, Zenon DEF ChunkOK, Injective
<1> QED BY <1>1, <1>5, <1>7, <1>9, <1>12, Zenon

LEMMA PushOK ==
  ASSUME NEW c \in Chunk, ChunkOK(c), NEW b \in c.live
  PROVE  /\ Push(c, b) \in Chunk /\ ChunkOK(Push(c, b))
         /\ Push(c, b).slab = c.slab /\ Push(c, b).live = c.live \ {b}
<1>1. PICK s, n, L : s = c.free /\ n = c.count /\ L = c.live
  BY Zenon
<1>2. s \in Seq(Nat) /\ n \in 1 .. MaxBlocks /\ L \in SUBSET Nat /\ Len(s) \in Nat /\ b \in L
  BY <1>1, ChunkFields, Zenon DEF ChunkOK
<1>3. /\ Range(s) \cup L = 0 .. n - 1 /\ Range(s) \cap L = {} /\ Injective(s)
      /\ Len(s) + Cardinality(L) = n
  BY <1>1, Zenon DEF ChunkOK, Injective
<1>4. IsFiniteSet(L) /\ Cardinality(L) \in Nat
  BY <1>1, LiveFinite, Zenon
<1>5. PICK t : t = <<b>> \o s
  BY Zenon
<1>6. b \in Nat /\ b \notin Range(s)
  BY <1>2, <1>3, Zenon
<1>7. t \in Seq(Nat) /\ Len(t) = Len(s) + 1 /\ Range(t) = Range(s) \cup {b} /\ Injective(t)
  BY <1>2, <1>3, <1>5, <1>6, ConsFacts, Zenon
<1>8. Cardinality(L \ {b}) = Cardinality(L) - 1
  BY <1>2, <1>4, FS_RemoveElement, Zenon
<1>9. /\ Push(c, b).slab = c.slab /\ Push(c, b).count = n /\ Push(c, b).free = t /\ Push(c, b).live = L \ {b}
      /\ Push(c, b) \in Chunk
  BY <1>1, <1>2, <1>5, <1>7, Zenon DEF Push, Chunk
<1>10. Range(t) \cup (L \ {b}) = 0 .. n - 1 /\ Range(t) \cap (L \ {b}) = {}
  BY <1>2, <1>3, <1>7, Zenon
<1>11. Len(t) + Cardinality(L \ {b}) = n
  BY <1>2, <1>3, <1>4, <1>7, <1>8
<1>12. ChunkOK(Push(c, b))
  BY <1>2, <1>7, <1>9, <1>10, <1>11, Zenon DEF ChunkOK, Injective
<1> QED BY <1>1, <1>9, <1>12, Zenon

------------------------------------------------------------------------------
(* The sequence of chunks.                                                 *)

Sound(t) ==
    /\ t \in Seq(Chunk)
    /\ \A i \in DOMAIN t : ChunkOK(t[i])
    /\ \A i, j \in DOMAIN t : t[i].slab = t[j].slab => i = j

Backing(t) == {t[i].slab : i \in DOMAIN t}
Blocks(chunk) == {Block(chunk.slab, b) : b \in chunk.live}
Live(t) == UNION {Blocks(t[i]) : i \in DOMAIN t}
Empty(t) == {i \in DOMAIN t : IsEmpty(t[i])}
With(t, i, chunk) == [t EXCEPT ![i] = chunk]

\* The chunk a block of the pool is in.
LEMMA LiveFacts ==
  ASSUME NEW t, NEW p
  PROVE  p \in Live(t) <=> \E i \in DOMAIN t : p \in Blocks(t[i])
  BY Zenon DEF Live

LEMMA BlockFacts ==
  ASSUME NEW c, NEW p \in Blocks(c)
  PROVE  p.slab = c.slab
  BY DEF Blocks, Block

LEMMA SoundFacts ==
  ASSUME NEW t, Sound(t)
  PROVE  /\ Len(t) \in Nat /\ DOMAIN t = 1 .. Len(t)
         /\ \A i \in DOMAIN t : i \in Int /\ t[i] \in Chunk /\ ChunkOK(t[i])
         /\ IsFiniteSet(DOMAIN t) /\ Cardinality(DOMAIN t) = Len(t)
<1>1. Len(t) \in Nat /\ DOMAIN t = 1 .. Len(t) /\ \A i \in DOMAIN t : i \in Int /\ t[i] \in Chunk
  BY DEF Sound
<1>2. IsFiniteSet(1 .. Len(t)) /\ Cardinality(1 .. Len(t)) = Len(t)
  BY <1>1, FS_Interval
<1> QED BY <1>1, <1>2, Zenon DEF Sound

LEMMA ReplaceChunk ==
  ASSUME NEW t, Sound(t), NEW i \in DOMAIN t, NEW c \in Chunk, ChunkOK(c), c.slab = t[i].slab
  PROVE  /\ Sound(With(t, i, c)) /\ DOMAIN With(t, i, c) = DOMAIN t
         /\ \A j \in DOMAIN t : With(t, i, c)[j] = IF j = i THEN c ELSE t[j]
         /\ Backing(With(t, i, c)) = Backing(t)
         /\ Live(With(t, i, c)) = (Live(t) \ Blocks(t[i])) \cup Blocks(c)
<1>1. PICK u : u = With(t, i, c)
  BY Zenon
<1>2. u \in Seq(Chunk) /\ DOMAIN u = DOMAIN t /\ \A j \in DOMAIN t : u[j] = IF j = i THEN c ELSE t[j]
  BY <1>1 DEF Sound, With
<1>3. \A j \in DOMAIN t : u[j].slab = t[j].slab
  BY <1>2, Zenon
<1>4. Sound(u)
  BY <1>2, <1>3, Zenon DEF Sound
<1>5. Backing(u) = Backing(t)
  BY <1>2, <1>3, Zenon DEF Backing
<1>6. ASSUME NEW p PROVE p \in Live(u) <=> p \in (Live(t) \ Blocks(t[i])) \cup Blocks(c)
  <2>1. \A j \in DOMAIN t : p \in Blocks(t[j]) /\ p \in Blocks(t[i]) => j = i
    BY BlockFacts DEF Sound
  <2>2. p \in Live(u) <=> \E j \in DOMAIN t : p \in Blocks(u[j])
    BY <1>2, LiveFacts, Zenon
  <2>3. p \in Live(t) <=> \E j \in DOMAIN t : p \in Blocks(t[j])
    BY LiveFacts, Zenon
  <2> QED BY <1>2, <2>1, <2>2, <2>3, Zenon
<1> QED BY <1>1, <1>2, <1>4, <1>5, <1>6, Zenon

LEMMA AppendChunk ==
  ASSUME NEW t, Sound(t), NEW c \in Chunk, ChunkOK(c), c.slab \notin Backing(t)
  PROVE  /\ Sound(Append(t, c)) /\ DOMAIN Append(t, c) = DOMAIN t \cup {Len(t) + 1}
         /\ Len(t) + 1 \notin DOMAIN t /\ Append(t, c) # <<>>
         /\ Append(t, c)[Len(t) + 1] = c /\ \A j \in DOMAIN t : Append(t, c)[j] = t[j]
         /\ Backing(Append(t, c)) = Backing(t) \cup {c.slab}
         /\ Live(Append(t, c)) = Live(t) \cup Blocks(c)
<1>1. PICK u, n : u = Append(t, c) /\ n = Len(t) + 1
  BY Zenon
<1>2. /\ u \in Seq(Chunk) /\ DOMAIN u = DOMAIN t \cup {n} /\ n \notin DOMAIN t /\ u # <<>>
      /\ u[n] = c /\ \A j \in DOMAIN t : u[j] = t[j]
  BY <1>1 DEF Sound
<1>3. \A j \in DOMAIN t : u[j].slab # c.slab
  BY <1>2, Zenon DEF Backing
<1>4. Sound(u)
  <2>1. \A j \in DOMAIN u : ChunkOK(u[j])
    BY <1>2, Zenon DEF Sound
  <2>2. \A j, k \in DOMAIN u : u[j].slab = u[k].slab => j = k
    BY <1>2, <1>3, Zenon DEF Sound
  <2> QED BY <1>2, <2>1, <2>2, Zenon DEF Sound
<1>5. Backing(u) = Backing(t) \cup {c.slab}
  BY <1>2 DEF Backing
<1>6. ASSUME NEW p PROVE p \in Live(u) <=> p \in Live(t) \cup Blocks(c)
  <2>1. p \in Live(u) <=> \E j \in DOMAIN u : p \in Blocks(u[j])
    BY LiveFacts, Zenon
  <2>2. p \in Live(t) <=> \E j \in DOMAIN t : p \in Blocks(t[j])
    BY LiveFacts, Zenon
  <2> QED BY <1>2, <2>1, <2>2, Zenon
<1> QED BY <1>1, <1>2, <1>4, <1>5, <1>6, Zenon

\* RemoveAt skips a place.
Skip(i, j) == IF j < i THEN j ELSE j + 1

LEMMA RemoveFacts ==
  ASSUME NEW t \in Seq(Chunk), NEW i \in DOMAIN t
  PROVE  /\ RemoveAt(t, i) \in Seq(Chunk) /\ DOMAIN RemoveAt(t, i) = 1 .. Len(t) - 1
         /\ \A j \in 1 .. Len(t) - 1 : RemoveAt(t, i)[j] = t[Skip(i, j)]
<1> DEFINE n == Len(t)
           l == SubSeq(t, 1, i - 1)
           r == SubSeq(t, i + 1, n)
<1>1. n \in Nat /\ i \in 1 .. n
  OBVIOUS
<1>2. l \in Seq(Chunk) /\ Len(l) = i - 1 /\ \A j \in 1 .. i - 1 : l[j] = t[j]
  BY <1>1
<1>3. r \in Seq(Chunk) /\ Len(r) = n - i /\ \A j \in 1 .. n - i : r[j] = t[i + j]
  BY <1>1
<1>4. RemoveAt(t, i) = l \o r
  BY Zenon DEF RemoveAt
<1> HIDE DEF l, r
<1>5. (l \o r) \in Seq(Chunk) /\ Len(l \o r) = n - 1
  BY <1>1, <1>2, <1>3
<1>6. ASSUME NEW j \in 1 .. n - 1 PROVE (l \o r)[j] = t[Skip(i, j)]
  <2>0. j \in Int /\ i \in Int /\ (j < i \/ j >= i)
    BY <1>1
  <2>1. CASE j < i
    <3>1. (l \o r)[j] = l[j] /\ j \in 1 .. i - 1
      BY <1>1, <1>2, <1>3, <2>1
    <3> QED BY <1>2, <2>1, <3>1, Zenon DEF Skip
  <2>2. CASE j >= i
    <3>1. (l \o r)[j] = r[j - (i - 1)]
      BY <1>1, <1>2, <1>3, <2>2
    <3>2. j - (i - 1) \in 1 .. n - i /\ i + (j - (i - 1)) = j + 1
      BY <1>1, <2>2
    <3>3. ~ (j < i)
      BY <2>0, <2>2
    <3> QED BY <1>3, <3>1, <3>2, <3>3, Zenon DEF Skip
  <2> QED BY <2>0, <2>1, <2>2, Zenon
<1>7. DOMAIN (l \o r) = 1 .. n - 1
  BY <1>5
<1> QED BY <1>4, <1>5, <1>6, <1>7, Zenon

LEMMA SkipFacts ==
  ASSUME NEW n \in Nat, NEW i \in 1 .. n
  PROVE  /\ \A j \in 1 .. n - 1 : Skip(i, j) \in 1 .. n /\ Skip(i, j) # i
         /\ \A j, k \in 1 .. n - 1 : Skip(i, j) = Skip(i, k) => j = k
         /\ \A k \in 1 .. n : k # i => \E j \in 1 .. n - 1 : k = Skip(i, j)
<1>1. ASSUME NEW j \in 1 .. n - 1 PROVE Skip(i, j) \in 1 .. n /\ Skip(i, j) # i
  BY DEF Skip
<1>2. ASSUME NEW j \in 1 .. n - 1, NEW k \in 1 .. n - 1, Skip(i, j) = Skip(i, k) PROVE j = k
  BY <1>2 DEF Skip
<1>3. ASSUME NEW k \in 1 .. n, k # i PROVE \E j \in 1 .. n - 1 : k = Skip(i, j)
  <2>1. k < i => k \in 1 .. n - 1 /\ k = Skip(i, k)
    BY <1>3 DEF Skip
  <2>2. k > i => k - 1 \in 1 .. n - 1 /\ k = Skip(i, k - 1)
    BY <1>3 DEF Skip
  <2> QED BY <1>3, <2>1, <2>2
<1> QED BY <1>1, <1>2, <1>3, Zenon

LEMMA RemoveChunk ==
  ASSUME NEW t, Sound(t), NEW i \in DOMAIN t
  PROVE  /\ Sound(RemoveAt(t, i))
         /\ DOMAIN RemoveAt(t, i) = 1 .. Len(t) - 1
         /\ \A j \in 1 .. Len(t) - 1 : RemoveAt(t, i)[j] = t[Skip(i, j)]
         /\ Backing(RemoveAt(t, i)) = Backing(t) \ {t[i].slab}
         /\ Live(RemoveAt(t, i)) = Live(t) \ Blocks(t[i])
<1>1. PICK u, n : u = RemoveAt(t, i) /\ n = Len(t)
  BY Zenon
<1>2. n \in Nat /\ i \in 1 .. n /\ DOMAIN t = 1 .. n
  BY <1>1, SoundFacts, Zenon
<1>3. u \in Seq(Chunk) /\ DOMAIN u = 1 .. n - 1 /\ \A j \in 1 .. n - 1 : u[j] = t[Skip(i, j)]
  <2>1. t \in Seq(Chunk)
    BY Zenon DEF Sound
  <2> QED BY <1>1, <2>1, RemoveFacts, Zenon
<1>4. /\ \A j \in 1 .. n - 1 : Skip(i, j) \in 1 .. n /\ Skip(i, j) # i
      /\ \A j, k \in 1 .. n - 1 : Skip(i, j) = Skip(i, k) => j = k
      /\ \A k \in 1 .. n : k # i => \E j \in 1 .. n - 1 : k = Skip(i, j)
  BY <1>2, SkipFacts, Zenon
<1>5. Sound(u)
  BY <1>2, <1>3, <1>4 DEF Sound
<1>6. ASSUME NEW x PROVE x \in Backing(u) <=> x \in Backing(t) /\ x # t[i].slab
  <2>1. x \in Backing(t) <=> \E k \in 1 .. n : x = t[k].slab
    BY <1>2, Zenon DEF Backing
  <2>2. x \in Backing(u) <=> \E j \in 1 .. n - 1 : x = t[Skip(i, j)].slab
    BY <1>3, Zenon DEF Backing
  <2>3. \A k \in 1 .. n : t[k].slab = t[i].slab => k = i
    BY <1>2, Zenon DEF Sound
  <2> QED BY <1>4, <2>1, <2>2, <2>3, Zenon
<1>7. ASSUME NEW p PROVE p \in Live(u) <=> p \in Live(t) /\ p \notin Blocks(t[i])
  <2>1. \A k \in 1 .. n : p \in Blocks(t[k]) /\ p \in Blocks(t[i]) => k = i
    BY <1>2, BlockFacts DEF Sound
  <2>2. p \in Live(t) <=> \E k \in 1 .. n : p \in Blocks(t[k])
    BY <1>2, LiveFacts, Zenon
  <2>3. p \in Live(u) <=> \E j \in 1 .. n - 1 : p \in Blocks(t[Skip(i, j)])
    BY <1>3, LiveFacts, Zenon
  <2> QED BY <1>4, <2>1, <2>2, <2>3, Zenon
<1> QED BY <1>1, <1>3, <1>5, <1>6, <1>7, Zenon

------------------------------------------------------------------------------
(* The steps.                                                              *)

FallbackBlocks(slabs) == {Block(slab, 0) : slab \in slabs}

\* The inductive invariant, over the chunks as a sequence.
PoolFacts ==
    /\ Sound(chunks)
    /\ outstanding = Backing(chunks) \cup fallback
    /\ Backing(chunks) \cap fallback = {}
    /\ Running => held = Live(chunks) \cup FallbackBlocks(fallback)
    /\ Running /\ options.spare > 0 => chunks # <<>>

Scalars ==
    /\ options \in [policy : Policies, spare : Spares, growth : Growths]
    /\ next_growth_blocks \in 1 .. SizeMax
    /\ fallback \subseteq Slabs /\ outstanding \subseteq Slabs
    /\ grows \in Nat
    /\ call \in [op : {"construct", "allocate", "deallocate", "grow", "destroy"},
                result : {"ok", "null", "throws", "error"}]

LEMMA Rephrased == PoolFacts /\ Scalars <=> TypeOK /\ ChunkInvariant
<1>1. TypeOK <=> Scalars /\ chunks \in Seq(Chunk)
  BY Zenon DEF TypeOK, Scalars, Chunk
<1>2. Backing(chunks) \cap fallback = {} <=> \A i \in DOMAIN chunks : chunks[i].slab \notin fallback
  BY Zenon DEF Backing
<1>3. Live(chunks) = LivePointers
  BY Zenon DEF Live, LivePointers, Blocks
<1> QED BY <1>1, <1>2, <1>3, Zenon DEF PoolFacts, ChunkInvariant, Sound, Backing, HeldPointersExact, FallbackBlocks

\* The first chunk of those that qualify.
LEMMA LeastOf ==
  ASSUME NEW S \in SUBSET Nat, S # {}
  PROVE  Min(S) \in S /\ \A y \in S : Min(S) <= y
<1>1. \E x \in S : \A y \in S : ~ (<<y, x>> \in OpToRel(<,Nat))
  <2> DEFINE R == OpToRel(<,Nat)
  <2>1. IsWellFoundedOn(R, Nat)
    BY NatLessThanWellFounded, Zenon
  <2> HIDE DEF R
  <2>2. \E x \in S : \A y \in S : ~ (<<y, x>> \in R)
    BY <2>1, WFMin, Zenon
  <2> QED BY <2>2, Zenon DEF R
<1>2. \A x, y \in Nat : ~ (x <= y) => <<y, x>> \in OpToRel(<,Nat)
  BY DEF OpToRel
<1>3. PICK x \in S : \A y \in S : x <= y
  BY <1>1, <1>2, Zenon
<1> QED BY <1>3, Zenon DEF Min

\* allocate takes the first chunk with a block.
LEMMA FirstWithBlock ==
  ASSUME PoolFacts, Allocate
  PROVE  \E i \in DOMAIN chunks :
            HasBlock(i) /\ i = Min({j \in DOMAIN chunks : HasBlock(j)})
<1> DEFINE places == {j \in DOMAIN chunks : HasBlock(j)}
<1>0. Len(chunks) \in Nat /\ DOMAIN chunks = 1 .. Len(chunks)
  BY SoundFacts, Zenon DEF PoolFacts
<1>1. places # {} /\ places \in SUBSET Nat
  BY <1>0 DEF Allocate, Full
<1>2. Min(places) \in places
  <2> HIDE DEF places
  <2> QED BY <1>1, LeastOf, Zenon
<1> QED BY <1>2, Zenon

LEMMA AllocateKeeps ==
  ASSUME PoolFacts, Allocate
  PROVE  PoolFacts'
<1>1. PICK i \in DOMAIN chunks : HasBlock(i) /\ i = Min({j \in DOMAIN chunks : HasBlock(j)})
  BY FirstWithBlock, Zenon
<1>2. PICK c, b : c = chunks[i] /\ b = Block(c.slab, Head(c.free))
  BY Zenon
<1>3. c \in Chunk /\ ChunkOK(c) /\ c.free # <<>>
  BY <1>1, <1>2, SoundFacts, Zenon DEF PoolFacts, HasBlock
<1>4. PICK d : d = Pop(c) /\ d \in Chunk /\ ChunkOK(d) /\ d.slab = c.slab /\ d.live = c.live \cup {Head(c.free)}
  BY <1>3, PopOK, Zenon
<1>5. chunks' = With(chunks, i, d) /\ held' = held \cup {b} /\ Running /\ Running'
      /\ UNCHANGED <<options, fallback, outstanding>>
  BY <1>1, <1>2, <1>4, Zenon DEF Allocate, With, Ends, Running
<1>6. Blocks(d) = Blocks(c) \cup {b}
  BY <1>2, <1>4, Zenon DEF Blocks
<1>7. /\ Sound(With(chunks, i, d)) /\ DOMAIN With(chunks, i, d) = DOMAIN chunks
      /\ Backing(With(chunks, i, d)) = Backing(chunks)
      /\ Live(With(chunks, i, d)) = (Live(chunks) \ Blocks(c)) \cup Blocks(d)
  BY <1>2, <1>4, ReplaceChunk DEF PoolFacts
<1>8. Blocks(c) \subseteq Live(chunks)
  BY <1>2, LiveFacts, Zenon
<1>9. Live(chunks') = Live(chunks) \cup {b} /\ Sound(chunks') /\ Backing(chunks') = Backing(chunks)
  BY <1>5, <1>6, <1>7, <1>8, Zenon
<1>10. chunks' # <<>>
  BY <1>5, <1>7
<1> QED BY <1>5, <1>9, <1>10, Zenon DEF PoolFacts

\* What grow needs of a free slab, and what the pool has after it.
LEMMA GrownKeeps ==
  ASSUME PoolFacts, Scalars, NEW slab \in Slabs, Grown(slab), NEW c \in Chunk, ChunkOK(c),
         c.slab = slab, chunks' = Append(chunks, c), fallback' = fallback
  PROVE  /\ Sound(chunks') /\ chunks' # <<>>
         /\ outstanding' = Backing(chunks') \cup fallback'
         /\ Backing(chunks') \cap fallback' = {}
         /\ Live(chunks') = Live(chunks) \cup Blocks(c)
<1>1. slab \notin Backing(chunks) /\ slab \notin fallback /\ outstanding' = outstanding \cup {slab}
  BY Zenon DEF PoolFacts, Grown
<1>2. /\ Sound(Append(chunks, c)) /\ Append(chunks, c) # <<>>
      /\ Backing(Append(chunks, c)) = Backing(chunks) \cup {c.slab}
      /\ Live(Append(chunks, c)) = Live(chunks) \cup Blocks(c)
  <2>1. Sound(chunks) /\ c.slab \notin Backing(chunks)
    BY <1>1, Zenon DEF PoolFacts
  <2> QED BY <2>1, AppendChunk, Zenon
<1> QED BY <1>1, <1>2, Zenon DEF PoolFacts

LEMMA AllocateGrowsKeeps ==
  ASSUME PoolFacts, Scalars, AllocateGrows
  PROVE  PoolFacts'
<1>1. PICK slab \in Slabs :
          /\ Grown(slab)
          /\ chunks' = Append(chunks, Pop(NewChunk(slab, next_growth_blocks)))
          /\ held' = held \cup {Block(slab, 0)}
  BY Zenon DEF AllocateGrows
<1>2. Running /\ Running' /\ UNCHANGED <<options, fallback>> /\ next_growth_blocks \in 1 .. MaxBlocks
  BY <1>1 DEF AllocateGrows, Ends, Running, Grown, Scalars, MaxBlocks
<1>3. PICK n : /\ n = NewChunk(slab, next_growth_blocks) /\ n \in Chunk /\ ChunkOK(n)
               /\ n.slab = slab /\ n.live = {} /\ n.free # <<>> /\ Head(n.free) = 0
  BY <1>2, NewChunkOK
<1>4. PICK c : /\ c = Pop(n) /\ c \in Chunk /\ ChunkOK(c) /\ c.slab = slab /\ c.live = {0}
  BY <1>3, PopOK, Zenon
<1>5. chunks' = Append(chunks, c) /\ fallback' = fallback
  BY <1>1, <1>2, <1>3, <1>4, Zenon
<1>6. /\ Sound(chunks') /\ chunks' # <<>>
      /\ outstanding' = Backing(chunks') \cup fallback'
      /\ Backing(chunks') \cap fallback' = {}
      /\ Live(chunks') = Live(chunks) \cup Blocks(c)
  BY <1>1, <1>4, <1>5, GrownKeeps, Zenon
<1>7. Blocks(c) = {Block(slab, 0)}
  BY <1>4, Zenon DEF Blocks
<1> QED BY <1>1, <1>2, <1>5, <1>6, <1>7, Zenon DEF PoolFacts

LEMMA GrowKeeps ==
  ASSUME PoolFacts, Scalars, Grow
  PROVE  PoolFacts'
<1>1. PICK slab \in Slabs : Grown(slab) /\ chunks' = Append(chunks, NewChunk(slab, next_growth_blocks))
  BY Zenon DEF Grow
<1>2. Running /\ Running' /\ UNCHANGED <<options, fallback, held>> /\ next_growth_blocks \in 1 .. MaxBlocks
  BY <1>1 DEF Grow, Ends, Running, Grown, Scalars, MaxBlocks
<1>3. PICK c : /\ c = NewChunk(slab, next_growth_blocks) /\ c \in Chunk /\ ChunkOK(c)
               /\ c.slab = slab /\ c.live = {}
  BY <1>2, NewChunkOK, Zenon
<1>4. chunks' = Append(chunks, c) /\ fallback' = fallback
  BY <1>1, <1>2, <1>3, Zenon
<1>5. /\ Sound(chunks') /\ chunks' # <<>>
      /\ outstanding' = Backing(chunks') \cup fallback'
      /\ Backing(chunks') \cap fallback' = {}
      /\ Live(chunks') = Live(chunks) \cup Blocks(c)
  BY <1>1, <1>3, <1>4, GrownKeeps, Zenon
<1>6. Blocks(c) = {}
  BY <1>3, Zenon DEF Blocks
<1> QED BY <1>2, <1>4, <1>5, <1>6, Zenon DEF PoolFacts

LEMMA FallsBackKeeps ==
  ASSUME PoolFacts, AllocateFallsBack
  PROVE  PoolFacts'
<1>1. PICK slab \in Slabs \ outstanding :
          /\ outstanding' = outstanding \cup {slab}
          /\ fallback' = fallback \cup {slab}
          /\ held' = held \cup {Block(slab, 0)}
  BY Zenon DEF AllocateFallsBack
<1>2. Running /\ Running' /\ UNCHANGED <<options, chunks>>
  BY Zenon DEF AllocateFallsBack, Ends, Running
<1>3. FallbackBlocks(fallback') = FallbackBlocks(fallback) \cup {Block(slab, 0)}
  BY <1>1, Zenon DEF FallbackBlocks
<1> QED BY <1>1, <1>2, <1>3, Zenon DEF PoolFacts

\* A returned fallback block is the only block of its slab.
LEMMA DeallocateFallbackKeeps ==
  ASSUME PoolFacts, NEW p \in Pointers, DeallocateFallback(p)
  PROVE  PoolFacts'
<1>1. /\ Running /\ Running' /\ UNCHANGED <<options, chunks>> /\ p.slab \in fallback /\ p.index = 0 /\ p.start
      /\ outstanding' = outstanding \ {p.slab} /\ fallback' = fallback \ {p.slab} /\ held' = held \ {p}
  BY Zenon DEF DeallocateFallback, Ends, Running, InFallback, FallbackReleased
<1>2. p = Block(p.slab, 0)
  BY <1>1, Zenon DEF Pointers, Block
<1>3. FallbackBlocks(fallback') = FallbackBlocks(fallback) \ {p}
  <2>1. \A s, t : Block(s, 0) = Block(t, 0) => s = t
    BY Zenon DEF Block
  <2> QED BY <1>1, <1>2, <2>1, Zenon DEF FallbackBlocks
<1>4. p \notin Live(chunks)
  <2> SUFFICES ASSUME p \in Live(chunks) PROVE FALSE
    BY Zenon
  <2>1. PICK i \in DOMAIN chunks : p.slab = chunks[i].slab
    BY LiveFacts, BlockFacts
  <2> QED BY <1>1, <2>1, Zenon DEF PoolFacts, Backing
<1> QED BY <1>1, <1>3, <1>4, Zenon DEF PoolFacts

\* A returned block goes back to its chunk's free list.
LEMMA PushFacts ==
  ASSUME PoolFacts, NEW i \in DOMAIN chunks, NEW p \in Pointers,
         Owns(i, p), p.start, p.index \in chunks[i].live,
         NEW u, u = With(chunks, i, Push(chunks[i], p.index))
  PROVE  /\ Sound(u) /\ DOMAIN u = DOMAIN chunks
         /\ \A j \in DOMAIN chunks : j # i => u[j] = chunks[j]
         /\ u[i].slab = p.slab /\ u[i].live = chunks[i].live \ {p.index}
         /\ Backing(u) = Backing(chunks) /\ p.slab \in Backing(u)
         /\ Live(u) = Live(chunks) \ {p}
<1>1. PICK c, d : c = chunks[i] /\ d = Push(c, p.index)
  BY Zenon
<1>2. c \in Chunk /\ ChunkOK(c) /\ c.slab = p.slab /\ p.index \in c.live
  BY <1>1, SoundFacts, Zenon DEF PoolFacts, Owns
<1>3. d \in Chunk /\ ChunkOK(d) /\ d.slab = c.slab /\ d.live = c.live \ {p.index}
  BY <1>1, <1>2, PushOK, Zenon
<1>4. u = With(chunks, i, d)
  BY <1>1, Zenon
<1>5. /\ Sound(With(chunks, i, d)) /\ DOMAIN With(chunks, i, d) = DOMAIN chunks
      /\ \A j \in DOMAIN chunks : With(chunks, i, d)[j] = IF j = i THEN d ELSE chunks[j]
      /\ Backing(With(chunks, i, d)) = Backing(chunks)
      /\ Live(With(chunks, i, d)) = (Live(chunks) \ Blocks(c)) \cup Blocks(d)
  BY <1>1, <1>2, <1>3, ReplaceChunk DEF PoolFacts
<1>6. p = Block(c.slab, p.index)
  BY <1>2, Zenon DEF Pointers, Block
<1>7. Blocks(d) = Blocks(c) \ {p}
  <2>1. \A b, e : Block(c.slab, b) = Block(c.slab, e) => b = e
    BY Zenon DEF Block
  <2> QED BY <1>3, <1>6, <2>1 DEF Blocks
<1>8. Blocks(c) \subseteq Live(chunks) /\ p \in Blocks(c)
  BY <1>1, <1>2, <1>6, LiveFacts, Zenon DEF Blocks
<1>9. p.slab \in Backing(chunks)
  BY <1>1, <1>2, Zenon DEF Backing
<1> QED BY <1>1, <1>2, <1>3, <1>4, <1>5, <1>7, <1>8, <1>9, Zenon

LEMMA DeallocateBlockKeeps ==
  ASSUME PoolFacts, Scalars, NEW p \in Pointers, DeallocateBlock(p)
  PROVE  PoolFacts'
<1>1. Running /\ Running' /\ UNCHANGED <<options, fallback>> /\ held' = held \ {p}
  BY Zenon DEF DeallocateBlock, Ends, Running
<1>2. PICK i, u :
          /\ i \in DOMAIN chunks /\ u = With(chunks, i, Push(chunks[i], p.index))
          /\ Owns(i, p) /\ p.start /\ p.index \in chunks[i].live
          /\ chunks' = IF Reclaims(i, u) THEN RemoveAt(u, i) ELSE u
          /\ outstanding' = IF Reclaims(i, u) THEN outstanding \ {p.slab} ELSE outstanding
  BY Zenon DEF DeallocateBlock, With
<1>3. /\ Sound(u) /\ i \in DOMAIN u /\ DOMAIN u = DOMAIN chunks /\ u[i].slab = p.slab
      /\ Backing(u) = Backing(chunks) /\ p.slab \in Backing(u)
      /\ Live(u) = Live(chunks) \ {p}
  BY <1>2, PushFacts
<1>4. p \notin FallbackBlocks(fallback)
  <2>1. \A q \in FallbackBlocks(fallback) : q.slab \in fallback
    BY DEF FallbackBlocks, Block
  <2> QED BY <1>3, <2>1, Zenon DEF PoolFacts
<1>5. CASE ~ Reclaims(i, u)
  <2>1. chunks' = u /\ outstanding' = outstanding /\ chunks' # <<>>
    BY <1>2, <1>3, <1>5
  <2> QED BY <1>1, <1>3, <1>4, <2>1, Zenon DEF PoolFacts
<1>6. CASE Reclaims(i, u)
  <2>1. PICK n : n = Len(u) /\ n \in Nat /\ DOMAIN u = 1 .. n /\ i \in 1 .. n
    BY <1>3, SoundFacts, Zenon
  <2>2. u[i].live = {} /\ Blocks(u[i]) = {}
    <3>1. u[i] \in Chunk /\ ChunkOK(u[i]) /\ IsEmpty(u[i])
      BY <1>3, <1>6, SoundFacts, Zenon DEF Reclaims
    <3> QED BY <3>1, EmptyIff, Zenon DEF Blocks
  <2>3. /\ chunks' = RemoveAt(u, i) /\ outstanding' = outstanding \ {p.slab}
        /\ Sound(chunks') /\ DOMAIN chunks' = 1 .. n - 1
        /\ Backing(chunks') = Backing(u) \ {p.slab} /\ Live(chunks') = Live(u)
    <3>1. chunks' = RemoveAt(u, i) /\ outstanding' = outstanding \ {p.slab}
      BY <1>2, <1>6, Zenon
    <3>2. /\ Sound(RemoveAt(u, i)) /\ DOMAIN RemoveAt(u, i) = 1 .. Len(u) - 1
          /\ Backing(RemoveAt(u, i)) = Backing(u) \ {u[i].slab}
          /\ Live(RemoveAt(u, i)) = Live(u) \ Blocks(u[i])
      BY <1>3, RemoveChunk, Zenon
    <3> QED BY <1>3, <2>1, <2>2, <3>1, <3>2, Zenon
  <2>4. ASSUME options.spare > 0 PROVE chunks' # <<>>
    <3> DEFINE E == {j \in DOMAIN u : IsEmpty(u[j])}
    <3>1. Cardinality(E) > options.spare /\ options.spare \in Nat
      BY <1>6, ChunkAssumption, Zenon DEF Reclaims, Scalars
    <3>2. IsFiniteSet(1 .. n) /\ Cardinality(1 .. n) = n /\ E \in SUBSET (1 .. n)
      <4>1. IsFiniteSet(1 .. n) /\ Cardinality(1 .. n) = n
        BY <1>3, <2>1, SoundFacts, Zenon
      <4> QED BY <2>1, <4>1, Zenon
    <3>3. Cardinality(E) <= n /\ Cardinality(E) \in Nat
      <4> HIDE DEF E
      <4> QED BY <3>2, FS_Subset, FS_CardinalityType, Zenon
    <3>4. 1 \in 1 .. n - 1
      <4> HIDE DEF E
      <4> QED BY <2>1, <2>4, <3>1, <3>3
    <3>5. chunks' = <<>> => DOMAIN chunks' = {}
      OBVIOUS
    <3> QED BY <2>3, <3>4, <3>5, Zenon
  <2>5. p.slab \notin fallback
    BY <1>3, Zenon DEF PoolFacts
  <2> QED BY <1>1, <1>3, <1>4, <2>3, <2>4, <2>5, Zenon DEF PoolFacts
<1> QED BY <1>5, <1>6, Zenon

LEMMA DestroyKeeps ==
  ASSUME PoolFacts, Destroy
  PROVE  PoolFacts'
<1>1. chunks' = <<>> /\ fallback' = {} /\ ~ Running' /\ outstanding' = (outstanding \ fallback) \ Backing(chunks)
  BY Zenon DEF Destroy, Ends, Running, Backing
<1>2. Sound(<<>>) /\ Backing(<<>>) = {}
  BY DEF Sound, Backing
<1> QED BY <1>1, <1>2, Zenon DEF PoolFacts

LEMMA NothingMoves ==
  ASSUME PoolFacts, Running, UNCHANGED <<options, chunks, fallback, outstanding, held>>
  PROVE  PoolFacts'
  BY Zenon DEF PoolFacts

------------------------------------------------------------------------------
(* The sizes of the chunks.                                                *)

Least(a, b) == IF a <= b THEN a ELSE b

LEMMA MinIsLeast ==
  ASSUME NEW a \in Int, NEW b \in Int
  PROVE  Min({a, b}) = Least(a, b)
<1>1. Least(a, b) \in {a, b} /\ \A y \in {a, b} : Least(a, b) <= y
  BY DEF Least
<1>2. \A x \in {a, b} : (\A y \in {a, b} : x <= y) => x = Least(a, b)
  BY DEF Least
<1> QED BY <1>1, <1>2, Zenon DEF Min

CapOf(m, M) == IF M = 0 THEN m ELSE M

NextSize(m, f, M, now) ==
    IF M # 0 /\ now >= M THEN M
    ELSE IF now > m \div f THEN IF M # 0 THEN M ELSE m
    ELSE IF M # 0 THEN Min({now * f, M})
    ELSE now * f

\* calculate_next_growth, from the capped size of a chunk to the next: the
\* division it guards the product with decides exactly whether to saturate.
LEMMA Saturates ==
  ASSUME NEW m \in Nat \ {0}, NEW f \in Nat \ {0, 1}, NEW M \in 0 .. m, NEW x \in Nat \ {0}
  PROVE  /\ NextSize(m, f, M, Least(x, CapOf(m, M))) = Least(x * f, CapOf(m, M))
         /\ x * f \in Nat \ {0} /\ Least(x * f, CapOf(m, M)) \in 1 .. m
<1>0. PICK cap, now : cap = CapOf(m, M) /\ now = Least(x, cap)
  BY Zenon
<1> SUFFICES /\ NextSize(m, f, M, now) = Least(x * f, cap)
             /\ x * f \in Nat \ {0} /\ Least(x * f, cap) \in 1 .. m
  BY <1>0, Zenon
<1>1. /\ cap \in 1 .. m /\ now \in Nat \ {0} /\ now <= x /\ now <= cap
      /\ (IF x <= cap THEN now = x ELSE now = cap) /\ f >= 2 /\ m >= 1
  BY <1>0 DEF Least, CapOf
<1>2. PICK y : y = x * f /\ y \in Nat /\ y >= x + x
  <2>1. 2 * x <= f * x /\ f * x = x * f
    BY <1>1, Monotone
  <2> QED BY <2>1
<1>3. PICK z : z = now * f /\ z \in Nat /\ z <= y /\ (now = x => z = y)
  BY <1>1, <1>2, Monotone, Zenon
<1>4. z <= m <=> now <= m \div f
  <2>1. f \in Nat \ {0}
    BY Zenon
  <2> QED BY <1>1, <1>3, <2>1, FitsIff, Zenon
<1>5. m \div f \in Nat /\ m \div f < m
  <2>1. m * f >= m + m
    <3>1. 2 * m <= f * m /\ f * m = m * f
      BY <1>1, Monotone
    <3> QED BY <3>1
  <2>2. f \in Nat \ {0} /\ m * f \in Nat /\ ~ (m * f <= m)
    BY <2>1
  <2> QED BY <2>2, FitsIff, Quotient
<1>6. Least(y, cap) \in 1 .. m
  BY <1>1, <1>2 DEF Least
<1>7. PICK q : q = m \div f /\ q \in Nat /\ q < m /\ (z <= m <=> now <= q)
  BY <1>4, <1>5, Zenon
<1>8. CASE M # 0
  <2>1. cap = M /\ M \in Nat
    BY <1>0, <1>8 DEF CapOf
  <2>2. now >= M => Least(y, cap) = M
    BY <1>1, <1>2, <2>1 DEF Least
  <2>3. ~ (now >= M) /\ now > q => Least(y, cap) = M
    BY <1>1, <1>2, <1>3, <1>7, <2>1 DEF Least
  <2>4. ~ (now >= M) => Min({z, M}) = Least(y, cap)
    <3>1. ~ (now >= M) => now = x
      BY <1>1, <2>1, Zenon DEF Least
    <3> QED BY <1>3, <2>1, <3>1, MinIsLeast
  <2> QED BY <1>2, <1>3, <1>6, <1>7, <1>8, <2>2, <2>3, <2>4 DEF NextSize
<1>9. CASE M = 0
  <2>1. cap = m
    BY <1>0, <1>9, Zenon DEF CapOf
  <2>2. now > q => Least(y, cap) = m
    BY <1>1, <1>2, <1>3, <1>7, <2>1 DEF Least
  <2>3. ~ (now > q) => z = Least(y, cap)
    BY <1>1, <1>2, <1>3, <1>7, <2>1 DEF Least
  <2> QED BY <1>2, <1>3, <1>6, <1>7, <1>9, <2>2, <2>3 DEF NextSize
<1> QED BY <1>8, <1>9, Zenon

\* next_growth_blocks_ after k chunks.
Cap == IF options.growth.maximum = 0 THEN SizeMax ELSE options.growth.maximum

Closed(n, k) ==
    n = IF options.growth.mode = "fixed" THEN InitialBlocks
        ELSE Min({InitialBlocks * Power(options.growth.factor, k), Cap})

LEMMA InitialFacts ==
  /\ InitialBlocks \in 1 .. MaxBlocks /\ InitialBlocks \in 1 .. SizeMax
  /\ MaxBlocks \in Nat /\ MaxBlocks <= SizeMax
<1>1. /\ InitialBlocks \in Nat \ {0} /\ Stride \in Nat \ {0} /\ SizeMax \in Nat
      /\ InitialBlocks * Stride <= SizeMax
  BY ChunkAssumption, Zenon
<1>2. InitialBlocks <= MaxBlocks
  BY <1>1, FitsIff, Zenon DEF MaxBlocks
<1>3. PICK q : q = MaxBlocks /\ q \in Nat /\ q * Stride <= SizeMax
  BY <1>1, Quotient, Zenon DEF MaxBlocks
<1>4. q * 1 <= q * Stride /\ q * Stride \in Nat
  <2>1. 1 * q <= Stride * q /\ Stride * q \in Nat /\ Stride * q = q * Stride
    BY <1>1, <1>3, Monotone
  <2> QED BY <1>3, <2>1
<1> QED BY <1>1, <1>2, <1>3, <1>4

LEMMA NextGrowth ==
  ASSUME options \in [policy : Policies, spare : Spares, growth : Growths],
         NEW k \in Nat, NEW n \in 1 .. SizeMax, Closed(n, k)
  PROVE  CalculateNextGrowth(n) \in 1 .. SizeMax /\ Closed(CalculateNextGrowth(n), k + 1)
<1>1. PICK g : g = options.growth /\ g \in Growths
  BY Zenon
<1>2. PICK f, M : f = g.factor /\ M = g.maximum /\ f \in Nat /\ M \in 0 .. SizeMax
  BY <1>1, ChunkAssumption, Zenon
<1>3. g.mode = "geometric" \/ g.mode = "fixed"
  BY <1>1, ChunkAssumption, Zenon
<1>4. CASE g.mode = "fixed"
  BY <1>1, <1>4, InitialFacts, Zenon DEF Closed, CalculateNextGrowth
<1>5. CASE g.mode = "geometric"
  <2>1. f >= 2 /\ SizeMax \in Nat /\ SizeMax >= 1 /\ InitialBlocks \in Nat
    BY <1>1, <1>2, <1>5, InitialFacts, ChunkAssumption DEF ValidGrowth
  <2>2. PICK p : p = Power(f, k) /\ p \in Nat /\ Power(f, k + 1) = f * p
    BY <1>2, PowerFacts, Zenon
  <2>3. PICK x : x = InitialBlocks * p /\ x \in Nat /\ x * f = InitialBlocks * (f * p)
    <3>1. InitialBlocks * p \in Nat /\ (InitialBlocks * p) * f = InitialBlocks * (f * p)
      BY <1>2, <2>1, <2>2
    <3> QED BY <3>1, Zenon
  <2>4. PICK cap : cap = CapOf(SizeMax, M) /\ cap = Cap /\ cap \in Nat
    BY <1>1, <1>2, <2>1 DEF Cap, CapOf
  <2>5. n = Least(x, cap)
    <3>1. n = Min({x, cap})
      BY <1>1, <1>2, <1>5, <2>2, <2>3, <2>4, Zenon DEF Closed
    <3> QED BY <2>3, <2>4, <3>1, MinIsLeast
  <2>6. x \in Nat \ {0}
    BY <2>3, <2>4, <2>5 DEF Least
  <2>7. /\ NextSize(SizeMax, f, M, n) = Least(x * f, cap)
        /\ x * f \in Nat \ {0} /\ Least(x * f, cap) \in 1 .. SizeMax
    <3>1. SizeMax \in Nat \ {0} /\ f \in Nat \ {0, 1}
      BY <1>2, <2>1
    <3>2. /\ NextSize(SizeMax, f, M, Least(x, CapOf(SizeMax, M))) = Least(x * f, CapOf(SizeMax, M))
          /\ x * f \in Nat \ {0} /\ Least(x * f, CapOf(SizeMax, M)) \in 1 .. SizeMax
      BY <1>2, <2>6, <3>1, Saturates, Zenon
    <3> QED BY <2>4, <2>5, <3>2, Zenon
  <2>8. CalculateNextGrowth(n) = Least(x * f, cap)
    BY <1>1, <1>2, <1>5, <2>7, Zenon DEF CalculateNextGrowth, NextSize
  <2>9. Least(x * f, cap) = Min({InitialBlocks * Power(options.growth.factor, k + 1), Cap})
    <3>1. Min({x * f, cap}) = Least(x * f, cap)
      BY <2>4, <2>7, MinIsLeast
    <3> QED BY <1>1, <1>2, <2>2, <2>3, <2>4, <3>1, Zenon
  <2> QED BY <1>1, <1>5, <2>7, <2>8, <2>9, Zenon DEF Closed
<1> QED BY <1>3, <1>4, <1>5, Zenon

LEMMA FirstGrowth ==
  ASSUME options \in [policy : Policies, spare : Spares, growth : Growths]
  PROVE  /\ CalculateNextGrowth(InitialBlocks) \in 1 .. SizeMax
         /\ Closed(CalculateNextGrowth(InitialBlocks), 1)
<1>1. PICK g : g = options.growth /\ g \in Growths
  BY Zenon
<1>2. PICK f : f = g.factor /\ f \in Nat /\ Power(f, 0) = 1
  BY <1>1, ChunkAssumption, PowerFacts, Zenon
<1>3. PICK cap : cap = Cap /\ cap \in Nat /\ InitialBlocks <= cap
  BY <1>1, ChunkAssumption, InitialFacts DEF Cap, ValidGrowth
<1>4. InitialBlocks \in Nat /\ InitialBlocks \in 1 .. SizeMax /\ InitialBlocks * 1 = InitialBlocks
  BY InitialFacts, ChunkAssumption
<1>5. Min({InitialBlocks, cap}) = InitialBlocks
  BY <1>3, <1>4, MinIsLeast DEF Least
<1>6. Closed(InitialBlocks, 0)
  BY <1>1, <1>2, <1>3, <1>4, <1>5, Zenon DEF Closed
<1> QED BY <1>4, <1>6, NextGrowth

------------------------------------------------------------------------------
(* The theorems.                                                           *)

PoolInv == PoolFacts /\ Scalars /\ Closed(next_growth_blocks, grows)

LEMMA InitPool == Init => PoolInv
<1> SUFFICES ASSUME Init PROVE PoolInv
  BY Zenon
<1>1. PICK slab \in Slabs : chunks = <<NewChunk(slab, InitialBlocks)>> /\ outstanding = {slab}
  BY Zenon DEF Init
<1>2. PICK c : c = NewChunk(slab, InitialBlocks) /\ c \in Chunk /\ ChunkOK(c) /\ c.slab = slab /\ c.live = {}
  BY InitialFacts, NewChunkOK, Zenon
<1>3. PICK t : t = <<c>> /\ t \in Seq(Chunk) /\ DOMAIN t = {1} /\ t[1] = c /\ t # <<>>
  <2>1. <<c>> \in Seq(Chunk) /\ Len(<<c>>) = 1 /\ <<c>>[1] = c
    BY <1>2
  <2>2. DOMAIN <<c>> = 1 .. 1 /\ 1 .. 1 = {1} /\ <<c>> # <<>>
    BY <2>1
  <2> QED BY <2>1, <2>2, Zenon
<1>4. Sound(t) /\ Backing(t) = {slab} /\ Live(t) = {}
  BY <1>2, <1>3 DEF Sound, Backing, Live, Blocks
<1>5. PoolFacts
  BY <1>1, <1>2, <1>3, <1>4, Zenon DEF Init, PoolFacts, Running, FallbackBlocks
<1>6. Scalars /\ Closed(next_growth_blocks, grows)
  BY <1>1, FirstGrowth, Zenon DEF Init, Scalars
<1> QED BY <1>5, <1>6, Zenon DEF PoolInv

LEMMA CallsKeep ==
  ASSUME PoolInv, NEW p \in Pointers, DeallocateBlock(p) \/ DeallocateFallback(p) \/ DeallocateRejected(p)
  PROVE  PoolInv'
<1>1. PoolFacts /\ Scalars
  BY Zenon DEF PoolInv
<1>2. PoolFacts'
  <2>1. CASE DeallocateRejected(p)
    BY <1>1, <2>1, NothingMoves, Zenon DEF DeallocateRejected
  <2> QED BY <1>1, <2>1, DeallocateBlockKeeps, DeallocateFallbackKeeps, Zenon
<1>3. UNCHANGED <<options, next_growth_blocks, grows>>
  BY Zenon DEF DeallocateBlock, DeallocateFallback, DeallocateRejected
<1>4. outstanding' \subseteq outstanding /\ fallback' \subseteq fallback
  BY Zenon DEF DeallocateBlock, DeallocateFallback, DeallocateRejected, FallbackReleased
<1>5. call' \in [op : {"construct", "allocate", "deallocate", "grow", "destroy"},
                result : {"ok", "null", "throws", "error"}]
  BY DEF DeallocateBlock, DeallocateFallback, DeallocateRejected, Ends
<1>6. Closed(next_growth_blocks, grows)'
  BY <1>3, Zenon DEF PoolInv, Closed, Cap
<1> QED BY <1>1, <1>2, <1>3, <1>4, <1>5, <1>6, Zenon DEF PoolInv, Scalars

\* A chunk more: the next one has its size.
LEMMA GrowthKeeps ==
  ASSUME PoolInv, NEW slab \in Slabs, Grown(slab), UNCHANGED <<options, fallback>>,
         NEW name \in {"allocate", "grow"}, Ends(name, "ok")
  PROVE  Scalars' /\ Closed(next_growth_blocks, grows)'
<1>1. Scalars /\ Closed(next_growth_blocks, grows)
  BY Zenon DEF PoolInv
<1>2. next_growth_blocks' = CalculateNextGrowth(next_growth_blocks) /\ grows' = grows + 1
      /\ outstanding' = outstanding \cup {slab}
  BY Zenon DEF Grown
<1>3. PICK n, k : n = next_growth_blocks /\ k = grows
  BY Zenon
<1>4. n \in 1 .. SizeMax /\ k \in Nat /\ Closed(n, k)
  BY <1>1, <1>3, Zenon DEF Scalars
<1>5. PICK m : m = CalculateNextGrowth(n) /\ m \in 1 .. SizeMax /\ Closed(m, k + 1)
  BY <1>1, <1>4, NextGrowth, Zenon DEF Scalars
<1>6. next_growth_blocks' = m /\ grows' = k + 1
  BY <1>2, <1>3, <1>5, Zenon
<1>7. Closed(next_growth_blocks, grows)'
  BY <1>5, <1>6, Zenon DEF Closed, Cap
<1>8. call' \in [op : {"construct", "allocate", "deallocate", "grow", "destroy"},
                result : {"ok", "null", "throws", "error"}]
  BY Zenon DEF Ends
<1> QED BY <1>1, <1>2, <1>4, <1>5, <1>6, <1>7, <1>8 DEF Scalars

LEMMA NextPool == PoolInv /\ [Next]_vars => PoolInv'
<1> SUFFICES ASSUME PoolInv, [Next]_vars PROVE PoolInv'
  BY Zenon
<1> DEFINE Calls == [op : {"construct", "allocate", "deallocate", "grow", "destroy"},
                     result : {"ok", "null", "throws", "error"}]
<1>0. PoolFacts /\ Scalars /\ Closed(next_growth_blocks, grows)
  BY Zenon DEF PoolInv
<1>1. ASSUME UNCHANGED <<options, next_growth_blocks, grows>>, call' \in Calls,
             outstanding' \subseteq Slabs, fallback' \subseteq Slabs
      PROVE  Scalars' /\ Closed(next_growth_blocks, grows)'
  BY <1>0, <1>1, Zenon DEF Scalars, Closed, Cap
<1>2. outstanding \subseteq Slabs /\ fallback \subseteq Slabs
  BY <1>0, Zenon DEF Scalars
<1>3. CASE Allocate
  <2>1. Scalars' /\ Closed(next_growth_blocks, grows)'
    BY <1>1, <1>2, <1>3, Zenon DEF Allocate, Ends
  <2> QED BY <1>0, <1>3, <2>1, AllocateKeeps, Zenon DEF PoolInv
<1>4. CASE AllocateFails
  <2>1. Scalars' /\ Closed(next_growth_blocks, grows)'
    BY <1>1, <1>2, <1>4, Zenon DEF AllocateFails, Ends
  <2>2. PoolFacts'
    BY <1>0, <1>4, NothingMoves, Zenon DEF AllocateFails
  <2> QED BY <2>1, <2>2, Zenon DEF PoolInv
<1>5. CASE AllocateGrows
  <2>1. Scalars' /\ Closed(next_growth_blocks, grows)'
    BY <1>5, GrowthKeeps, Zenon DEF AllocateGrows
  <2> QED BY <1>0, <1>5, <2>1, AllocateGrowsKeeps, Zenon DEF PoolInv
<1>6. CASE AllocateFallsBack
  <2>1. Scalars' /\ Closed(next_growth_blocks, grows)'
    BY <1>1, <1>2, <1>6, Zenon DEF AllocateFallsBack, Ends
  <2> QED BY <1>0, <1>6, <2>1, FallsBackKeeps, Zenon DEF PoolInv
<1>7. CASE Grow
  <2>1. Scalars' /\ Closed(next_growth_blocks, grows)'
    BY <1>7, GrowthKeeps, Zenon DEF Grow
  <2> QED BY <1>0, <1>7, <2>1, GrowKeeps, Zenon DEF PoolInv
<1>8. CASE Destroy
  <2>1. Scalars' /\ Closed(next_growth_blocks, grows)'
    BY <1>1, <1>2, <1>8, Zenon DEF Destroy, Ends
  <2> QED BY <1>0, <1>8, <2>1, DestroyKeeps, Zenon DEF PoolInv
<1>9. CASE UNCHANGED vars
  BY <1>0, <1>9, Zenon DEF vars, PoolInv, PoolFacts, Scalars, Closed, Cap, Running
<1> QED BY <1>3, <1>4, <1>5, <1>6, <1>7, <1>8, <1>9, CallsKeep DEF Next

LEMMA PoolInvHolds == Spec => []PoolInv
  BY InitPool, NextPool, PTL DEF Spec

\* The invariant behind the properties: every block of a chunk is free once or
\* live, every slab backs one chunk or one fallback block, and callers hold
\* exactly the live blocks, whatever grows, is reclaimed or is refused.
THEOREM ChunkInvariantHolds == Spec => [](TypeOK /\ ChunkInvariant)
<1>1. PoolInv => TypeOK /\ ChunkInvariant
  BY Rephrased, Zenon DEF PoolInv
<1> QED BY <1>1, PoolInvHolds, PTL

\* allocate and deallocate for any slabs, policies and orders of calls: growth,
\* reclamation and the reuse of a slab never invalidate a pointer a caller
\* holds, and deallocate accepts no other.
THEOREM HeldPointersExactHolds == Spec => []HeldPointersExact
<1>1. PoolInv => HeldPointersExact
  BY Rephrased, Zenon DEF PoolInv, ChunkInvariant
<1> QED BY <1>1, PoolInvHolds, PTL

\* grow, reclaim_if_allowed, the fallback and the destructor: the provider's
\* slabs back one chunk or fallback block each and all go back at the end.
THEOREM ProviderBalancedHolds == Spec => []ProviderBalanced
<1>1. PoolInv => ProviderBalanced
  <2> SUFFICES ASSUME PoolInv PROVE ProviderBalanced
    BY Zenon
  <2>1. PICK t : t = chunks /\ Sound(t)
    BY Zenon DEF PoolInv, PoolFacts
  <2>2. Len(t) \in Nat /\ DOMAIN t = 1 .. Len(t) /\ IsFiniteSet(DOMAIN t) /\ Cardinality(DOMAIN t) = Len(t)
    BY <2>1, SoundFacts, Zenon
  <2> DEFINE slabOf == [i \in DOMAIN t |-> t[i].slab]
  <2>3. slabOf \in Bijection(DOMAIN t, Backing(t))
    BY <2>1 DEF Bijection, Injection, Surjection, IsInjective, Backing, Sound
  <2>4. IsFiniteSet(DOMAIN t) /\ ExistsBijection(DOMAIN t, Backing(t))
    BY <2>2, <2>3, Zenon DEF ExistsBijection
  <2>5. Cardinality(Backing(t)) = Cardinality(DOMAIN t)
    BY <2>4, FS_Bijection, Zenon
  <2> QED BY <2>1, <2>2, <2>5, Zenon DEF PoolInv, PoolFacts, ProviderBalanced, Backing
<1> QED BY <1>1, PoolInvHolds, PTL

\* reclaim_if_allowed with spare_empty_chunks of at least one: when every block
\* has come back, the next allocate needs neither growth nor the policy.
THEOREM PoolNeverDriesUpHolds == Spec => []PoolNeverDriesUp
<1>1. PoolInv => PoolNeverDriesUp
  <2> SUFFICES ASSUME PoolInv, Running, options.spare > 0, held = {} PROVE ~ Full
    BY Zenon DEF PoolNeverDriesUp
  <2>1. Sound(chunks) /\ Live(chunks) = {} /\ chunks # <<>>
    BY Zenon DEF PoolInv, PoolFacts
  <2>2. 1 \in DOMAIN chunks
    BY <2>1, SoundFacts DEF Sound
  <2>3. PICK c : c = chunks[1] /\ c \in Chunk /\ ChunkOK(c)
    BY <2>1, <2>2, SoundFacts, Zenon
  <2>4. Blocks(c) = {}
    BY <2>1, <2>2, <2>3, LiveFacts, Zenon
  <2>5. c.live = {}
    BY <2>4, Zenon DEF Blocks
  <2>6. 0 \in Range(c.free)
    <3>1. 0 \in 0 .. c.count - 1
      BY <2>3, ChunkFields DEF ChunkOK
    <3> QED BY <2>3, <2>5, <3>1, Zenon DEF ChunkOK
  <2>7. c.free # <<>>
    BY <2>6 DEF Range
  <2> QED BY <2>2, <2>3, <2>7, Zenon DEF Full, HasBlock
<1> QED BY <1>1, PoolInvHolds, PTL

\* calculate_next_growth, for every factor, maximum and size_t: the sizes follow
\* the closed form and the guarded product never wraps.
THEOREM GrowthClosedFormHolds == Spec => []GrowthClosedForm
<1>1. PoolInv => GrowthClosedForm
  BY Zenon DEF PoolInv, Closed, Cap, GrowthClosedForm
<1> QED BY <1>1, PoolInvHolds, PTL

------------------------------------------------------------------------------
(* Empty chunks.                                                           *)

LEMMA EmptyFinite ==
  ASSUME NEW t, Sound(t)
  PROVE  IsFiniteSet(Empty(t)) /\ Cardinality(Empty(t)) \in Nat
<1>1. IsFiniteSet(DOMAIN t) /\ Empty(t) \in SUBSET DOMAIN t
  BY SoundFacts, Zenon DEF Empty
<1> QED BY <1>1, FS_Subset, FS_CardinalityType, Zenon

LEMMA FewerEmpty ==
  ASSUME NEW t, NEW u, Sound(t), Sound(u), Empty(u) \subseteq Empty(t)
  PROVE  Cardinality(Empty(u)) <= Cardinality(Empty(t))
<1>1. IsFiniteSet(Empty(t)) /\ Empty(u) \in SUBSET Empty(t)
  BY EmptyFinite, Zenon
<1> QED BY <1>1, FS_Subset, Zenon

\* What removing an empty chunk leaves was empty before the block came back.
LEMMA RemovedEmpty ==
  ASSUME NEW t, NEW u, Sound(t), Sound(u), NEW i \in DOMAIN t, DOMAIN u = DOMAIN t,
         \A j \in DOMAIN t : j # i => u[j] = t[j]
  PROVE  Cardinality(Empty(RemoveAt(u, i))) <= Cardinality(Empty(t))
<1>1. PICK n : n = Len(u) /\ n \in Nat /\ DOMAIN u = 1 .. n /\ i \in 1 .. n
  BY SoundFacts, Zenon
<1>2. PICK r : r = RemoveAt(u, i) /\ DOMAIN r = 1 .. n - 1 /\ \A j \in 1 .. n - 1 : r[j] = u[Skip(i, j)]
  BY <1>1, RemoveChunk
<1>3. /\ \A j \in 1 .. n - 1 : Skip(i, j) \in 1 .. n /\ Skip(i, j) # i
      /\ \A j, k \in 1 .. n - 1 : Skip(i, j) = Skip(i, k) => j = k
  BY <1>1, SkipFacts
<1> DEFINE place == [j \in Empty(r) |-> Skip(i, j)]
<1>4. \A j \in Empty(r) : j \in 1 .. n - 1 /\ Skip(i, j) \in Empty(t)
  BY <1>1, <1>2, <1>3, Zenon DEF Empty
<1>5. place \in Injection(Empty(r), Empty(t))
  BY <1>3, <1>4, Zenon DEF Injection, IsInjective
<1>6. IsFiniteSet(Empty(t))
  BY EmptyFinite, Zenon
<1>7. Cardinality(Empty(r)) <= Cardinality(Empty(t))
  <2> HIDE DEF place
  <2> QED BY <1>5, <1>6, FS_Injection, Zenon
<1> QED BY <1>2, <1>7, Zenon

Fewer == Cardinality(Empty(chunks')) <= Cardinality(Empty(chunks))

LEMMA AllocateFewer ==
  ASSUME PoolFacts, PoolFacts', Allocate
  PROVE  Fewer
<1>1. PICK i \in DOMAIN chunks : HasBlock(i) /\ i = Min({j \in DOMAIN chunks : HasBlock(j)})
  BY FirstWithBlock, Zenon
<1>2. PICK c, d : c = chunks[i] /\ d = Pop(c)
  BY Zenon
<1>3. c \in Chunk /\ ChunkOK(c) /\ c.free # <<>>
  BY <1>1, <1>2, SoundFacts, Zenon DEF PoolFacts, HasBlock
<1>4. d \in Chunk /\ ChunkOK(d) /\ d.live # {}
  BY <1>2, <1>3, PopOK, Zenon
<1>5. ~ IsEmpty(d)
  BY <1>4, EmptyIff, Zenon
<1>6. chunks' = [chunks EXCEPT ![i] = d]
  BY <1>1, <1>2, Zenon DEF Allocate
<1>7. Empty(chunks') \subseteq Empty(chunks)
  BY <1>5, <1>6, Zenon DEF Empty
<1> QED BY <1>7, FewerEmpty, Zenon DEF PoolFacts, Fewer

LEMMA AllocateGrowsFewer ==
  ASSUME PoolFacts, PoolFacts', Scalars, AllocateGrows
  PROVE  Fewer
<1>1. PICK slab \in Slabs : Grown(slab) /\ chunks' = Append(chunks, Pop(NewChunk(slab, next_growth_blocks)))
  BY Zenon DEF AllocateGrows
<1>2. next_growth_blocks \in 1 .. MaxBlocks
  BY <1>1 DEF Grown, Scalars, MaxBlocks
<1>3. PICK n : n = NewChunk(slab, next_growth_blocks) /\ n \in Chunk /\ ChunkOK(n) /\ n.free # <<>>
  BY <1>2, NewChunkOK
<1>4. PICK d : d = Pop(n) /\ d \in Chunk /\ ChunkOK(d) /\ d.live # {}
  BY <1>3, PopOK, Zenon
<1>5. ~ IsEmpty(d)
  BY <1>4, EmptyIff, Zenon
<1>6. chunks' = Append(chunks, d) /\ chunks \in Seq(Chunk)
  BY <1>1, <1>3, <1>4, Zenon DEF PoolFacts, Sound
<1>7. /\ DOMAIN chunks' = DOMAIN chunks \cup {Len(chunks) + 1} /\ chunks'[Len(chunks) + 1] = d
      /\ \A j \in DOMAIN chunks : chunks'[j] = chunks[j]
  BY <1>4, <1>6
<1>8. Empty(chunks') \subseteq Empty(chunks)
  BY <1>5, <1>7, Zenon DEF Empty
<1> QED BY <1>8, FewerEmpty, Zenon DEF PoolFacts, Fewer

LEMMA DeallocateFewer ==
  ASSUME PoolFacts, PoolFacts', Scalars, NEW p \in Pointers, DeallocateBlock(p)
  PROVE  Fewer \/ Cardinality(Empty(chunks')) <= options.spare
<1>1. PICK i, u :
          /\ i \in DOMAIN chunks /\ u = With(chunks, i, Push(chunks[i], p.index))
          /\ Owns(i, p) /\ p.start /\ p.index \in chunks[i].live
          /\ chunks' = IF Reclaims(i, u) THEN RemoveAt(u, i) ELSE u
  BY Zenon DEF DeallocateBlock, With
<1>2. /\ Sound(u) /\ DOMAIN u = DOMAIN chunks
      /\ \A j \in DOMAIN chunks : j # i => u[j] = chunks[j]
  BY <1>1, PushFacts
<1>3. CASE Reclaims(i, u)
  BY <1>1, <1>2, <1>3, RemovedEmpty, Zenon DEF PoolFacts, Fewer
<1>4. CASE ~ Reclaims(i, u) /\ ~ IsEmpty(u[i])
  <2>1. chunks' = u /\ Empty(u) \subseteq Empty(chunks)
    BY <1>1, <1>2, <1>4, Zenon DEF Empty
  <2> QED BY <1>2, <2>1, FewerEmpty, Zenon DEF PoolFacts, Fewer
<1>5. CASE ~ Reclaims(i, u) /\ IsEmpty(u[i])
  <2>1. chunks' = u /\ ~ (Cardinality(Empty(u)) > options.spare)
    BY <1>1, <1>5, Zenon DEF Reclaims, Empty
  <2>2. Cardinality(Empty(u)) \in Nat /\ options.spare \in Nat
    BY <1>2, EmptyFinite, ChunkAssumption, Zenon DEF Scalars
  <2> QED BY <2>1, <2>2
<1> QED BY <1>3, <1>4, <1>5, Zenon

\* reclaim_if_allowed: however the blocks come back, no step leaves more than
\* spare_empty_chunks empty chunks where there were fewer, but a grow().
THEOREM EmptyChunksBoundedHolds == Spec => EmptyChunksBounded
<1> DEFINE Bounded == Cardinality(EmptyChunks') > Cardinality(EmptyChunks) =>
                         Cardinality(EmptyChunks') <= options.spare \/ call'.op = "grow"
<1>1. PoolInv /\ PoolInv' /\ [Next]_vars => [Bounded]_vars
  <2> SUFFICES ASSUME PoolInv, PoolInv', Next PROVE Bounded
    BY Zenon
  <2>0. PoolFacts /\ Scalars /\ PoolFacts'
    BY Zenon DEF PoolInv
  <2>1. EmptyChunks = Empty(chunks) /\ EmptyChunks' = Empty(chunks')
    BY Zenon DEF EmptyChunks, Empty
  <2>2. Cardinality(Empty(chunks)) \in Nat /\ Cardinality(Empty(chunks')) \in Nat
    BY <2>0, EmptyFinite, Zenon DEF PoolFacts
  <2>3. ASSUME chunks' = chunks PROVE Fewer
    BY <2>2, <2>3 DEF Fewer
  <2>4. CASE AllocateFails \/ AllocateFallsBack
    <3>1. Fewer
      BY <2>3, <2>4, Zenon DEF AllocateFails, AllocateFallsBack
    <3> QED BY <2>1, <2>2, <3>1 DEF Fewer
  <2>5. CASE Grow
    BY <2>5, Zenon DEF Grow, Ends
  <2>6. CASE Destroy
    <3>1. Empty(chunks') = {}
      BY <2>6 DEF Destroy, Empty
    <3>2. Fewer
      BY <2>2, <3>1, FS_EmptySet DEF Fewer
    <3> QED BY <2>1, <2>2, <3>2 DEF Fewer
  <2>7. CASE Allocate \/ AllocateGrows
    <3>1. Fewer
      BY <2>0, <2>7, AllocateFewer, AllocateGrowsFewer, Zenon
    <3> QED BY <2>1, <2>2, <3>1 DEF Fewer
  <2>8. ASSUME NEW p \in Pointers, DeallocateBlock(p) \/ DeallocateFallback(p) \/ DeallocateRejected(p)
        PROVE  Bounded
    <3>1. Fewer \/ Cardinality(Empty(chunks')) <= options.spare
      BY <2>0, <2>3, <2>8, DeallocateFewer, Zenon DEF DeallocateFallback, DeallocateRejected
    <3> QED BY <2>1, <2>2, <3>1 DEF Fewer
  <2> QED BY <2>4, <2>5, <2>6, <2>7, <2>8, Zenon DEF Next
<1> QED BY <1>1, PoolInvHolds, PTL DEF Spec, EmptyChunksBounded

------------------------------------------------------------------------------
(***************************************************************************)
(* Registry.                                                               *)
(***************************************************************************)
LEMMA LifetimeInit == RegistryInit => LifetimeInvariant
  BY DEF RegistryInit, LifetimeInvariant, Referenced

\* Steps that leave the references alone.
LEMMA CallsKeepLifetimes ==
  ASSUME LifetimeInvariant, UNCHANGED <<freed, wrapper, flushing, locked, todo>>
  PROVE  LifetimeInvariant'
  BY DEF LifetimeInvariant, Referenced

LEMMA ConstructKeepsLifetimes ==
  ASSUME LifetimeInvariant, NEW a \in CachedAllocators, ConstructAllocator(a)
  PROVE  LifetimeInvariant'
  BY DEF LifetimeInvariant, ConstructAllocator, Referenced

LEMMA ReleaseKeepsLifetimes ==
  ASSUME LifetimeInvariant, NEW t \in CacheThreads, NEW a \in CachedAllocators, ReleaseCache(t, a)
  PROVE  LifetimeInvariant'
  BY RegistryAssumption DEF LifetimeInvariant, ReleaseCache, CanCall, lock, Referenced

LEMMA DestroyKeepsLifetimes ==
  ASSUME LifetimeInvariant, NEW t \in CacheThreads, NEW a \in CachedAllocators, DestroyAllocator(t, a)
  PROVE  LifetimeInvariant'
  BY RegistryAssumption DEF LifetimeInvariant, DestroyAllocator, CanCall, lock, Referenced

LEMMA FlushDoneKeepsLifetimes ==
  ASSUME LifetimeInvariant, NEW t \in CacheThreads, FlushDone(t)
  PROVE  LifetimeInvariant'
  BY RegistryAssumption DEF LifetimeInvariant, FlushDone, Flushed, DropReferences, Referenced

LEMMA ExitKeepsLifetimes ==
  ASSUME LifetimeInvariant, NEW t \in CacheThreads, Exit(t)
  PROVE  LifetimeInvariant'
  BY RegistryAssumption DEF LifetimeInvariant, Exit, Referenced

LEMMA ExitVisitKeepsLifetimes ==
  ASSUME LifetimeInvariant, NEW t \in CacheThreads, ExitVisit(t)
  PROVE  LifetimeInvariant'
  BY RegistryAssumption DEF LifetimeInvariant, ExitVisit, expired, lock, Referenced

LEMMA ExitDoneKeepsLifetimes ==
  ASSUME LifetimeInvariant, NEW t \in CacheThreads, ExitDone(t)
  PROVE  LifetimeInvariant'
  BY RegistryAssumption DEF LifetimeInvariant, ExitDone, AllVisited, DropReferences, Referenced

LEMMA NextKeepsLifetimes == LifetimeInvariant /\ [RegistryNext]_registryVars => LifetimeInvariant'
  <1> SUFFICES ASSUME LifetimeInvariant, [RegistryNext]_registryVars PROVE LifetimeInvariant'
    OBVIOUS
  <1>1. CASE UNCHANGED registryVars
    BY <1>1, CallsKeepLifetimes DEF registryVars
  <1>2. ASSUME NEW a \in CachedAllocators, ConstructAllocator(a) PROVE LifetimeInvariant'
    BY <1>2, ConstructKeepsLifetimes
  <1>3. ASSUME NEW t \in CacheThreads, NEW a \in CachedAllocators,
               AllocateBlock(t, a) \/ ReturnBlock(t, a) \/ CallFails(t, a) \/ ReleaseCache(t, a) \/ DestroyAllocator(t, a)
        PROVE  LifetimeInvariant'
    <2>1. CASE AllocateBlock(t, a) \/ ReturnBlock(t, a) \/ CallFails(t, a)
      BY <2>1, CallsKeepLifetimes DEF AllocateBlock, ReturnBlock, CallFails
    <2>2. QED
      BY <1>3, <2>1, ReleaseKeepsLifetimes, DestroyKeepsLifetimes
  <1>4. ASSUME NEW t \in CacheThreads, Exit(t) \/ Proceed(t) PROVE LifetimeInvariant'
    <2>1. CASE FlushBlock(t)
      BY <2>1, CallsKeepLifetimes DEF FlushBlock
    <2>2. QED
      BY <1>4, <2>1, ExitKeepsLifetimes, FlushDoneKeepsLifetimes, ExitVisitKeepsLifetimes, ExitDoneKeepsLifetimes DEF Proceed
  <1>5. QED
    BY <1>1, <1>2, <1>3, <1>4 DEF RegistryNext

\* Whoever flushes holds a reference, and what is referenced is not destroyed,
\* for any threads and allocators that come and go.
THEOREM LifetimeInvariantHolds == RegistrySpec => []LifetimeInvariant
  BY LifetimeInit, NextKeepsLifetimes, PTL DEF RegistrySpec

\* No thread, exiting or releasing or destroying an allocator, flushes its bins
\* into a state that is already destroyed.
THEOREM FlushesIntoLiveStateHolds == RegistrySpec => []FlushesIntoLiveState
  <1>1. LifetimeInvariant => FlushesIntoLiveState
    BY DEF LifetimeInvariant, FlushesIntoLiveState, Referenced
  <1>2. QED
    BY <1>1, LifetimeInvariantHolds, PTL

(* The sum over the threads of what they cache, and how one step changes   *)
(* it.                                                                     *)

\* The sum over the threads as MapThenSumSet computes it: one thread of the set,
\* then the rest.
Pick(s) == CHOOSE x \in s : TRUE
SumBody(g, f, s) == IF s = {} THEN 0 ELSE g[Pick(s)] + f[s \ {Pick(s)}]
SumUp(g) == CHOOSE f : f = [s \in SUBSET CacheThreads |-> SumBody(g, f, s)]
CachedBy(a) == [t \in CacheThreads |-> Cached(t, a)]
Total(a) == MapThenSumSet(LAMBDA t : Cached(t, a), CacheThreads)

LEMMA PickIn == \A s : s # {} => Pick(s) \in s
  BY Zenon DEF Pick

LEMMA TotalIsSum == \A a : Total(a) = SumUp(CachedBy(a))[CacheThreads]
<1> SUFFICES ASSUME NEW a PROVE Total(a) = SumUp(CachedBy(a))[CacheThreads]
  BY Zenon
<1> DEFINE Summed(f) == [s \in SUBSET CacheThreads |->
                           IF s = {} THEN 0 ELSE Cached(Pick(s), a) + f[s \ {Pick(s)}]]
           Mapped(f) == [s \in SUBSET CacheThreads |-> SumBody(CachedBy(a), f, s)]
<1>1. Total(a) = (CHOOSE f : f = Summed(f))[CacheThreads]
  BY Zenon DEF Total, MapThenSumSet, MapThenFoldSet, Pick
<1>2. ASSUME NEW f PROVE Summed(f) = Mapped(f)
  BY PickIn, Zenon DEF SumBody, CachedBy
<1>3. (CHOOSE f : f = Summed(f)) = (CHOOSE f : f = Mapped(f))
  <2> HIDE DEF Summed, Mapped
  <2> QED BY <1>2, Zenon
<1> QED BY <1>1, <1>3, Zenon DEF SumUp

LEMMA TotalIsSumNext == \A a : Total(a)' = SumUp(CachedBy(a)')[CacheThreads]
<1> SUFFICES ASSUME NEW a PROVE Total(a)' = SumUp(CachedBy(a)')[CacheThreads]
  BY Zenon
<1> DEFINE Summed(f) == [s \in SUBSET CacheThreads |->
                           IF s = {} THEN 0 ELSE Cached(Pick(s), a)' + f[s \ {Pick(s)}]]
           Mapped(f) == [s \in SUBSET CacheThreads |-> SumBody(CachedBy(a)', f, s)]
<1>1. Total(a)' = (CHOOSE f : f = Summed(f))[CacheThreads]
  BY Zenon DEF Total, MapThenSumSet, MapThenFoldSet, Pick
<1>2. ASSUME NEW f PROVE Summed(f) = Mapped(f)
  BY PickIn, Zenon DEF SumBody, CachedBy
<1>3. (CHOOSE f : f = Summed(f)) = (CHOOSE f : f = Mapped(f))
  <2> HIDE DEF Summed, Mapped
  <2> QED BY <1>2, Zenon
<1> QED BY <1>1, <1>3, Zenon DEF SumUp

Few(k) == {s \in SUBSET CacheThreads : Cardinality(s) <= k}

LEMMA FewFacts ==
  /\ \A s \in SUBSET CacheThreads : IsFiniteSet(s) /\ Cardinality(s) \in Nat
  /\ \A k \in Nat : \A s \in Few(k + 1) : s # {} => s \ {Pick(s)} \in Few(k)
  /\ \A k \in Nat : Few(k) \subseteq Few(k + 1)
  /\ Few(0) = {{}} /\ Few(Cardinality(CacheThreads)) = SUBSET CacheThreads
<1>1. \A s \in SUBSET CacheThreads : IsFiniteSet(s) /\ Cardinality(s) \in Nat
  BY RegistryAssumption, FS_Subset, FS_CardinalityType
<1>2. ASSUME NEW k \in Nat, NEW s \in Few(k + 1), s # {} PROVE s \ {Pick(s)} \in Few(k)
  <2>1. Pick(s) \in s /\ s \in SUBSET CacheThreads /\ IsFiniteSet(s) /\ Cardinality(s) \in Nat
    BY <1>1, <1>2, PickIn, Zenon DEF Few
  <2>2. Cardinality(s \ {Pick(s)}) = Cardinality(s) - 1
    BY <2>1, FS_RemoveElement, Zenon
  <2> QED BY <2>1, <2>2 DEF Few
<1>3. \A k \in Nat : Few(k) \subseteq Few(k + 1)
  BY <1>1 DEF Few
<1>4. Few(0) = {{}}
  <2>1. \A s \in SUBSET CacheThreads : Cardinality(s) <= 0 <=> s = {}
    <3> SUFFICES ASSUME NEW s \in SUBSET CacheThreads PROVE Cardinality(s) <= 0 <=> s = {}
      BY Zenon
    <3>1. IsFiniteSet(s) /\ Cardinality(s) \in Nat
      BY <1>1, Zenon
    <3>2. Cardinality(s) = 0 <=> s = {}
      BY <3>1, FS_EmptySet, Zenon
    <3> QED BY <3>1, <3>2
  <2> QED BY <2>1, Zenon DEF Few
<1>5. Few(Cardinality(CacheThreads)) = SUBSET CacheThreads
  <2>1. \A s \in SUBSET CacheThreads : Cardinality(s) <= Cardinality(CacheThreads)
    BY RegistryAssumption, FS_Subset
  <2> QED BY <2>1, Zenon DEF Few
<1> QED BY <1>1, <1>2, <1>3, <1>4, <1>5, Zenon

\* The recursion is well-founded on finite sets, so the sum satisfies it.
LEMMA SumEquation ==
  ASSUME NEW g
  PROVE  \A s \in SUBSET CacheThreads : SumUp(g)[s] = SumBody(g, SumUp(g), s)
<1> DEFINE Def(f) == [s \in SUBSET CacheThreads |-> SumBody(g, f, s)]
           Sums(k, f) == f = [s \in Few(k) |-> SumBody(g, f, s)]
           S == {k \in Nat : \E f : Sums(k, f)}
<1>1. 0 \in S
  <2> DEFINE f == [s \in Few(0) |-> 0]
  <2>1. Sums(0, f)
    BY FewFacts, Zenon DEF SumBody
  <2> HIDE DEF Sums, f
  <2> QED BY <2>1, Zenon
<1>2. ASSUME NEW k \in Nat, k \in S PROVE k + 1 \in S
  <2>1. PICK f : Sums(k, f)
    BY <1>2, Zenon
  <2> DEFINE h == [s \in Few(k + 1) |-> IF s \in Few(k) THEN f[s] ELSE SumBody(g, f, s)]
  <2>2. \A s \in Few(k) : f[s] = SumBody(g, f, s) /\ h[s] = f[s]
    BY <2>1, FewFacts, Zenon
  <2>3. ASSUME NEW s \in Few(k + 1) PROVE SumBody(g, h, s) = SumBody(g, f, s)
    <3>1. s # {} => h[s \ {Pick(s)}] = f[s \ {Pick(s)}]
      <4> HIDE DEF h
      <4> QED BY <2>2, FewFacts, Zenon
    <3> HIDE DEF h
    <3> QED BY <3>1, Zenon DEF SumBody
  <2>4. ASSUME NEW s \in Few(k + 1) PROVE h[s] = SumBody(g, h, s)
    <3>1. h[s] = SumBody(g, f, s)
      BY <2>2, Zenon
    <3> HIDE DEF h
    <3> QED BY <2>3, <3>1, Zenon
  <2>5. h = [s \in Few(k + 1) |-> h[s]]
    BY Zenon
  <2>6. Sums(k + 1, h)
    <3> HIDE DEF h
    <3> QED BY <2>4, <2>5, Zenon
  <2> HIDE DEF Sums, h
  <2> QED BY <2>6
<1>3. Cardinality(CacheThreads) \in S
  <2> HIDE DEF S
  <2> QED BY <1>1, <1>2, FewFacts, NatSetInduction, Zenon
<1>4. \E f : f = Def(f)
  BY <1>3, FewFacts, Zenon
<1>5. SumUp(g) = Def(SumUp(g))
  <2>1. SumUp(g) = CHOOSE f : f = Def(f)
    BY Zenon DEF SumUp
  <2> HIDE DEF Def
  <2> QED BY <1>4, <2>1, Zenon
<1>6. ASSUME NEW s \in SUBSET CacheThreads, NEW f PROVE Def(f)[s] = SumBody(g, f, s)
  BY Zenon
<1> HIDE DEF Def
<1> QED BY <1>5, <1>6, Zenon

\* One thread's part of the sum changes, and the sum by as much.
LEMMA SumChanges ==
  ASSUME NEW g \in [CacheThreads -> Int], NEW h \in [CacheThreads -> Int], NEW t \in CacheThreads,
         \A u \in CacheThreads \ {t} : h[u] = g[u]
  PROVE  /\ SumUp(g)[CacheThreads] \in Int
         /\ SumUp(h)[CacheThreads] = SumUp(g)[CacheThreads] + (h[t] - g[t])
<1> DEFINE Part(s) == IF t \in s THEN h[t] - g[t] ELSE 0
           T == {k \in Nat : \A s \in Few(k) : /\ SumUp(g)[s] \in Int
                                              /\ SumUp(h)[s] = SumUp(g)[s] + Part(s)}
<1>1. 0 \in T
  <2>1. SumUp(g)[{}] = 0 /\ SumUp(h)[{}] = 0
    BY SumEquation, Zenon DEF SumBody
  <2>2. \A s \in Few(0) : s = {}
    BY FewFacts, Zenon
  <2>3. \A s \in Few(0) : SumUp(g)[s] = 0 /\ SumUp(h)[s] = 0 /\ Part(s) = 0
    BY <2>1, <2>2, Zenon
  <2> HIDE DEF Part
  <2> QED BY <2>3
<1>2. ASSUME NEW k \in Nat, k \in T PROVE k + 1 \in T
  <2> SUFFICES ASSUME NEW s \in Few(k + 1)
               PROVE  SumUp(g)[s] \in Int /\ SumUp(h)[s] = SumUp(g)[s] + Part(s)
    OBVIOUS
  <2>1. CASE s = {}
    <3>1. s \in Few(0)
      BY <2>1, FewFacts, Zenon
    <3> QED BY <3>1, <1>1, Zenon
  <2>2. CASE s # {}
    <3>1. PICK x, r : x = Pick(s) /\ r = s \ {x}
      BY Zenon
    <3>2. x \in s /\ x \in CacheThreads /\ s \in SUBSET CacheThreads /\ r \in Few(k)
      BY <2>2, <3>1, PickIn, FewFacts, Zenon DEF Few
    <3>3. SumUp(g)[s] = g[x] + SumUp(g)[r] /\ SumUp(h)[s] = h[x] + SumUp(h)[r]
      BY <2>2, <3>1, <3>2, SumEquation, Zenon DEF SumBody
    <3>4. SumUp(g)[r] \in Int /\ SumUp(h)[r] = SumUp(g)[r] + Part(r)
      BY <1>2, <3>2, Zenon
    <3>5. CASE x = t
      <4>1. t \in s /\ t \notin r
        BY <3>1, <3>2, <3>5, Zenon
      <4> QED BY <3>3, <3>4, <3>5, <4>1
    <3>6. CASE x # t
      <4>1. h[x] = g[x] /\ (t \in s <=> t \in r)
        BY <3>1, <3>2, <3>6, Zenon
      <4> QED BY <3>2, <3>3, <3>4, <4>1
    <3> QED BY <3>5, <3>6, Zenon
  <2> QED BY <2>1, <2>2, Zenon
<1>3. Nat \subseteq T
  <2> HIDE DEF T
  <2> QED BY <1>1, <1>2, NatSetInduction, Zenon
<1>4. Cardinality(CacheThreads) \in T /\ CacheThreads \in Few(Cardinality(CacheThreads))
  <2>1. CacheThreads \in SUBSET CacheThreads
    BY Zenon
  <2> HIDE DEF T
  <2> QED BY <1>3, <2>1, FewFacts, Zenon
<1> QED BY <1>4, Zenon

\* Nothing cached anywhere adds up to nothing.
LEMMA SumOfNothing ==
  ASSUME NEW g, \A t \in CacheThreads : g[t] = 0
  PROVE  SumUp(g)[CacheThreads] = 0
<1> DEFINE T == {k \in Nat : \A s \in Few(k) : SumUp(g)[s] = 0}
<1>1. 0 \in T
  BY SumEquation, FewFacts, Zenon DEF SumBody
<1>2. ASSUME NEW k \in Nat, k \in T PROVE k + 1 \in T
  <2> SUFFICES ASSUME NEW s \in Few(k + 1) PROVE SumUp(g)[s] = 0
    OBVIOUS
  <2>1. s \in SUBSET CacheThreads
    BY Zenon DEF Few
  <2>2. CASE s = {}
    BY <2>1, <2>2, SumEquation, Zenon DEF SumBody
  <2>3. CASE s # {}
    <3>1. Pick(s) \in CacheThreads /\ s \ {Pick(s)} \in Few(k)
      BY <2>1, <2>3, PickIn, FewFacts, Zenon
    <3>2. SumUp(g)[s] = g[Pick(s)] + SumUp(g)[s \ {Pick(s)}]
      BY <2>1, <2>3, SumEquation, Zenon DEF SumBody
    <3>3. g[Pick(s)] = 0 /\ SumUp(g)[s \ {Pick(s)}] = 0
      BY <1>2, <3>1, Zenon
    <3> QED BY <3>2, <3>3
  <2> QED BY <2>2, <2>3, Zenon
<1>3. Nat \subseteq T
  <2> HIDE DEF T
  <2> QED BY <1>1, <1>2, NatSetInduction, Zenon
<1> QED BY <1>3, FewFacts, Zenon

\* A step that changes the bins of one thread.
LEMMA TotalChanges ==
  ASSUME NEW t \in CacheThreads, NEW a \in CachedAllocators,
         caches \in [CacheThreads -> [CachedAllocators -> Nat \cup {Absent}]],
         caches' \in [CacheThreads -> [CachedAllocators -> Nat \cup {Absent}]],
         \A u \in CacheThreads \ {t} : caches'[u][a] = caches[u][a]
  PROVE  /\ Total(a) \in Int /\ Cached(t, a) \in Nat /\ Cached(t, a)' \in Nat
         /\ Total(a)' = Total(a) + (Cached(t, a)' - Cached(t, a))
<1>1. \A u \in CacheThreads : Cached(u, a) \in Nat /\ Cached(u, a)' \in Nat
  BY DEF Cached
<1>2. \A u \in CacheThreads \ {t} : Cached(u, a)' = Cached(u, a)
  BY Zenon DEF Cached
<1> DEFINE g == CachedBy(a)
           h == CachedBy(a)'
<1>3. g \in [CacheThreads -> Int] /\ h \in [CacheThreads -> Int]
  BY <1>1 DEF CachedBy
<1>4. \A u \in CacheThreads : g[u] = Cached(u, a) /\ h[u] = Cached(u, a)'
  BY Zenon DEF CachedBy
<1>5. Total(a) = SumUp(g)[CacheThreads] /\ Total(a)' = SumUp(h)[CacheThreads]
  BY TotalIsSum, TotalIsSumNext, Zenon
<1>6. PICK g1, h1 : g1 = g /\ h1 = h
  BY Zenon
<1> HIDE DEF g, h
<1>7. /\ SumUp(g1)[CacheThreads] \in Int
      /\ SumUp(h1)[CacheThreads] = SumUp(g1)[CacheThreads] + (h1[t] - g1[t])
  <2>1. g1 \in [CacheThreads -> Int] /\ h1 \in [CacheThreads -> Int] /\ \A u \in CacheThreads \ {t} : h1[u] = g1[u]
    BY <1>2, <1>3, <1>4, <1>6, Zenon
  <2> QED BY <2>1, SumChanges, Zenon
<1> QED BY <1>1, <1>4, <1>5, <1>6, <1>7, Zenon

LEMMA TotalStays ==
  ASSUME NEW a, caches' = caches PROVE Total(a)' = Total(a)
<1>1. CachedBy(a)' = CachedBy(a)
  BY Zenon DEF CachedBy, Cached
<1> QED BY <1>1, TotalIsSum, TotalIsSumNext, Zenon

Entry(n) == IF n = Absent THEN 0 ELSE n
Balanced == \A a \in CachedAllocators \ freed : central[a] = inUse[a] + Total(a)
LeaversEmpty == \A t \in CacheThreads : \A a \in CachedAllocators \ freed :
    /\ op[t] = "exited" => Cached(t, a) = 0
    /\ op[t] = "exit" /\ a \notin todo[t] => Cached(t, a) = 0
StorageTypes ==
    /\ central \in [CachedAllocators -> Int] /\ inUse \in [CachedAllocators -> Int]
    /\ caches \in [CacheThreads -> [CachedAllocators -> Nat \cup {Absent}]]
    /\ op \in [CacheThreads -> {"idle", "release", "destroy", "exit", "exited"}]

LEMMA StorageParts == StorageInvariant <=> StorageTypes /\ Balanced /\ LeaversEmpty
  BY Zenon DEF StorageInvariant, StorageTypes, Balanced, LeaversEmpty, NoBlockStranded, Total

\* A thread's bins of one allocator change, together with what is taken from
\* central storage and with what callers hold.
LEMMA EntryChanges ==
  ASSUME StorageInvariant, NEW t \in CacheThreads, NEW a \in CachedAllocators, NEW n \in Nat \cup {Absent},
         Cache(t, a, n), freed \subseteq freed',
         central' \in [CachedAllocators -> Int], inUse' \in [CachedAllocators -> Int],
         \A b \in CachedAllocators \ {a} : central'[b] = central[b] /\ inUse'[b] = inUse[b],
         a \notin freed => central'[a] - inUse'[a] - Entry(n) = central[a] - inUse[a] - Cached(t, a)
  PROVE  /\ caches' \in [CacheThreads -> [CachedAllocators -> Nat \cup {Absent}]] /\ Balanced'
         /\ Cached(t, a)' = Entry(n)
         /\ \A u \in CacheThreads, b \in CachedAllocators : u # t \/ b # a => Cached(u, b)' = Cached(u, b)
<1>1. StorageTypes /\ Balanced
  BY StorageParts, Zenon
<1>2. /\ caches' \in [CacheThreads -> [CachedAllocators -> Nat \cup {Absent}]]
      /\ caches'[t][a] = n
      /\ \A u \in CacheThreads, b \in CachedAllocators : u # t \/ b # a => caches'[u][b] = caches[u][b]
  BY <1>1, Zenon DEF StorageTypes, Cache
<1>3. Cached(t, a)' = Entry(n)
  BY <1>2, Zenon DEF Cached, Entry
<1>4. \A u \in CacheThreads, b \in CachedAllocators : u # t \/ b # a => Cached(u, b)' = Cached(u, b)
  BY <1>2, Zenon DEF Cached
<1>5. ASSUME NEW b \in CachedAllocators \ freed' PROVE central'[b] = inUse'[b] + Total(b)'
  <2>1. /\ Total(b) \in Int /\ Cached(t, b) \in Nat /\ Cached(t, b)' \in Nat
        /\ Total(b)' = Total(b) + (Cached(t, b)' - Cached(t, b))
    <3>1. \A u \in CacheThreads \ {t} : caches'[u][b] = caches[u][b]
      BY <1>2, Zenon
    <3> QED BY <1>1, <1>2, <3>1, TotalChanges, Zenon DEF StorageTypes
  <2>2. b \in CachedAllocators \ freed
    BY Zenon
  <2>3. central[b] = inUse[b] + Total(b)
    BY <1>1, <2>2, Zenon DEF Balanced
  <2>4. central[b] \in Int /\ inUse[b] \in Int /\ central'[b] \in Int /\ inUse'[b] \in Int
    BY <1>1, Zenon DEF StorageTypes
  <2>5. CASE b = a
    <3>1. central'[b] - inUse'[b] - Cached(t, b)' = central[b] - inUse[b] - Cached(t, b)
      BY <1>3, <2>2, <2>5, Zenon
    <3> QED BY <2>1, <2>3, <2>4, <3>1
  <2>6. CASE b # a
    <3>1. central'[b] = central[b] /\ inUse'[b] = inUse[b] /\ Cached(t, b)' = Cached(t, b)
      BY <1>4, <2>6, Zenon
    <3> QED BY <2>1, <2>3, <2>4, <3>1
  <2> QED BY <2>5, <2>6, Zenon
<1>6. Balanced'
  BY <1>5, Zenon DEF Balanced
<1> QED BY <1>2, <1>3, <1>4, <1>6, Zenon

\* A step that leaves the bins alone.
LEMMA EntriesStay ==
  ASSUME StorageInvariant, UNCHANGED <<central, inUse, caches>>, freed \subseteq freed'
  PROVE  Balanced' /\ \A u, b : Cached(u, b)' = Cached(u, b)
<1>1. \A b : Total(b)' = Total(b)
  BY TotalStays, Zenon
<1> QED BY <1>1, StorageParts, Zenon DEF Balanced, Cached

\* A call of a running thread.
LEMMA CallKeepsStorage ==
  ASSUME LifetimeInvariant, StorageInvariant, NEW t \in CacheThreads, NEW a \in CachedAllocators, NEW n \in Nat,
         CanCall(t, a), Cache(t, a, n), UNCHANGED <<freed, op, todo>>,
         central' \in [CachedAllocators -> Int], inUse' \in [CachedAllocators -> Int],
         \A b \in CachedAllocators \ {a} : central'[b] = central[b] /\ inUse'[b] = inUse[b],
         central'[a] - inUse'[a] - n = central[a] - inUse[a] - Cached(t, a)
  PROVE  StorageInvariant'
<1>1. n # Absent
  BY DEF Absent
<1>2. /\ caches' \in [CacheThreads -> [CachedAllocators -> Nat \cup {Absent}]] /\ Balanced'
      /\ \A u \in CacheThreads, b \in CachedAllocators : u # t \/ b # a => Cached(u, b)' = Cached(u, b)
  <2>1. n \in Nat \cup {Absent} /\ freed \subseteq freed' /\ Entry(n) = n
    BY <1>1, Zenon DEF Entry
  <2> QED BY <2>1, EntryChanges, Zenon
<1>3. op[t] = "idle" /\ op' = op /\ todo' = todo /\ freed' = freed
  BY Zenon DEF CanCall
<1>4. LeaversEmpty'
  <2> SUFFICES ASSUME NEW u \in CacheThreads, NEW b \in CachedAllocators \ freed'
               PROVE  /\ op'[u] = "exited" => Cached(u, b)' = 0
                      /\ op'[u] = "exit" /\ b \notin todo'[u] => Cached(u, b)' = 0
    BY Zenon DEF LeaversEmpty
  <2>1. CASE u = t
    BY <1>3, <2>1
  <2>2. CASE u # t
    <3>1. Cached(u, b)' = Cached(u, b) /\ b \in CachedAllocators \ freed
      BY <1>2, <1>3, <2>2, Zenon
    <3> QED BY <1>3, <3>1, StorageParts, Zenon DEF LeaversEmpty
  <2> QED BY <2>1, <2>2, Zenon
<1>5. StorageTypes'
  BY <1>2, <1>3, StorageParts, Zenon DEF StorageTypes
<1>6. StorageInvariant' <=> StorageTypes' /\ Balanced' /\ LeaversEmpty'
  BY Zenon DEF StorageInvariant, StorageTypes, Balanced, LeaversEmpty, NoBlockStranded, Total
<1> QED BY <1>2, <1>4, <1>5, <1>6, Zenon

\* What get() finds is what is cached, as long as the allocator can be called.
LEMMA GetIsCached ==
  ASSUME LifetimeInvariant, StorageInvariant, NEW t \in CacheThreads, NEW a \in CachedAllocators, CanCall(t, a)
  PROVE  /\ get(t, a) = Cached(t, a) /\ get(t, a) \in Nat /\ a \notin freed
         /\ central[a] \in Int /\ inUse[a] \in Int
<1>1. a \notin freed
  BY DEF CanCall, LifetimeInvariant
<1>2. get(t, a) = Cached(t, a)
  BY <1>1, Zenon DEF get, Cached, expired
<1>3. caches[t][a] \in Nat \cup {Absent} /\ central[a] \in Int /\ inUse[a] \in Int
  BY StorageParts, Zenon DEF StorageTypes
<1> QED BY <1>1, <1>2, <1>3 DEF Cached

LEMMA AllocateKeepsStorage ==
  ASSUME LifetimeInvariant, StorageInvariant, NEW t \in CacheThreads, NEW a \in CachedAllocators, AllocateBlock(t, a)
  PROVE  StorageInvariant'
<1>1. StorageTypes /\ CanCall(t, a) /\ UNCHANGED <<freed, op, todo>>
  BY StorageParts, Zenon DEF AllocateBlock
<1>2. /\ get(t, a) = Cached(t, a) /\ get(t, a) \in Nat /\ central[a] \in Int /\ inUse[a] \in Int
  BY <1>1, GetIsCached, Zenon
<1>3. /\ inUse' \in [CachedAllocators -> Int] /\ inUse'[a] = inUse[a] + 1
      /\ \A b \in CachedAllocators \ {a} : inUse'[b] = inUse[b]
  BY <1>1, <1>2 DEF AllocateBlock, StorageTypes
<1>4. CASE get(t, a) > 0 /\ Cache(t, a, get(t, a) - 1) /\ UNCHANGED central
  <2>1. PICK n : n = get(t, a) - 1
    BY Zenon
  <2>2. n \in Nat /\ central'[a] - inUse'[a] - n = central[a] - inUse[a] - Cached(t, a)
    BY <1>2, <1>3, <1>4, <2>1
  <2>3. Cache(t, a, n) /\ central' \in [CachedAllocators -> Int] /\ central' = central
    BY <1>1, <1>4, <2>1, Zenon DEF StorageTypes
  <2> QED BY <1>1, <1>3, <2>2, <2>3, CallKeepsStorage, Zenon
<1>5. ASSUME NEW k \in 1 .. Batch, get(t, a) = 0, central' = [central EXCEPT ![a] = @ + k], Cache(t, a, k - 1)
      PROVE  StorageInvariant'
  <2>1. PICK n : n = k - 1
    BY Zenon
  <2>2. k \in Nat /\ n \in Nat
    BY <1>5, <2>1, RegistryAssumption
  <2>3. /\ central' \in [CachedAllocators -> Int] /\ central'[a] = central[a] + k
        /\ \A b \in CachedAllocators \ {a} : central'[b] = central[b]
    BY <1>1, <1>2, <1>5, <2>2 DEF StorageTypes
  <2>4. central'[a] - inUse'[a] - n = central[a] - inUse[a] - Cached(t, a)
    BY <1>2, <1>3, <1>5, <2>1, <2>2, <2>3
  <2>5. Cache(t, a, n)
    BY <1>5, <2>1, Zenon
  <2> QED BY <1>1, <1>3, <2>2, <2>3, <2>4, <2>5, CallKeepsStorage, Zenon
<1> QED BY <1>4, <1>5, Zenon DEF AllocateBlock

LEMMA DeallocateKeepsStorage ==
  ASSUME LifetimeInvariant, StorageInvariant, NEW t \in CacheThreads, NEW a \in CachedAllocators, ReturnBlock(t, a)
  PROVE  StorageInvariant'
<1>1. StorageTypes /\ CanCall(t, a) /\ UNCHANGED <<freed, op, todo>>
  BY StorageParts, Zenon DEF ReturnBlock
<1>2. /\ get(t, a) = Cached(t, a) /\ get(t, a) \in Nat /\ central[a] \in Int /\ inUse[a] \in Int
  BY <1>1, GetIsCached, Zenon
<1>3. /\ inUse' \in [CachedAllocators -> Int] /\ inUse'[a] = inUse[a] - 1
      /\ \A b \in CachedAllocators \ {a} : inUse'[b] = inUse[b]
  BY <1>1, <1>2 DEF ReturnBlock, StorageTypes
<1>4. PICK n \in {get(t, a), AfterPush(get(t, a))} :
        Cache(t, a, n) /\ central' = [central EXCEPT ![a] = @ - (get(t, a) + 1 - n)]
  BY Zenon DEF ReturnBlock
<1>5. n \in Nat
  BY <1>2, <1>4, RegistryAssumption DEF AfterPush
<1>6. PICK k \in Int : k = get(t, a) + 1 - n
  BY <1>2, <1>5
<1>7. /\ central' \in [CachedAllocators -> Int] /\ central'[a] = central[a] - k
      /\ \A b \in CachedAllocators \ {a} : central'[b] = central[b]
  BY <1>1, <1>2, <1>4, <1>6 DEF StorageTypes
<1>8. central'[a] - inUse'[a] - n = central[a] - inUse[a] - Cached(t, a)
  BY <1>2, <1>3, <1>5, <1>6, <1>7
<1> QED BY <1>1, <1>3, <1>4, <1>5, <1>7, <1>8, CallKeepsStorage, Zenon

LEMMA CallFailsKeepsStorage ==
  ASSUME LifetimeInvariant, StorageInvariant, NEW t \in CacheThreads, NEW a \in CachedAllocators, CallFails(t, a)
  PROVE  StorageInvariant'
<1>1. StorageTypes /\ CanCall(t, a) /\ UNCHANGED <<freed, op, todo, central, inUse>>
  BY StorageParts, Zenon DEF CallFails, blocks
<1>2. PICK n : n = get(t, a)
  BY Zenon
<1>3. n \in Nat /\ n = Cached(t, a) /\ Cache(t, a, n)
  BY <1>1, <1>2, GetIsCached, Zenon DEF CallFails
<1> QED BY <1>1, <1>3, CallKeepsStorage, Zenon DEF StorageTypes

LEMMA StorageNext ==
  StorageInvariant' <=> StorageTypes' /\ Balanced' /\ LeaversEmpty'
  BY Zenon DEF StorageInvariant, StorageTypes, Balanced, LeaversEmpty, NoBlockStranded, Total

\* A thread that flushes works on an allocator whose state exists.
LEMMA FlushingFacts ==
  ASSUME LifetimeInvariant, NEW t \in CacheThreads, flushing[t] # None
  PROVE  flushing[t] \in CachedAllocators /\ flushing[t] \notin freed
  BY DEF LifetimeInvariant, Referenced

LEMMA FlushBlockKeepsStorage ==
  ASSUME LifetimeInvariant, StorageInvariant, NEW t \in CacheThreads, FlushBlock(t)
  PROVE  StorageInvariant'
<1>1. PICK a : a = flushing[t]
  BY Zenon
<1>2. /\ a \in CachedAllocators /\ a \notin freed /\ caches[t][a] > 0 /\ Cache(t, a, caches[t][a] - 1)
      /\ central' = [central EXCEPT ![a] = @ - 1] /\ UNCHANGED <<freed, inUse, op, todo>>
  BY <1>1, FlushingFacts, Zenon DEF FlushBlock
<1>3. StorageTypes /\ Balanced /\ LeaversEmpty
  BY StorageParts, Zenon
<1>4. PICK n : n = caches[t][a] - 1
  BY Zenon
<1>5. caches[t][a] \in Nat \cup {Absent} /\ central[a] \in Int /\ inUse[a] \in Int
  BY <1>2, <1>3, Zenon DEF StorageTypes
<1>6. n \in Nat /\ Cached(t, a) = n + 1 /\ Entry(n) = n
  BY <1>2, <1>4, <1>5 DEF Cached, Entry, Absent
<1>7. /\ central' \in [CachedAllocators -> Int] /\ central'[a] = central[a] - 1
      /\ \A b \in CachedAllocators \ {a} : central'[b] = central[b]
  BY <1>2, <1>3, <1>5 DEF StorageTypes
<1>8. central'[a] - inUse'[a] - Entry(n) = central[a] - inUse[a] - Cached(t, a)
  BY <1>2, <1>5, <1>6, <1>7
<1>9. /\ caches' \in [CacheThreads -> [CachedAllocators -> Nat \cup {Absent}]] /\ Balanced'
      /\ \A u \in CacheThreads, b \in CachedAllocators : u # t \/ b # a => Cached(u, b)' = Cached(u, b)
  <2>1. /\ n \in Nat \cup {Absent} /\ Cache(t, a, n) /\ freed \subseteq freed'
        /\ inUse' \in [CachedAllocators -> Int] /\ \A b \in CachedAllocators \ {a} : inUse'[b] = inUse[b]
    BY <1>2, <1>3, <1>4, <1>6, Zenon DEF StorageTypes
  <2> QED BY <1>2, <1>7, <1>8, <2>1, EntryChanges, Zenon
<1>10. LeaversEmpty'
  <2> SUFFICES ASSUME NEW u \in CacheThreads, NEW b \in CachedAllocators \ freed'
               PROVE  /\ op'[u] = "exited" => Cached(u, b)' = 0
                      /\ op'[u] = "exit" /\ b \notin todo'[u] => Cached(u, b)' = 0
    BY Zenon DEF LeaversEmpty
  <2>1. b \in CachedAllocators \ freed /\ op' = op /\ todo' = todo
    BY <1>2, Zenon
  <2>2. CASE u # t \/ b # a
    BY <1>3, <1>9, <2>1, <2>2, Zenon DEF LeaversEmpty
  <2>3. CASE u = t /\ b = a
    <3>1. Cached(u, b) # 0
      BY <1>6, <2>3
    <3> QED BY <1>3, <2>1, <3>1, Zenon DEF LeaversEmpty
  <2> QED BY <2>2, <2>3, Zenon
<1>11. StorageTypes'
  BY <1>2, <1>3, <1>7, <1>9, Zenon DEF StorageTypes
<1> QED BY <1>9, <1>10, <1>11, StorageNext, Zenon

\* The steps that change no bins, and let a thread leave only what is empty.
LEMMA QuietKeepsStorage ==
  ASSUME StorageInvariant, UNCHANGED <<central, inUse, caches>>, freed \subseteq freed',
         op' \in [CacheThreads -> {"idle", "release", "destroy", "exit", "exited"}],
         \A t \in CacheThreads : \A a \in CachedAllocators \ freed' :
            \/ op'[t] \notin {"exit", "exited"}
            \/ op'[t] = op[t] /\ todo[t] \subseteq todo'[t]
            \/ op'[t] = "exit" /\ (a \in todo'[t] \/ Cached(t, a) = 0)
  PROVE  StorageInvariant'
<1>1. StorageTypes /\ Balanced /\ LeaversEmpty
  BY StorageParts, Zenon
<1>2. Balanced' /\ \A u, b : Cached(u, b)' = Cached(u, b)
  BY EntriesStay, Zenon
<1>3. StorageTypes'
  BY <1>1, Zenon DEF StorageTypes
<1>4. LeaversEmpty'
  <2> SUFFICES ASSUME NEW u \in CacheThreads, NEW b \in CachedAllocators \ freed'
               PROVE  /\ op'[u] = "exited" => Cached(u, b)' = 0
                      /\ op'[u] = "exit" /\ b \notin todo'[u] => Cached(u, b)' = 0
    BY Zenon DEF LeaversEmpty
  <2>1. b \in CachedAllocators \ freed /\ Cached(u, b)' = Cached(u, b)
    BY <1>2, Zenon
  <2>2. CASE op'[u] \notin {"exit", "exited"}
    BY <2>2, Zenon
  <2>3. CASE op'[u] = op[u] /\ todo[u] \subseteq todo'[u]
    BY <1>1, <2>1, <2>3, Zenon DEF LeaversEmpty
  <2>4. CASE op'[u] = "exit" /\ (b \in todo'[u] \/ Cached(u, b) = 0)
    BY <2>1, <2>4
  <2> QED BY <2>2, <2>3, <2>4, Zenon
<1> QED BY <1>2, <1>3, <1>4, StorageNext, Zenon

LEMMA ReleaseKeepsStorage ==
  ASSUME LifetimeInvariant, StorageInvariant, NEW t \in CacheThreads, NEW a \in CachedAllocators,
         ReleaseCache(t, a) \/ DestroyAllocator(t, a)
  PROVE  StorageInvariant'
<1>1. PICK step \in {"release", "destroy"} : op' = [op EXCEPT ![t] = step] /\ UNCHANGED <<central, inUse, caches, freed, todo>>
  BY Zenon DEF ReleaseCache, DestroyAllocator, blocks
<1>2. op \in [CacheThreads -> {"idle", "release", "destroy", "exit", "exited"}]
  BY StorageParts, Zenon DEF StorageTypes
<1>3. /\ op' \in [CacheThreads -> {"idle", "release", "destroy", "exit", "exited"}]
      /\ \A u \in CacheThreads : op'[u] \in {"release", "destroy"} \/ op'[u] = op[u]
  BY <1>1, <1>2, Zenon
<1>4. \A u \in CacheThreads : op'[u] \notin {"exit", "exited"} \/ (op'[u] = op[u] /\ todo[u] \subseteq todo'[u])
  BY <1>1, <1>3
<1> QED BY <1>1, <1>3, <1>4, QuietKeepsStorage, Zenon

LEMMA ExitKeepsStorage ==
  ASSUME LifetimeInvariant, StorageInvariant, NEW t \in CacheThreads, Exit(t)
  PROVE  StorageInvariant'
<1>1. /\ op' = [op EXCEPT ![t] = "exit"] /\ UNCHANGED <<central, inUse, caches, freed>>
      /\ todo' = [todo EXCEPT ![t] = {a \in CachedAllocators : caches[t][a] # Absent}]
  BY Zenon DEF Exit, blocks
<1>2. /\ op \in [CacheThreads -> {"idle", "release", "destroy", "exit", "exited"}]
      /\ todo \in [CacheThreads -> SUBSET CachedAllocators]
  BY StorageParts, Zenon DEF StorageTypes, LifetimeInvariant
<1>3. /\ op' \in [CacheThreads -> {"idle", "release", "destroy", "exit", "exited"}]
      /\ \A u \in CacheThreads \ {t} : op'[u] = op[u] /\ todo'[u] = todo[u]
      /\ op'[t] = "exit" /\ \A a \in CachedAllocators : a \in todo'[t] \/ Cached(t, a) = 0
  BY <1>1, <1>2, Zenon DEF Cached
<1>4. ASSUME NEW u \in CacheThreads, NEW a \in CachedAllocators \ freed'
      PROVE  \/ op'[u] = op[u] /\ todo[u] \subseteq todo'[u]
             \/ op'[u] = "exit" /\ (a \in todo'[u] \/ Cached(u, a) = 0)
  BY <1>3, Zenon
<1> QED BY <1>1, <1>3, <1>4, QuietKeepsStorage, Zenon

LEMMA ExitVisitKeepsStorage ==
  ASSUME LifetimeInvariant, StorageInvariant, NEW t \in CacheThreads, ExitVisit(t)
  PROVE  StorageInvariant'
<1>1. UNCHANGED <<central, inUse, caches, freed, op>>
  BY Zenon DEF ExitVisit, blocks
<1>2. op' \in [CacheThreads -> {"idle", "release", "destroy", "exit", "exited"}] /\ LeaversEmpty
  BY <1>1, StorageParts, Zenon DEF StorageTypes
<1>3. todo \in [CacheThreads -> SUBSET CachedAllocators]
  BY Zenon DEF LifetimeInvariant
<1>4. PICK a \in todo[t] : \/ a \in freed /\ todo' = [todo EXCEPT ![t] = @ \ {a}]
                           \/ todo' = todo
  BY Zenon DEF ExitVisit, expired
<1>5. ASSUME NEW u \in CacheThreads, NEW b \in CachedAllocators \ freed', b \notin todo'[u]
      PROVE  b \notin todo[u]
  BY <1>1, <1>3, <1>4, <1>5, Zenon
<1>6. op[t] = "exit" /\ \A u \in CacheThreads \ {t} : todo'[u] = todo[u]
  BY <1>3, <1>4, Zenon DEF ExitVisit
<1>7. ASSUME NEW u \in CacheThreads, NEW b \in CachedAllocators \ freed'
      PROVE  \/ op'[u] = op[u] /\ todo[u] \subseteq todo'[u]
             \/ op'[u] = "exit" /\ (b \in todo'[u] \/ Cached(u, b) = 0)
  BY <1>1, <1>2, <1>5, <1>6, Zenon DEF LeaversEmpty
<1> QED BY <1>1, <1>2, <1>7, QuietKeepsStorage, Zenon

LEMMA FlushDoneKeepsStorage ==
  ASSUME LifetimeInvariant, StorageInvariant, NEW t \in CacheThreads, FlushDone(t)
  PROVE  StorageInvariant'
<1>1. PICK a : a = flushing[t]
  BY Zenon
<1>2. /\ a \in CachedAllocators /\ caches[t][a] \in {Absent, 0} /\ todo' = [todo EXCEPT ![t] = @ \ {a}]
      /\ UNCHANGED <<central, inUse>> /\ freed \subseteq freed'
  BY <1>1, FlushingFacts, Zenon DEF FlushDone, Flushed, DropReferences, blocks
<1>3. StorageTypes /\ Balanced /\ LeaversEmpty /\ todo \in [CacheThreads -> SUBSET CachedAllocators]
  BY StorageParts, Zenon DEF LifetimeInvariant
<1>4. Cached(t, a) = 0
  BY <1>2, Zenon DEF Cached
<1>5. /\ todo' \in [CacheThreads -> SUBSET CachedAllocators]
      /\ \A u \in CacheThreads, b \in CachedAllocators : b \notin todo'[u] => b \notin todo[u] \/ (u = t /\ b = a)
      /\ \A u \in CacheThreads \ {t} : todo'[u] = todo[u]
  BY <1>2, <1>3, Zenon
<1>6. CASE op[t] = "exit"
  <2>1. caches' = caches /\ op' = op
    BY <1>6, Zenon DEF FlushDone
  <2>2. ASSUME NEW u \in CacheThreads, NEW b \in CachedAllocators \ freed'
        PROVE  \/ op'[u] = op[u] /\ todo[u] \subseteq todo'[u]
               \/ op'[u] = "exit" /\ (b \in todo'[u] \/ Cached(u, b) = 0)
    <3>1. CASE u = t
      <4>1. b \in todo'[u] \/ Cached(u, b) = 0
        BY <1>2, <1>3, <1>4, <1>5, <1>6, <3>1, Zenon DEF LeaversEmpty
      <4> QED BY <1>6, <2>1, <3>1, <4>1, Zenon
    <3>2. CASE u # t
      BY <1>5, <2>1, <3>2, Zenon
    <3> QED BY <3>1, <3>2, Zenon
  <2> QED BY <1>2, <1>3, <2>1, <2>2, QuietKeepsStorage, Zenon DEF StorageTypes
<1>7. CASE op[t] # "exit"
  <2>1. Cache(t, a, Absent) /\ op' = [op EXCEPT ![t] = "idle"]
    BY <1>1, <1>7, Zenon DEF FlushDone
  <2>2. /\ caches' \in [CacheThreads -> [CachedAllocators -> Nat \cup {Absent}]] /\ Balanced'
        /\ Cached(t, a)' = Entry(Absent)
        /\ \A u \in CacheThreads, b \in CachedAllocators : u # t \/ b # a => Cached(u, b)' = Cached(u, b)
    <3>1. PICK n \in Nat \cup {Absent} : n = Absent
      BY Zenon
    <3>2. central'[a] - inUse'[a] - Entry(n) = central[a] - inUse[a] - Cached(t, a)
      BY <1>2, <1>4, <3>1, Zenon DEF Entry
    <3>3. /\ Cache(t, a, n) /\ central' \in [CachedAllocators -> Int] /\ inUse' \in [CachedAllocators -> Int]
          /\ \A b \in CachedAllocators \ {a} : central'[b] = central[b] /\ inUse'[b] = inUse[b]
      BY <1>2, <1>3, <2>1, <3>1, Zenon DEF StorageTypes
    <3>4. /\ caches' \in [CacheThreads -> [CachedAllocators -> Nat \cup {Absent}]] /\ Balanced'
          /\ Cached(t, a)' = Entry(n)
          /\ \A u \in CacheThreads, b \in CachedAllocators : u # t \/ b # a => Cached(u, b)' = Cached(u, b)
      BY <1>2, <3>2, <3>3, EntryChanges, Zenon
    <3> QED BY <3>1, <3>4, Zenon
  <2>3. /\ op' \in [CacheThreads -> {"idle", "release", "destroy", "exit", "exited"}]
        /\ op'[t] = "idle" /\ \A u \in CacheThreads \ {t} : op'[u] = op[u]
    BY <1>3, <2>1, Zenon DEF StorageTypes
  <2>4. LeaversEmpty'
    <3> SUFFICES ASSUME NEW u \in CacheThreads, NEW b \in CachedAllocators \ freed'
                 PROVE  /\ op'[u] = "exited" => Cached(u, b)' = 0
                        /\ op'[u] = "exit" /\ b \notin todo'[u] => Cached(u, b)' = 0
      BY Zenon DEF LeaversEmpty
    <3>1. CASE u = t
      BY <2>3, <3>1
    <3>2. CASE u # t
      <4>1. Cached(u, b)' = Cached(u, b) /\ op'[u] = op[u] /\ todo'[u] = todo[u] /\ b \in CachedAllocators \ freed
        BY <1>2, <1>5, <2>2, <2>3, <3>2, Zenon
      <4> QED BY <1>3, <4>1, Zenon DEF LeaversEmpty
    <3> QED BY <3>1, <3>2, Zenon
  <2>5. StorageTypes'
    BY <1>2, <1>3, <2>2, <2>3, Zenon DEF StorageTypes
  <2> QED BY <2>2, <2>4, <2>5, StorageNext, Zenon
<1> QED BY <1>6, <1>7, Zenon

LEMMA ExitDoneKeepsStorage ==
  ASSUME LifetimeInvariant, StorageInvariant, NEW t \in CacheThreads, ExitDone(t)
  PROVE  StorageInvariant'
<1>1. /\ op[t] = "exit" /\ todo[t] = {} /\ op' = [op EXCEPT ![t] = "exited"]
      /\ caches' = [caches EXCEPT ![t] = [a \in CachedAllocators |-> Absent]]
      /\ UNCHANGED <<central, inUse, todo>> /\ freed \subseteq freed'
  BY Zenon DEF ExitDone, AllVisited, DropReferences, blocks
<1>2. StorageTypes /\ Balanced /\ LeaversEmpty
  BY StorageParts, Zenon
<1>3. /\ caches' \in [CacheThreads -> [CachedAllocators -> Nat \cup {Absent}]]
      /\ \A a \in CachedAllocators : caches'[t][a] = Absent
      /\ \A u \in CacheThreads \ {t}, a \in CachedAllocators : caches'[u][a] = caches[u][a]
  BY <1>1, <1>2, Zenon DEF StorageTypes
<1>4. \A a \in CachedAllocators \ freed' : Cached(t, a) = 0 /\ Cached(t, a)' = 0
  BY <1>1, <1>2, <1>3, Zenon DEF LeaversEmpty, Cached
<1>5. \A u \in CacheThreads \ {t}, a \in CachedAllocators : Cached(u, a)' = Cached(u, a)
  BY <1>3, Zenon DEF Cached
<1>6. Balanced'
  <2> SUFFICES ASSUME NEW a \in CachedAllocators \ freed' PROVE central'[a] = inUse'[a] + Total(a)'
    BY Zenon DEF Balanced
  <2>1. Total(a) \in Int /\ Total(a)' = Total(a) + (Cached(t, a)' - Cached(t, a))
    <3>1. \A u \in CacheThreads \ {t} : caches'[u][a] = caches[u][a]
      BY <1>3, Zenon
    <3> QED BY <1>2, <1>3, <3>1, TotalChanges, Zenon DEF StorageTypes
  <2>2. Cached(t, a)' - Cached(t, a) = 0
    BY <1>4
  <2>3. Total(a)' = Total(a)
    BY <2>1, <2>2
  <2>4. a \in CachedAllocators \ freed /\ central' = central /\ inUse' = inUse
    BY <1>1, Zenon
  <2> QED BY <1>2, <2>3, <2>4, Zenon DEF Balanced
<1>7. /\ op' \in [CacheThreads -> {"idle", "release", "destroy", "exit", "exited"}]
      /\ op'[t] = "exited" /\ \A u \in CacheThreads \ {t} : op'[u] = op[u]
  BY <1>1, <1>2, Zenon DEF StorageTypes
<1>8. LeaversEmpty'
  <2> SUFFICES ASSUME NEW u \in CacheThreads, NEW b \in CachedAllocators \ freed'
               PROVE  /\ op'[u] = "exited" => Cached(u, b)' = 0
                      /\ op'[u] = "exit" /\ b \notin todo'[u] => Cached(u, b)' = 0
    BY Zenon DEF LeaversEmpty
  <2>1. CASE u = t
    BY <1>4, <2>1, Zenon
  <2>2. CASE u # t
    <3>1. Cached(u, b)' = Cached(u, b) /\ op'[u] = op[u] /\ todo' = todo /\ b \in CachedAllocators \ freed
      BY <1>1, <1>5, <1>7, <2>2, Zenon
    <3> QED BY <1>2, <3>1, Zenon DEF LeaversEmpty
  <2> QED BY <2>1, <2>2, Zenon
<1>9. StorageTypes'
  BY <1>1, <1>2, <1>3, <1>7, Zenon DEF StorageTypes
<1> QED BY <1>6, <1>8, <1>9, StorageNext, Zenon

LEMMA StorageInit == RegistryInit => StorageInvariant
<1> SUFFICES ASSUME RegistryInit PROVE StorageInvariant
  BY Zenon
<1>1. StorageTypes
  BY DEF RegistryInit, StorageTypes
<1>2. \A t \in CacheThreads, a \in CachedAllocators : Cached(t, a) = 0
  BY Zenon DEF RegistryInit, Cached
<1>3. ASSUME NEW a \in CachedAllocators PROVE Total(a) = 0
  <2>1. PICK g : g = CachedBy(a)
    BY Zenon
  <2>2. \A t \in CacheThreads : g[t] = 0
    BY <1>2, <2>1, Zenon DEF CachedBy
  <2>3. SumUp(g)[CacheThreads] = 0
    BY <2>2, SumOfNothing, Zenon
  <2> QED BY <2>1, <2>3, TotalIsSum, Zenon
<1>4. Balanced
  <2> SUFFICES ASSUME NEW a \in CachedAllocators PROVE central[a] = inUse[a] + Total(a)
    BY Zenon DEF Balanced
  <2>1. central[a] = 0 /\ inUse[a] = 0 /\ Total(a) = 0
    BY <1>3, Zenon DEF RegistryInit
  <2> QED BY <2>1
<1>5. LeaversEmpty
  BY <1>2, Zenon DEF LeaversEmpty
<1> QED BY <1>1, <1>4, <1>5, StorageParts, Zenon

LEMMA NextKeepsStorage ==
  ASSUME LifetimeInvariant, StorageInvariant, [RegistryNext]_registryVars PROVE StorageInvariant'
<1>0. StorageTypes
  BY StorageParts, Zenon
<1>1. CASE UNCHANGED <<central, inUse, caches, freed, op, todo>>
  BY <1>0, <1>1, QuietKeepsStorage, Zenon DEF StorageTypes
<1>2. CASE UNCHANGED registryVars
  BY <1>1, <1>2 DEF registryVars, blocks
<1>3. ASSUME NEW a \in CachedAllocators, ConstructAllocator(a) PROVE StorageInvariant'
  BY <1>1, <1>3 DEF ConstructAllocator, blocks
<1>4. ASSUME NEW t \in CacheThreads, NEW a \in CachedAllocators,
             AllocateBlock(t, a) \/ ReturnBlock(t, a) \/ CallFails(t, a) \/ ReleaseCache(t, a) \/ DestroyAllocator(t, a)
      PROVE  StorageInvariant'
  BY <1>4, AllocateKeepsStorage, DeallocateKeepsStorage, CallFailsKeepsStorage, ReleaseKeepsStorage, Zenon
<1>5. ASSUME NEW t \in CacheThreads, Exit(t) \/ Proceed(t) PROVE StorageInvariant'
  BY <1>5, ExitKeepsStorage, FlushBlockKeepsStorage, FlushDoneKeepsStorage, ExitVisitKeepsStorage,
     ExitDoneKeepsStorage, Zenon DEF Proceed
<1> QED BY <1>2, <1>3, <1>4, <1>5, Zenon DEF RegistryNext

\* Blocks leave the bins only for central storage or a caller, and an exiting
\* thread erases an entry only after it has emptied it.
THEOREM StorageInvariantHolds == RegistrySpec => []StorageInvariant
<1>1. LifetimeInvariant /\ StorageInvariant /\ [RegistryNext]_registryVars => StorageInvariant'
  BY NextKeepsStorage
<1> QED BY <1>1, StorageInit, LifetimeInvariantHolds, PTL DEF RegistrySpec

\* No block is stranded: what central storage has handed out for an allocator
\* is what callers hold and what the bins of all threads cache, whichever
\* threads exit, release their caches or destroy the allocator.
THEOREM NoBlockStrandedHolds == RegistrySpec => []NoBlockStranded
<1>1. StorageInvariant => NoBlockStranded
  BY DEF StorageInvariant
<1> QED BY <1>1, StorageInvariantHolds, PTL
==============================================================================
