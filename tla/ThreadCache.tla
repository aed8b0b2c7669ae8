----------------------------- MODULE ThreadCache -----------------------------
(***************************************************************************)
(* ThreadCacheState and the thread registry in front of it: every thread   *)
(* keeps private bins of free blocks, one per size class; a sharded table  *)
(* of allocation records says who owns each block; the central segregated  *)
(* allocator hands blocks out under central_mutex_.                        *)
(*                                                                         *)
(* A thread's position inside a call is its frame.  A critical section in  *)
(* which no further lock is taken is one step.  central_mutex_ is a leaf   *)
(* (nothing is locked while it is held), so each central call is one step, *)
(* even when the caller holds a shard mutex; a shard mutex that is held    *)
(* across a central call is explicit, in shardLock.                        *)
(*                                                                         *)
(* Callers are arbitrary here: deallocate may be given any address, live,  *)
(* stale or foreign, with a matching or a wrong size.  Callers that only   *)
(* free what they hold are composed in ThreadCacheClients.                 *)
(***************************************************************************)
EXTENDS Integers, Sequences, FiniteSets

CONSTANTS
    Threads,        \* thread ids; current_thread_id never reuses one
    Addr,           \* the block addresses central storage can hand out
    Classes,        \* size-class indices, 0 .. class_count - 1
    Requests,       \* (size, alignment) pairs callers pass
    SizeClass,      \* Requests -> Classes \cup {Fallback, Rejected}
    Fallback,       \* select() finds no class: served by the provider
    Rejected,       \* select() throws: the alignment is not a power of two
    Shards,         \* the record shards (64 in the code)
    ShardOf,        \* Addr -> Shards, the address hash
    HighWatermark, LowWatermark, RefillBatch,
    Unsized,        \* deallocate(pointer) without a size
    NoThread, NoRecord, Free, NoAddr

\* What validate_cache_options lets through (naturals here have no maximum).
validate_cache_options ==
    /\ HighWatermark \in Nat \ {0}
    /\ LowWatermark \in 0 .. HighWatermark
    /\ RefillBatch \in 1 .. HighWatermark

ASSUME OptionsAssumption == validate_cache_options

ASSUME DomainAssumption ==
    /\ Classes \subseteq Nat /\ Classes # {}
    /\ Classes \cap Requests = {}
    /\ Fallback \notin Classes /\ Rejected \notin Classes
    /\ Fallback # Rejected
    /\ SizeClass \in [Requests -> Classes \cup {Fallback, Rejected}]
    /\ ShardOf \in [Addr -> Shards]
    /\ NoThread \notin Threads
    /\ NoAddr \notin Addr
    /\ Unsized \notin Classes \cup Requests
    /\ Free \notin Classes \cup Requests

\* Addresses and thread ids are machine words and the size classes a vector.
ASSUME FiniteAssumption ==
    IsFiniteSet(Threads) /\ IsFiniteSet(Addr) /\ IsFiniteSet(Classes)

(***************************************************************************)
(* What a block serves: its size class or, outside the classes, the exact  *)
(* request, whose size and alignment the provider needs at release.  The   *)
(* size checks of deallocate compare kinds: classes for a pooled block,    *)
(* size and alignment for a fallback block.                                *)
(***************************************************************************)
Kinds == Classes \cup Requests
Kind(r) == IF SizeClass[r] \in Classes THEN SizeClass[r] ELSE r
Matches(kind, s) == s # Unsized => kind = Kind(s)

\* AllocationRecord.  "cached" is active = false.
Record == [kind : Kinds, owner : Threads, state : {"active", "cached"}]

ASSUME RecordAssumption == NoRecord \notin Record

Labels == {"idle", "hit", "refill", "record", "undo", "keep", "note",
           "lookup", "free_central", "free_erase", "push",
           "flush", "flush_central", "flush_erase", "exited", "broken"}

Operations == {"none", "allocate", "deallocate", "release", "exit"}

Frame == [pc : Labels, op : Operations, arg : Requests \cup {Unsized},
          ptr : Addr \cup {NoAddr}, result : Addr \cup {NoAddr},
          index : Nat, flushing : SUBSET Classes]

IdleFrame == [pc |-> "idle", op |-> "none", arg |-> Unsized, ptr |-> NoAddr,
              result |-> NoAddr, index |-> 0, flushing |-> {}]

VARIABLES
    records,        \* Addr -> Record or NoRecord, the union of all shards
    shardLock,      \* Shards -> the thread holding shard.mutex, or NoThread
    bins,           \* Threads -> Classes -> the blocks cached, back() last
    central,        \* Addr -> kind while central storage has it allocated
    cached,         \* statistics_.cached_blocks
    live,           \* statistics_.live_allocations
    frame           \* Threads -> Frame

vars == <<records, shardLock, bins, central, cached, live, frame>>

TypeOK ==
    /\ records \in [Addr -> Record \cup {NoRecord}]
    /\ shardLock \in [Shards -> Threads \cup {NoThread}]
    /\ bins \in [Threads -> [Classes -> Seq(Addr)]]
    /\ central \in [Addr -> Kinds \cup {Free}]
    /\ cached \in Int
    /\ live \in Int
    /\ frame \in [Threads -> Frame]

Init ==
    /\ records = [p \in Addr |-> NoRecord]
    /\ shardLock = [s \in Shards |-> NoThread]
    /\ bins = [t \in Threads |-> [c \in Classes |-> <<>>]]
    /\ central = [p \in Addr |-> Free]
    /\ cached = 0
    /\ live = 0
    /\ frame = [t \in Threads |-> IdleFrame]

------------------------------------------------------------------------------
At(t, label) == frame[t].pc = label

\* The thread that returns to its caller keeps nothing of the call.
Return(t) == frame' = [frame EXCEPT ![t] = IdleFrame]
Goto(t, label) == frame' = [frame EXCEPT ![t].pc = label]

Unlocked(p) == shardLock[ShardOf[p]] = NoThread
Lock(t, p) == shardLock' = [shardLock EXCEPT ![ShardOf[p]] = t]
Unlock(p) == shardLock' = [shardLock EXCEPT ![ShardOf[p]] = NoThread]

IsActive(p) == records[p] # NoRecord /\ records[p].state = "active"
IsCached(p) == records[p] # NoRecord /\ records[p].state = "cached"

Back(bin) == bin[Len(bin)]
PopBack(bin) == SubSeq(bin, 1, Len(bin) - 1)

(***************************************************************************)
(* allocate.  A fallback request takes the path of a refill of one block   *)
(* that is never cached: the two pieces of code have the same steps.       *)
(***************************************************************************)
BatchOf(r) == IF SizeClass[r] \in Classes THEN RefillBatch ELSE 1

CallAllocate(t, r) ==
    /\ At(t, "idle")
    /\ SizeClass[r] # Rejected
    /\ LET c == SizeClass[r]
           started == [IdleFrame EXCEPT !.op = "allocate", !.arg = r]
       IN  IF c \in Classes /\ bins[t][c] # <<>>
           THEN /\ frame' = [frame EXCEPT ![t] =
                     [started EXCEPT !.pc = "hit", !.ptr = Back(bins[t][c])]]
                /\ bins' = [bins EXCEPT ![t][c] = PopBack(@)]
           ELSE /\ frame' = [frame EXCEPT ![t] = [started EXCEPT !.pc = "refill"]]
                /\ UNCHANGED bins
    /\ UNCHANGED <<records, shardLock, central, cached, live>>

\* The popped block is reactivated under its shard's lock and returned.
CacheHit(t) ==
    LET p == frame[t].ptr
        consistent == IsCached(p)
    IN  /\ At(t, "hit")
        /\ Unlocked(p)
        /\ records' = IF consistent
                      THEN [records EXCEPT ![p].owner = t, ![p].state = "active"]
                      ELSE records
        /\ cached' = IF consistent THEN cached - 1 ELSE cached
        /\ live' = IF consistent THEN live + 1 ELSE live
        /\ frame' = [frame EXCEPT ![t] =
             IF consistent THEN IdleFrame ELSE [@ EXCEPT !.pc = "broken"]]
        /\ UNCHANGED <<shardLock, bins, central>>

\* A failure at index 0 is rethrown; a later one ends the refill early.
AfterFailure(f) ==
    IF f.index = 0 THEN IdleFrame ELSE [f EXCEPT !.pc = "note", !.ptr = NoAddr]

CentralAllocate(t) ==
    /\ At(t, "refill")
    /\ \E p \in Addr :
          /\ central[p] = Free
          /\ central' = [central EXCEPT ![p] = Kind(frame[t].arg)]
          /\ frame' = [frame EXCEPT ![t].pc = "record", ![t].ptr = p]
    /\ UNCHANGED <<records, shardLock, bins, cached, live>>

CentralAllocateFails(t) ==
    /\ At(t, "refill")
    /\ frame' = [frame EXCEPT ![t] = AfterFailure(@)]
    /\ UNCHANGED <<records, shardLock, bins, central, cached, live>>

\* Mutant: .active = true for every block of a refill.
RecordAlwaysActive(t) ==
    LET p == frame[t].ptr
        inserted == records[p] = NoRecord
        record == [kind |-> Kind(frame[t].arg), owner |-> t, state |-> "active"]
    IN  /\ At(t, "record")
        /\ Unlocked(p)
        /\ records' = IF inserted THEN [records EXCEPT ![p] = record] ELSE records
        /\ Goto(t, IF inserted THEN "keep" ELSE "broken")
        /\ UNCHANGED <<shardLock, bins, central, cached, live>>

RecordAllocation(t) ==
    LET p == frame[t].ptr
        inserted == records[p] = NoRecord
        record == [kind  |-> Kind(frame[t].arg), owner |-> t,
                   state |-> IF frame[t].index = 0 THEN "active" ELSE "cached"]
    IN  /\ At(t, "record")
        /\ Unlocked(p)
        /\ records' = IF inserted THEN [records EXCEPT ![p] = record] ELSE records
        /\ Goto(t, IF inserted THEN "keep" ELSE "broken")
        /\ UNCHANGED <<shardLock, bins, central, cached, live>>

\* Mutant: the handler of a failed insertion forgets central_deallocate.
RecordFailureLeaks(t) ==
    /\ At(t, "record")
    /\ Unlocked(frame[t].ptr)
    /\ frame' = [frame EXCEPT ![t] = AfterFailure(@)]
    /\ UNCHANGED <<records, shardLock, bins, central, cached, live>>

\* emplace throws bad_alloc: nothing was inserted.
RecordAllocationFails(t) ==
    /\ At(t, "record")
    /\ Unlocked(frame[t].ptr)
    /\ Goto(t, "undo")
    /\ UNCHANGED <<records, shardLock, bins, central, cached, live>>

\* Central storage takes back a block of the right kind and rejects others.
Returns(p, s) == central[p] # Free /\ Matches(central[p], s)

\* Mutant: a failed refill gives back the result, not the block in hand.
UndoReturnsResult(t) ==
    LET p == IF frame[t].index = 0 THEN frame[t].ptr ELSE frame[t].result
    IN  /\ At(t, "undo")
        /\ central' = [central EXCEPT ![p] = Free]
        /\ frame' = [frame EXCEPT ![t] = AfterFailure(@)]
        /\ UNCHANGED <<records, shardLock, bins, cached, live>>

UndoAllocation(t) ==
    LET p == frame[t].ptr
        accepted == Returns(p, frame[t].arg)
    IN  /\ At(t, "undo")
        /\ central' = IF accepted THEN [central EXCEPT ![p] = Free] ELSE central
        /\ frame' = [frame EXCEPT ![t] =
             IF accepted THEN AfterFailure(@) ELSE [@ EXCEPT !.pc = "broken"]]
        /\ UNCHANGED <<records, shardLock, bins, cached, live>>

\* The first block is the result, the others go to the bin.
KeepBlock(t) ==
    LET f == frame[t]
        next == IF f.index + 1 < BatchOf(f.arg) THEN "refill" ELSE "note"
    IN  /\ At(t, "keep")
        /\ IF f.index = 0
           THEN UNCHANGED <<bins, cached>>
           ELSE /\ bins' = [bins EXCEPT ![t][SizeClass[f.arg]] = Append(@, f.ptr)]
                /\ cached' = cached + 1
        /\ frame' = [frame EXCEPT ![t] =
             [f EXCEPT !.pc = next, !.ptr = NoAddr, !.index = f.index + 1,
                       !.result = IF f.index = 0 THEN f.ptr ELSE f.result]]
        /\ UNCHANGED <<records, shardLock, central, live>>

\* Mutant: a refill returns without note_live_allocation.
NoteNothing(t) ==
    /\ At(t, "note")
    /\ Return(t)
    /\ UNCHANGED <<records, shardLock, bins, central, cached, live>>

NoteLiveAllocation(t) ==
    /\ At(t, "note")
    /\ live' = live + 1
    /\ Return(t)
    /\ UNCHANGED <<records, shardLock, bins, central, cached>>

(***************************************************************************)
(* deallocate.                                                             *)
(***************************************************************************)
CallDeallocate(t, p, s) ==
    /\ At(t, "idle")
    /\ frame' = [frame EXCEPT ![t] = [IdleFrame EXCEPT
         !.pc = "lookup", !.op = "deallocate", !.ptr = p, !.arg = s]]
    /\ UNCHANGED <<records, shardLock, bins, central, cached, live>>

\* InvalidPoolPointer, DoubleFreeError or AllocationMismatchError.
DeallocateRejected(t) ==
    LET p == frame[t].ptr
    IN  /\ At(t, "lookup")
        /\ Unlocked(p)
        /\ ~ (IsActive(p) /\ Matches(records[p].kind, frame[t].arg))
        /\ Return(t)
        /\ UNCHANGED <<records, shardLock, bins, central, cached, live>>

\* Mutant: the shard is unlocked before central storage is called.
DeallocateToCentralUnlocked(t) ==
    LET p == frame[t].ptr
    IN  /\ At(t, "lookup")
        /\ Unlocked(p)
        /\ IsActive(p) /\ Matches(records[p].kind, frame[t].arg)
        /\ records[p].owner # t \/ records[p].kind \notin Classes
        /\ Goto(t, "free_central")
        /\ UNCHANGED <<records, shardLock, bins, central, cached, live>>

\* Remote frees and fallback blocks bypass the bins; the shard stays locked.
DeallocateToCentral(t) ==
    LET p == frame[t].ptr
    IN  /\ At(t, "lookup")
        /\ Unlocked(p)
        /\ IsActive(p) /\ Matches(records[p].kind, frame[t].arg)
        /\ records[p].owner # t \/ records[p].kind \notin Classes
        /\ Lock(t, p)
        /\ Goto(t, "free_central")
        /\ UNCHANGED <<records, bins, central, cached, live>>

\* A rejection by central storage would unwind and release the shard.
CentralDeallocate(t) ==
    LET p == frame[t].ptr
        accepted == Returns(p, frame[t].arg)
    IN  /\ At(t, "free_central")
        /\ central' = IF accepted THEN [central EXCEPT ![p] = Free] ELSE central
        /\ shardLock' = IF accepted THEN shardLock
                        ELSE [shardLock EXCEPT ![ShardOf[p]] = NoThread]
        /\ Goto(t, IF accepted THEN "free_erase" ELSE "broken")
        /\ UNCHANGED <<records, bins, cached, live>>

EraseRecord(t) ==
    LET p == frame[t].ptr
    IN  /\ At(t, "free_erase")
        /\ records' = [records EXCEPT ![p] = NoRecord]
        /\ live' = live - 1
        /\ Unlock(p)
        /\ Return(t)
        /\ UNCHANGED <<bins, central, cached>>

\* Mutant: record_lock.unlock() is forgotten before the push and the flush.
DeallocateLocalStaysLocked(t) ==
    LET p == frame[t].ptr
    IN  /\ At(t, "lookup")
        /\ Unlocked(p)
        /\ IsActive(p) /\ Matches(records[p].kind, frame[t].arg)
        /\ records[p].owner = t /\ records[p].kind \in Classes
        /\ records' = [records EXCEPT ![p].state = "cached"]
        /\ live' = live - 1
        /\ cached' = cached + 1
        /\ Lock(t, p)
        /\ frame' = [frame EXCEPT ![t].pc = "push",
                                  ![t].flushing = {records[p].kind}]
        /\ UNCHANGED <<bins, central>>

\* Marked free under the lock, published into the private bin after it.
DeallocateLocal(t) ==
    LET p == frame[t].ptr
    IN  /\ At(t, "lookup")
        /\ Unlocked(p)
        /\ IsActive(p) /\ Matches(records[p].kind, frame[t].arg)
        /\ records[p].owner = t /\ records[p].kind \in Classes
        /\ records' = [records EXCEPT ![p].state = "cached"]
        /\ live' = live - 1
        /\ cached' = cached + 1
        /\ frame' = [frame EXCEPT ![t].pc = "push",
                                  ![t].flushing = {records[p].kind}]
        /\ UNCHANGED <<shardLock, bins, central>>

\* Mutant: flush one block too late, at high_watermark + 2.
PushFlushesLate(t) ==
    \E c \in frame[t].flushing :
        /\ At(t, "push")
        /\ bins' = [bins EXCEPT ![t][c] = Append(@, frame[t].ptr)]
        /\ frame' = [frame EXCEPT ![t] =
             IF Len(bins[t][c]) > HighWatermark
             THEN [@ EXCEPT !.pc = "flush", !.ptr = NoAddr] ELSE IdleFrame]
        /\ UNCHANGED <<records, shardLock, central, cached, live>>

\* frame.flushing holds class_index, the bin the block goes to.
PushLocal(t) ==
    \E c \in frame[t].flushing :
        /\ At(t, "push")
        /\ bins' = [bins EXCEPT ![t][c] = Append(@, frame[t].ptr)]
        /\ frame' = [frame EXCEPT ![t] =
             IF Len(bins[t][c]) + 1 > HighWatermark
             THEN [@ EXCEPT !.pc = "flush", !.ptr = NoAddr] ELSE IdleFrame]
        /\ UNCHANGED <<records, shardLock, central, cached, live>>

(***************************************************************************)
(* flush_bin and flush_bins: the bins in frame.flushing are emptied, in    *)
(* class order, down to the target of the operation.                       *)
(***************************************************************************)
FlushTarget(t) == IF frame[t].op = "deallocate" THEN LowWatermark ELSE 0

CurrentBin(t, c) == c \in frame[t].flushing /\ \A d \in frame[t].flushing : c <= d

\* release_current_thread_cache, and ~Impl on the destroying thread.
CallRelease(t) ==
    /\ At(t, "idle")
    /\ frame' = [frame EXCEPT ![t] = [IdleFrame EXCEPT
         !.pc = "flush", !.op = "release", !.flushing = Classes]]
    /\ UNCHANGED <<records, shardLock, bins, central, cached, live>>

\* ~ThreadRegistry at thread exit.
ExitThread(t) ==
    /\ At(t, "idle")
    /\ frame' = [frame EXCEPT ![t] = [IdleFrame EXCEPT
         !.pc = "flush", !.op = "exit", !.flushing = Classes]]
    /\ UNCHANGED <<records, shardLock, bins, central, cached, live>>

\* Mutant: flush_bin checks the record and drops the shard lock at once.
FlushUnlocked(t) ==
    \E c \in Classes :
        LET p == Back(bins[t][c])
        IN  /\ At(t, "flush")
            /\ CurrentBin(t, c)
            /\ Len(bins[t][c]) > FlushTarget(t)
            /\ Unlocked(p)
            /\ frame' = [frame EXCEPT
                 ![t].pc = IF IsCached(p) THEN "flush_central" ELSE "broken",
                 ![t].ptr = p]
            /\ UNCHANGED <<records, shardLock, bins, central, cached, live>>

FlushLock(t) ==
    \E c \in Classes :
        LET p == Back(bins[t][c])
            consistent == IsCached(p)
        IN  /\ At(t, "flush")
            /\ CurrentBin(t, c)
            /\ Len(bins[t][c]) > FlushTarget(t)
            /\ Unlocked(p)
            /\ shardLock' = IF consistent THEN [shardLock EXCEPT ![ShardOf[p]] = t]
                            ELSE shardLock
            /\ frame' = [frame EXCEPT
                 ![t].pc = IF consistent THEN "flush_central" ELSE "broken",
                 ![t].ptr = p]
            /\ UNCHANGED <<records, bins, central, cached, live>>

FlushCentral(t) ==
    LET p == frame[t].ptr
        accepted == Returns(p, Unsized)
    IN  /\ At(t, "flush_central")
        /\ central' = IF accepted THEN [central EXCEPT ![p] = Free] ELSE central
        /\ shardLock' = IF accepted THEN shardLock
                        ELSE [shardLock EXCEPT ![ShardOf[p]] = NoThread]
        /\ Goto(t, IF accepted THEN "flush_erase" ELSE "broken")
        /\ UNCHANGED <<records, bins, cached, live>>

\* Mutant: flush_bin forgets to lower cached_blocks.
FlushEraseUncounted(t) ==
    LET p == frame[t].ptr
    IN  \E c \in Classes :
        /\ At(t, "flush_erase")
        /\ CurrentBin(t, c)
        /\ records' = [records EXCEPT ![p] = NoRecord]
        /\ bins' = [bins EXCEPT ![t][c] = PopBack(@)]
        /\ Unlock(p)
        /\ frame' = [frame EXCEPT ![t].pc = "flush", ![t].ptr = NoAddr]
        /\ UNCHANGED <<central, cached, live>>

FlushErase(t) ==
    LET p == frame[t].ptr
    IN  \E c \in Classes :
        /\ At(t, "flush_erase")
        /\ CurrentBin(t, c)
        /\ records' = [records EXCEPT ![p] = NoRecord]
        /\ bins' = [bins EXCEPT ![t][c] = PopBack(@)]
        /\ cached' = cached - 1
        /\ Unlock(p)
        /\ frame' = [frame EXCEPT ![t].pc = "flush", ![t].ptr = NoAddr]
        /\ UNCHANGED <<central, live>>

\* The current bin is at its target: the next bin, or the end of the call.
FlushBinDone(t) ==
    \E c \in Classes :
        LET rest == frame[t].flushing \ {c}
            ended == IF frame[t].op = "exit"
                     THEN [IdleFrame EXCEPT !.pc = "exited"] ELSE IdleFrame
        IN  /\ At(t, "flush")
            /\ CurrentBin(t, c)
            /\ Len(bins[t][c]) <= FlushTarget(t)
            /\ frame' = [frame EXCEPT ![t] =
                 IF rest = {} THEN ended ELSE [@ EXCEPT !.flushing = rest]]
            /\ UNCHANGED <<records, shardLock, bins, central, cached, live>>

------------------------------------------------------------------------------
Call(t) ==
    \/ \E r \in Requests : CallAllocate(t, r)
    \/ \E p \in Addr, s \in Requests \cup {Unsized} : CallDeallocate(t, p, s)
    \/ CallRelease(t)
    \/ ExitThread(t)

\* The steps of a call in progress that do not hand a block to the caller.
Proceed(t) ==
    \/ CentralAllocate(t) \/ CentralAllocateFails(t)
    \/ RecordAllocation(t) \/ RecordAllocationFails(t) \/ UndoAllocation(t)
    \/ KeepBlock(t)
    \/ DeallocateRejected(t) \/ DeallocateToCentral(t) \/ DeallocateLocal(t)
    \/ CentralDeallocate(t) \/ EraseRecord(t) \/ PushLocal(t)
    \/ FlushLock(t) \/ FlushCentral(t) \/ FlushErase(t) \/ FlushBinDone(t)

Step(t) == CacheHit(t) \/ NoteLiveAllocation(t) \/ Proceed(t)

Next == \E t \in Threads : Call(t) \/ Step(t)

Spec == Init /\ [][Next]_vars
------------------------------------------------------------------------------
(***************************************************************************)
(* Properties.                                                             *)
(***************************************************************************)

\* The block is in the hands of the thread only: no active record and no bin
\* slot names it yet (or any more).
InFlight(t, p) ==
    /\ frame[t].ptr = p
    /\ \/ frame[t].pc \in {"record", "undo", "hit", "push"}
       \/ At(t, "keep") /\ frame[t].index > 0

\* Central storage has the block back and its old record is about to go.
Erasing(p) == \E t \in Threads :
    frame[t].ptr = p /\ frame[t].pc \in {"free_erase", "flush_erase"}

Slots(p) == {slot \in [t : Threads, c : Classes, i : 1 .. HighWatermark + 1] :
                /\ slot.i <= Len(bins[slot.t][slot.c])
                /\ bins[slot.t][slot.c][slot.i] = p}

\* 1 for a fact that holds, 0 for one that does not.
Count(fact) == IF fact THEN 1 ELSE 0

\* The logic_errors of record_allocation (a duplicate live address), allocate
\* and flush_bin (inconsistent metadata) and a rejection by central storage
\* of what the cache gives back are unreachable, whatever callers free.
NoInternalError == \A t \in Threads : ~ At(t, "broken")

\* No block is lost, cached twice or handed to two holders: a block that
\* central storage has allocated is held by exactly one of an active record,
\* one slot of one bin, or one thread in the middle of a call; the record of
\* a block already given back is the only surplus, and only under its lock.
BlockHasOneHolder ==
    \A p \in Addr :
        Count(IsActive(p)) + Cardinality(Slots(p))
            + Cardinality({t \in Threads : InFlight(t, p)})
        = Count(central[p] # Free) + Count(Erasing(p))

\* A query (owns, owning_size_class) locks the shard; what it then reads is
\* what central storage says: flush_bin and the remote free keep the lock "so
\* no concurrent ownership query observes a half-completed transition".
OwnershipQueryConsistent ==
    \A p \in Addr : Unlocked(p) =>
        IF records[p] # NoRecord
        THEN central[p] = records[p].kind
        ELSE central[p] = Free \/ \E t \in Threads :
                frame[t].ptr = p /\ frame[t].pc \in {"record", "undo"}

\* A bin never outgrows the high_watermark + 1 slots reserved for it, so
\* push_back outside the lock cannot reallocate and lose the block, and it is
\* back within the high watermark when the call returns.
BinsWithinReserve ==
    \A t \in Threads, c \in Classes :
        /\ Len(bins[t][c]) <= HighWatermark + 1
        /\ At(t, "idle") => Len(bins[t][c]) <= HighWatermark

\* cached_blocks counts the inactive records, except one a refill is about to
\* push; live_allocations counts the active ones, except that of a call that
\* has not reached note_live_allocation.  Both are exact when no call runs,
\* and cached_blocks, a size_t, never wraps below zero.
GaugesExact ==
    /\ cached >= 0
    /\ cached = Cardinality({p \in Addr : IsCached(p)})
                - Cardinality({t \in Threads : At(t, "keep") /\ frame[t].index > 0})
    /\ live = Cardinality({p \in Addr : IsActive(p)})
              - Cardinality({t \in Threads :
                    At(t, "keep") \/ At(t, "note") \/ frame[t].index > 0})

------------------------------------------------------------------------------
\* What callers may rely on: see Allocator.  A call takes effect when its
\* record becomes active, is marked inactive, or is erased.
LiveKind == [p \in Addr |-> IF IsActive(p) THEN records[p].kind ELSE Free]

PendingCall(f) ==
    CASE f.op = "allocate" /\ f.index = 0 /\ f.pc # "keep" /\ f.pc # "broken" ->
            [op |-> "allocate", arg |-> Kind(f.arg), ptr |-> NoAddr]
      [] f.pc \in {"lookup", "free_central", "free_erase"} ->
            [op |-> "deallocate", ptr |-> f.ptr,
             arg |-> IF f.arg = Unsized THEN Unsized ELSE Kind(f.arg)]
      [] OTHER -> [op |-> "none", arg |-> Unsized, ptr |-> NoAddr]

Abstract == INSTANCE Allocator WITH
    allocated <- LiveKind,
    pending <- [t \in Threads |-> PendingCall(frame[t])]

\* The cached, sharded, concurrent allocator implements the atomic one: no
\* allocate returns a live block, of two concurrent frees of a block exactly
\* one succeeds, and a free is refused only if its block was not live, or was
\* live with another kind, at some moment during the call.
ImplementsAllocator == Abstract!Spec
==============================================================================
