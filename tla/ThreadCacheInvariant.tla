------------------------- MODULE ThreadCacheInvariant -------------------------
(***************************************************************************)
(* The inductive invariants of ThreadCache.  CacheInvariant, behind        *)
(* NoInternalError and OwnershipQueryConsistent, is what every label of a  *)
(* frame guarantees about the block in hand; HolderInvariant adds where    *)
(* the blocks are and how many.                                            *)
(***************************************************************************)
EXTENDS ThreadCache

HoldsShard(t) ==
    frame[t].pc \in {"free_central", "free_erase", "flush_central", "flush_erase"}

\* Allocated by central storage for t and not recorded, or not any more.
HoldsFresh(t) == frame[t].pc \in {"record", "undo"}

\* An inactive block of t on its way into or out of a bin of class c.
HoldsCached(t, c) ==
    \/ At(t, "hit") /\ c = SizeClass[frame[t].arg]
    \/ At(t, "keep") /\ frame[t].index > 0 /\ c = SizeClass[frame[t].arg]
    \/ At(t, "push") /\ c \in frame[t].flushing

CachedRecord(t, c) == [kind |-> c, owner |-> t, state |-> "cached"]

\* Which parts of a frame are meaningful where.
FrameOK(t) ==
    /\ frame[t].pc \in {"hit", "record", "undo", "keep", "lookup", "push"}
           \/ HoldsShard(t) => frame[t].ptr \in Addr
    /\ frame[t].pc \in {"hit", "refill", "record", "undo", "keep"}
           => frame[t].arg \in Requests
    /\ frame[t].pc \in {"hit", "refill", "record", "undo", "keep"}
           /\ (At(t, "hit") \/ frame[t].index > 0)
           => SizeClass[frame[t].arg] \in Classes
    /\ At(t, "push") => \E c \in Classes : frame[t].flushing = {c}
    /\ ~ At(t, "broken")

\* A thread at a locked label has the shard of its block.
LockOK(t) == HoldsShard(t) => shardLock[ShardOf[frame[t].ptr]] = t

\* A bin holds inactive blocks of its thread and class, each once.
BinOK(t, c) ==
    /\ \A i \in 1 .. Len(bins[t][c]) :
          records[bins[t][c][i]] = CachedRecord(t, c)
    /\ \A i, j \in 1 .. Len(bins[t][c]) :
          bins[t][c][i] = bins[t][c][j] => i = j

\* An inactive block in hand is in none of its thread's bins.
HandOK(t, c) == HoldsCached(t, c) =>
    /\ records[frame[t].ptr] = CachedRecord(t, c)
    /\ \A i \in 1 .. Len(bins[t][c]) : bins[t][c][i] # frame[t].ptr

\* A fresh block has a record only while the old one is being erased.
FreshOK(t) == HoldsFresh(t) =>
    /\ central[frame[t].ptr] = Kind(frame[t].arg)
    /\ records[frame[t].ptr] # NoRecord =>
          At(t, "record") /\ Erasing(frame[t].ptr)

\* Two threads never hold the same fresh block.
FreshDistinct(t, u) ==
    HoldsFresh(t) /\ HoldsFresh(u) /\ frame[t].ptr = frame[u].ptr => t = u

\* Under the lock the record stays until it is erased: an active one for a
\* block being freed; a block being flushed stays at the back of its bin.
FreeOK(t) ==
    /\ HoldsShard(t) => records[frame[t].ptr] # NoRecord
    /\ frame[t].pc \in {"free_central", "free_erase"} => IsActive(frame[t].ptr)
    /\ frame[t].pc \in {"free_central", "free_erase"} =>
          Matches(records[frame[t].ptr].kind, frame[t].arg)

FlushOK(t, c) ==
    frame[t].pc \in {"flush_central", "flush_erase"} /\ CurrentBin(t, c) =>
        Len(bins[t][c]) > 0 /\ Back(bins[t][c]) = frame[t].ptr

\* Records and central storage agree, but for a block whose record is being
\* erased, and one that is allocated centrally and not yet recorded.
CentralOK(p) ==
    /\ records[p] # NoRecord /\ ~ Erasing(p) => central[p] = records[p].kind
    /\ (records[p] = NoRecord \/ Erasing(p)) /\ central[p] # Free =>
          \E t \in Threads : HoldsFresh(t) /\ frame[t].ptr = p

\* The inductive invariant: every step of every thread preserves it, for any
\* callers, and it rules out the internal errors of allocate, deallocate and
\* flush_bin.
CacheInvariant ==
    /\ \A t \in Threads : FrameOK(t) /\ LockOK(t) /\ FreshOK(t) /\ FreeOK(t)
    /\ \A t, u \in Threads : FreshDistinct(t, u)
    /\ \A t \in Threads, c \in Classes : BinOK(t, c) /\ HandOK(t, c) /\ FlushOK(t, c)
    /\ \A p \in Addr : CentralOK(p)

------------------------------------------------------------------------------
\* The loop of allocate that asks central storage for a batch of blocks.
Refilling(t) == frame[t].pc \in {"refill", "record", "undo", "keep"}

Flushing(t) == frame[t].pc \in {"flush", "flush_central", "flush_erase"}

\* Which call a label belongs to, and how far the refill loop has come.
CallOK(t) ==
    /\ Refilling(t) \/ At(t, "hit") \/ At(t, "note") <=> frame[t].op = "allocate"
    /\ frame[t].pc \in {"lookup", "free_central", "free_erase", "push"}
           => frame[t].op = "deallocate"
    /\ Flushing(t) /\ frame[t].op = "deallocate"
           => \E c \in Classes : frame[t].flushing = {c}
    /\ Refilling(t) => frame[t].index < BatchOf(frame[t].arg)
    /\ At(t, "note") => frame[t].index > 0
    /\ ~ Refilling(t) /\ ~ At(t, "note") => frame[t].index = 0

\* A bin holds high_watermark blocks at most, and one more from the push of
\* deallocate to the flush it starts; a refill starts from an empty bin and
\* cannot have cached more blocks than it has been round its loop.
ReserveOK(t, c) ==
    /\ Len(bins[t][c]) <= HighWatermark + 1
    /\ Len(bins[t][c]) > HighWatermark
           => Flushing(t) /\ frame[t].op = "deallocate" /\ c \in frame[t].flushing
    /\ Refilling(t) /\ c = SizeClass[frame[t].arg] => Len(bins[t][c]) <= frame[t].index

\* The block is in bin c of thread t, or in the thread's hand on its way into
\* or out of that bin.
KeptBy(t, c, p) ==
    \/ \E i \in 1 .. Len(bins[t][c]) : bins[t][c][i] = p
    \/ HoldsCached(t, c) /\ frame[t].ptr = p

\* An inactive block is not lost: its owner has it, under its class.
PlaceOK(p) == IsCached(p) => \E t \in Threads, c \in Classes :
    records[p] = CachedRecord(t, c) /\ KeptBy(t, c, p)

\* What BlockHasOneHolder, BinsWithinReserve and GaugesExact need on top of
\* CacheInvariant.
HolderInvariant ==
    /\ \A t \in Threads : CallOK(t)
    /\ \A t \in Threads, c \in Classes : ReserveOK(t, c)
    /\ \A p \in Addr : PlaceOK(p)
==============================================================================
