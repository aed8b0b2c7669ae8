------------------------------ MODULE FixedPool ------------------------------
(***************************************************************************)
(* FixedSizeMemoryPool: an intrusive free list threaded through the blocks *)
(* of one slab, with the optional state table, poisoning, canaries and     *)
(* statistics.  The class is not thread-safe: one call is one step.        *)
(*                                                                         *)
(* A block is modelled by its words: the FreeNode link at the start of the *)
(* raw block, the two canaries, and the payload.  Where words share bytes  *)
(* is the point of the model: without guards the link lies in the payload, *)
(* and with guards and an alignment of at most sizeof(FreeNode) it lies in *)
(* the front canary.                                                       *)
(***************************************************************************)
EXTENDS Integers, FiniteSets, Sequences

CONSTANTS
    BlockCount, BlockBytes, \* block_count_, block_size_
    MaxSize,                \* numeric_limits<size_t>::max()
    MaxRequests,            \* bound: allocation requests in a behaviour
    Null,                   \* nullptr
    Canary,                 \* front_canary, back_canary
    AllocatedPattern, FreedPattern,
    Data,                   \* whatever a caller writes
    Raw                     \* bytes operator new left there

Blocks == 0 .. BlockCount - 1
Patterns == {Canary, AllocatedPattern, FreedPattern, Data, Raw}
Words == Blocks \cup {Null} \cup Patterns

ASSUME PoolAssumption ==
    /\ BlockCount \in Nat \ {0}
    /\ BlockBytes \in Nat \ {0} /\ MaxSize \in Nat /\ BlockBytes <= MaxSize
    /\ MaxRequests \in Nat
    /\ Cardinality(Patterns \cup {Null}) = 6
    /\ (Patterns \cup {Null}) \cap Blocks = {}

Cells == {"link", "front", "payload", "back"}

\* PoolOptions; wide says that the alignment exceeds sizeof(FreeNode), which
\* moves the front canary only.
Options == [diagnostics : BOOLEAN, poison : BOOLEAN, guards : BOOLEAN,
            statistics : BOOLEAN, wide : BOOLEAN]

VARIABLES
    options,        \* options_, and the alignment's effect on the layout
    storage,        \* Blocks -> Cells -> Words
    free_head, free_blocks,
    states,         \* DiagnosticState: the blocks marked allocated
    statistics,
    held,           \* the blocks callers were given and have not returned
    reported,       \* what leak_handler was called with, 0 if it was not
    call,           \* the last call and how it ended
    dangling        \* whether callers write through dangling pointers

vars == <<options, storage, free_head, free_blocks, states, statistics, held,
          reported, call, dangling>>

Running == call.op # "destroy" /\ call.result \notin {"terminate", "undefined"}

Ends(op, p, result) ==
    /\ call' = [op |-> op, ptr |-> p, result |-> result]
    /\ UNCHANGED dangling

------------------------------------------------------------------------------
\* initialize_free_list: 0, 1, ... in order.  The other words are what a
\* former owner of the memory left there, canaries of another pool included.
Init ==
    /\ options \in Options /\ (options.wide => options.guards)
    /\ \E left \in {Raw, Canary} :
          storage = [p \in Blocks |-> [c \in Cells |->
                       IF c # "link" THEN left
                       ELSE IF p + 1 < BlockCount THEN p + 1 ELSE Null]]
    /\ free_head = 0
    /\ free_blocks = BlockCount
    /\ states = {}
    /\ statistics = [requests |-> 0, bytes |-> 0, successes |-> 0, failures |-> 0,
                     frees |-> 0, current |-> 0, peak |-> 0]
    /\ held = {}
    /\ reported = 0
    /\ call = [op |-> "construct", ptr |-> Null, result |-> "ok"]
    /\ dangling \in BOOLEAN

(***************************************************************************)
(* memory_guard.cpp, on the layout of make_block_layout.                   *)
(***************************************************************************)
Front == IF options.wide THEN "front" ELSE "link"
Payload == IF options.guards THEN "payload" ELSE "link"

WriteCanaries(block) ==
    IF options.guards THEN [block EXCEPT ![Front] = Canary, !["back"] = Canary]
    ELSE block

CanariesAreValid(block) ==
    options.guards => block[Front] = Canary /\ block["back"] = Canary

Poison(block, pattern) ==
    IF options.poison THEN [block EXCEPT ![Payload] = pattern] ELSE block

\* Mutant: the link is written first and poisoned afterwards.
LinkThenPoison(block) == Poison([block EXCEPT !["link"] = free_head], FreedPattern)

\* The payload is poisoned, then the FreeNode is placed at the raw start.
Relinked(block) == [Poison(block, FreedPattern) EXCEPT !["link"] = free_head]

(***************************************************************************)
(* diagnostic_state.cpp: what the state table says of a block, if there is *)
(* one.                                                                    *)
(***************************************************************************)
\* Mutant: the old state is not looked at.
MarksAnything(p) == TRUE

TryMarkAllocated(p) == options.diagnostics => p \notin states
MarkFree(p) == options.diagnostics => p \in states

(***************************************************************************)
(* statistics_tracker.cpp.                                                 *)
(***************************************************************************)
Min(a, b) == IF a <= b THEN a ELSE b
Max(a, b) == IF a >= b THEN a ELSE b

\* Mutant: the total wraps.
RequestWraps(s) ==
    [s EXCEPT !.requests = @ + 1, !.bytes = (@ + BlockBytes) % (MaxSize + 1)]

RecordRequest(s) ==
    [s EXCEPT !.requests = @ + 1,
              !.bytes = IF @ > MaxSize - BlockBytes THEN MaxSize ELSE @ + BlockBytes]

RecordSuccess(s) ==
    [s EXCEPT !.successes = @ + 1, !.current = @ + 1,
              !.peak = Max(@, s.current + 1)]

RecordFailure(s) == [s EXCEPT !.failures = @ + 1]
RecordDeallocation(s) == [s EXCEPT !.frees = @ + 1, !.current = @ - 1]

\* statistics_ is left alone unless collect_statistics is set.
Track(s) == statistics' = IF options.statistics THEN s ELSE statistics

------------------------------------------------------------------------------
(***************************************************************************)
(* allocate.  The fast path is the general one with every option off.      *)
(***************************************************************************)
Requesting ==
    /\ Running
    /\ statistics.requests < MaxRequests

Exhausted == free_head = Null

AllocateExhausted ==
    /\ Requesting
    /\ Exhausted
    /\ Track(RecordFailure(RecordRequest(statistics)))
    /\ Ends("allocate", Null, "null")
    /\ UNCHANGED <<options, storage, free_head, free_blocks, states, held, reported>>

Allocate ==
    /\ Requesting
    /\ free_head \in Blocks
    /\ TryMarkAllocated(free_head)
    /\ free_head' = storage[free_head]["link"]
    /\ free_blocks' = free_blocks - 1
    /\ states' = IF options.diagnostics THEN states \cup {free_head} ELSE states
    /\ storage' = [storage EXCEPT ![free_head] =
                     WriteCanaries(Poison(@, AllocatedPattern))]
    /\ Track(RecordSuccess(RecordRequest(statistics)))
    /\ held' = held \cup {free_head}
    /\ Ends("allocate", free_head, "ok")
    /\ UNCHANGED <<options, reported>>

\* A reachable node is marked allocated: std::terminate.
AllocateTerminates ==
    /\ Requesting
    /\ free_head \in Blocks
    /\ ~ TryMarkAllocated(free_head)
    /\ free_head' = storage[free_head]["link"]
    /\ free_blocks' = free_blocks - 1
    /\ Track(RecordRequest(statistics))
    /\ Ends("allocate", free_head, "terminate")
    /\ UNCHANGED <<options, storage, states, held, reported>>

\* free_head_ is a pattern, not an address: the program reads through it.
AllocateUndefined ==
    /\ Requesting
    /\ free_head \in Patterns
    /\ Ends("allocate", Null, "undefined")
    /\ UNCHANGED <<options, storage, free_head, free_blocks, states, statistics,
                   held, reported>>

(***************************************************************************)
(* deallocate.                                                             *)
(***************************************************************************)
DeallocateForeign ==
    /\ Running
    /\ Ends("deallocate", Null, "InvalidPoolPointer")
    /\ UNCHANGED <<options, storage, free_head, free_blocks, states, statistics,
                   held, reported>>

DeallocateBreached(p) ==
    /\ Running
    /\ ~ CanariesAreValid(storage[p])
    /\ Ends("deallocate", p, "MemoryCorruptionError")
    /\ UNCHANGED <<options, storage, free_head, free_blocks, states, statistics,
                   held, reported>>

\* The payload is poisoned before mark_free finds the block free.
DeallocateTwice(p) ==
    /\ Running
    /\ CanariesAreValid(storage[p])
    /\ ~ MarkFree(p)
    /\ storage' = [storage EXCEPT ![p] = Poison(@, FreedPattern)]
    /\ Ends("deallocate", p, "DoubleFreeError")
    /\ UNCHANGED <<options, free_head, free_blocks, states, statistics, held,
                   reported>>

Deallocate(p) ==
    /\ Running
    /\ CanariesAreValid(storage[p])
    /\ MarkFree(p)
    /\ storage' = [storage EXCEPT ![p] = Relinked(@)]
    /\ states' = states \ {p}
    /\ Track(RecordDeallocation(statistics))
    /\ free_head' = p
    /\ free_blocks' = free_blocks + 1
    /\ held' = held \ {p}
    /\ Ends("deallocate", p, "ok")
    /\ UNCHANGED <<options, reported>>

InUse == BlockCount - free_blocks

\* ~FixedSizeMemoryPool, with a leak_handler.
Destroy ==
    /\ Running
    /\ reported' = IF options.diagnostics /\ free_blocks # BlockCount THEN InUse ELSE 0
    /\ Ends("destroy", Null, "ok")
    /\ UNCHANGED <<options, storage, free_head, free_blocks, states, statistics, held>>

------------------------------------------------------------------------------
(***************************************************************************)
(* validate_integrity: FreeNodes[i] is the node the walk reaches after i   *)
(* links, or what it found instead of a node.                              *)
(***************************************************************************)
FreeNodes ==
    LET node[i \in 0 .. BlockCount] ==
          IF i = 0 THEN free_head
          ELSE IF node[i - 1] \in Blocks THEN storage[node[i - 1]]["link"]
          ELSE node[i - 1]
    IN  node

\* Mutant: the seen table is not consulted for duplicates.
IntegrityIgnoresDuplicates ==
    LET node == FreeNodes
        visited == {i \in 0 .. BlockCount : node[i] \in Blocks}
        seen == {node[i] : i \in visited}
    IN  /\ \A i \in 0 .. BlockCount : node[i] \in Blocks \cup {Null}
        /\ Cardinality(seen) = free_blocks
        /\ seen = Blocks \ states

IntegrityHolds ==
    LET node == FreeNodes
        visited == {i \in 0 .. BlockCount : node[i] \in Blocks}
        seen == {node[i] : i \in visited}
    IN  /\ \A i \in 0 .. BlockCount : node[i] \in Blocks \cup {Null}
        /\ Cardinality(visited) <= BlockCount
        /\ Cardinality(visited) = free_blocks
        /\ \A i, j \in visited : node[i] = node[j] => i = j
        /\ seen = Blocks \ states

------------------------------------------------------------------------------
(***************************************************************************)
(* Callers.                                                                *)
(***************************************************************************)
CallerWrites(p) ==
    /\ Running
    /\ storage' = [storage EXCEPT ![p][Payload] = Data]
    /\ Ends("write", Null, "ok")
    /\ UNCHANGED <<options, free_head, free_blocks, states, statistics, held, reported>>

\* A write just before or just after the payload of a guarded block.
CallerOverruns(p) ==
    /\ Running
    /\ options.guards
    /\ \E c \in {Front, "back"} : storage' = [storage EXCEPT ![p][c] = Data]
    /\ Ends("write", Null, "ok")
    /\ UNCHANGED <<options, free_head, free_blocks, states, statistics, held, reported>>

\* A write through a dangling pointer, of anything: without guards, where the
\* pool reads it as a link, a block address included.
CallerWritesFreed(p) ==
    /\ Running
    /\ \E w \in {Data} \cup IF options.guards THEN {} ELSE Blocks \cup {Null} :
          storage' = [storage EXCEPT ![p][Payload] = w]
    /\ Ends("write", Null, "ok")
    /\ UNCHANGED <<options, free_head, free_blocks, states, statistics, held, reported>>

Returns(p) == Deallocate(p) \/ DeallocateBreached(p) \/ DeallocateTwice(p)

PoolStep ==
    \/ Allocate \/ AllocateExhausted
    \/ \E p \in held : Returns(p) \/ CallerWrites(p) \/ CallerOverruns(p)
    \/ DeallocateForeign
    \/ Destroy

\* A block returned twice is contained if the state table is on and poisoning
\* cannot reach the link of a free block.
Contained == options.diagnostics /\ (options.guards \/ ~ options.poison)

\* Callers overrun their blocks.  Those that keep no dangling pointers return
\* any block where that is contained; the others are given a pool with a state
\* table, where the counters and what lay in the slab before play no part.
Next ==
    \/ PoolStep
    \/ AllocateTerminates \/ AllocateUndefined
    \/ \E p \in Blocks \ held :
          \/ ~ dangling /\ Contained /\ Returns(p)
          \/ dangling /\ CallerWritesFreed(p)

CallersInit ==
    /\ Init
    /\ dangling => options.diagnostics /\ ~ options.statistics /\ storage[0]["payload"] = Raw

Spec == CallersInit /\ [][Next]_vars

\* Callers that return any block whenever diagnostics are enabled.
MisuseNext ==
    \/ PoolStep
    \/ AllocateTerminates \/ AllocateUndefined
    \/ \E p \in Blocks \ held : options.diagnostics /\ Returns(p)

MisuseInit == Init /\ ~ dangling

MisuseSpec == MisuseInit /\ [][MisuseNext]_vars

------------------------------------------------------------------------------
(***************************************************************************)
(* Properties.                                                             *)
(***************************************************************************)

\* The nodes on the way from free_head to the first word that is no block.
FreePath ==
    {path \in UNION {[1 .. n -> Blocks] : n \in 0 .. BlockCount} :
        LET end == Len(path)
            next(i) == IF i = 0 THEN free_head ELSE storage[path[i]]["link"]
        IN  /\ \A i \in 1 .. end : path[i] = next(i - 1)
            /\ next(end) = Null}

\* The free list runs through exactly the blocks S, each once, to nullptr.
ListIs(S) == \E path \in FreePath :
    /\ {path[i] : i \in DOMAIN path} = S
    /\ Len(path) = Cardinality(S)

\* Whatever options are combined, wherever the link overlaps payload or canary
\* and whatever callers wrote to blocks they hold, the free list holds exactly
\* the blocks no caller holds; available() counts them and the state table
\* agrees.
FreeListExact == Running /\ ~ dangling =>
    /\ ListIs(Blocks \ held)
    /\ free_blocks = BlockCount - Cardinality(held)
    /\ options.diagnostics => states = held

\* The counters agree with each other and with the blocks held, and the byte
\* total saturates instead of wrapping.
StatisticsExact == options.statistics /\ Running =>
    /\ statistics.current = Cardinality(held)
    /\ statistics.current = statistics.successes - statistics.frees
    /\ statistics.requests = statistics.successes + statistics.failures
    /\ statistics.peak \in statistics.current .. BlockCount
    /\ statistics.bytes = Min(MaxSize, statistics.requests * BlockBytes)

\* validate_integrity finds every corruption of the free list that callers can
\* cause, and raises no false alarm: it passes exactly when the list holds the
\* blocks marked free, each once.
IntegrityCheckExact == Running /\ options.diagnostics =>
    (IntegrityHolds <=> ListIs(Blocks \ states) /\ free_blocks = Cardinality(Blocks \ states))

\* With diagnostics a corrupted free list never makes allocate hand out a block
\* a caller holds: try_mark_allocated refuses and the process terminates.
NeverHandedOutTwice ==
    [][call'.op = "allocate" /\ call'.result = "ok" /\ call' # call
          => call'.ptr \notin held]_vars

ReturnedAgain ==
    /\ call.op = "deallocate" /\ call.result = "ok"
    /\ call'.op = "deallocate" /\ call'.ptr = call.ptr

\* What the tests expect of diagnostic mode: when the second of two returns of
\* a block has thrown DoubleFreeError, validate_integrity still passes.
DoubleFreeLeavesListIntact ==
    [][ReturnedAgain /\ call'.result = "DoubleFreeError" => IntegrityHolds']_vars

------------------------------------------------------------------------------
TypeOK ==
    /\ options \in Options
    /\ storage \in [Blocks -> [Cells -> Words]]
    /\ free_head \in Words
    /\ free_blocks \in Int
    /\ states \subseteq Blocks /\ held \subseteq Blocks
    /\ statistics \in [requests : Int, bytes : Int, successes : Int, failures : Int,
                       frees : Int, current : Int, peak : Int]
    /\ dangling \in BOOLEAN

\* Behind the properties: the state table marks what callers hold, also while
\* dangling pointers corrupt the list, and pools without one, or with counters,
\* are not given to the callers that corrupt it.
PoolInvariant ==
    /\ options.diagnostics => states = held
    /\ dangling => options.diagnostics /\ ~ options.statistics
    /\ FreeListExact
    /\ StatisticsExact
==============================================================================
