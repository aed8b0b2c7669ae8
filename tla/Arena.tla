-------------------------------- MODULE Arena --------------------------------
(***************************************************************************)
(* MonotonicArena over ArenaChunk: allocations move a cursor forward       *)
(* through a list of chunks, create<T>() constructs objects and registers  *)
(* their destructors, reset() runs the destructors and rewinds everything. *)
(*                                                                         *)
(* The arena is not thread-safe, but it is re-entrant: a constructor or a  *)
(* destructor it runs may call it again.  stack holds the calls in         *)
(* progress; user code runs when it is empty or when its top is a          *)
(* constructor or a destructor, and may then make any call.  The one       *)
(* restriction is reset()'s own contract, that it invalidates every arena  *)
(* pointer: nobody resets the arena while an object is being constructed.  *)
(*                                                                         *)
(* An address is a chunk index and an offset; a chunk starts at a multiple *)
(* of its alignment.  Of the statistics, used and the requests and         *)
(* failures are kept; the other counters nothing reads.                    *)
(***************************************************************************)
EXTENDS Integers, Sequences, FiniteSets, Powers

CONSTANTS
    Requests,          \* the sizes and alignments callers ask for
    Growths,           \* the ArenaGrowthPolicies explored: mode, factor, maximum
    ResetPolicies,     \* the ArenaResetPolicies explored
    InitialSize,       \* initial_chunk_size
    InitialAlignment,  \* initial_alignment, at least that of max_align_t
    PowersOfTwo,       \* the valid alignments
    MaxSize,           \* the largest size_t
    ProviderLimit,     \* no provider can hand out more bytes than this
    MaxRequests,       \* bounds the calls of allocate and create
    MaxResets,         \* bounds the calls of reset
    MaxDepth           \* bounds the nesting of calls

\* What validate_options accepts.
validate_options(growth) ==
    /\ InitialSize # 0
    /\ InitialAlignment \in PowersOfTwo
    /\ growth.mode = "geometric" => growth.factor >= 2
    /\ growth.maximum # 0 => growth.maximum >= InitialSize

ASSUME ArenaAssumption ==
    /\ PowersOfTwo \subseteq Nat \ {0}
    /\ Requests \subseteq [size : Nat, alignment : Nat]
    /\ Growths \subseteq [mode : {"fixed", "geometric"}, factor : Nat \ {0}, maximum : 0 .. MaxSize]
    /\ \A growth \in Growths : validate_options(growth)
    /\ ResetPolicies \subseteq {"retain_all", "retain_initial"}
    /\ {InitialSize, InitialAlignment, ProviderLimit, MaxRequests} \subseteq Nat
    /\ MaxSize \in Nat /\ InitialSize <= ProviderLimit /\ ProviderLimit <= MaxSize

VARIABLES
    options,         \* the growth and the reset policy
    chunks,          \* capacity, alignment and cursor of every chunk
    current_chunk,
    next_chunk_size,
    last_allocation, \* its chunk is 0 when there is none
    destructors,     \* the registered objects, by address
    used,            \* statistics.current_used_bytes
    requests,        \* statistics.allocation_requests
    failed,          \* statistics.failed_allocations
    broken,          \* allocate has thrown its logic_error
    stack,           \* the constructions, resets and destructor calls in progress
    resets,          \* how often reset was called
    live,            \* the regions handed out and neither abandoned nor reset
    alive            \* the objects built, in order, whose destructor has not begun

arena == <<chunks, current_chunk, next_chunk_size, last_allocation, used>>
vars == <<options, arena, destructors, requests, failed, broken, stack, resets, live, alive>>

LargerOf(m, n) == IF m >= n THEN m ELSE n

Chunk == [capacity : Nat, alignment : Nat, offset : Nat]
Address == [chunk : Nat, from : Nat]
Region == [chunk : Nat, from : Nat, to : Nat, alignment : Nat]
Frame == [kind : {"construct", "unwind", "destructor", "reset", "end", "dead"},
          at : Address, trivial : BOOLEAN]
Nowhere == [chunk |-> 0, from |-> 0]
NoAllocation == [chunk |-> 0, from |-> 0, previous |-> 0, consumed |-> 0]

------------------------------------------------------------------------------
(***************************************************************************)
(* ArenaChunk.                                                             *)
(***************************************************************************)
normalized_size(q) == LargerOf(q.size, 1)

\* Where std::align puts the request: the next multiple of its alignment.
Start(chunk, q) ==
    chunk.offset + ((q.alignment - (chunk.offset % q.alignment)) % q.alignment)

Fits(chunk, q) ==
    /\ q.alignment <= chunk.alignment
    /\ Start(chunk, q) + normalized_size(q) <= chunk.capacity

NewChunk(capacity, alignment) ==
    [capacity |-> capacity, alignment |-> alignment, offset |-> 0]

------------------------------------------------------------------------------
(***************************************************************************)
(* allocate.                                                               *)
(***************************************************************************)
calculate_next_chunk_size(current) ==
    LET g == options.growth
        next == current * g.factor
    IN  IF g.mode = "fixed" THEN InitialSize
        ELSE IF g.maximum # 0 /\ current >= g.maximum THEN g.maximum
        ELSE IF current > MaxSize \div g.factor
             THEN IF g.maximum # 0 THEN g.maximum ELSE MaxSize
        ELSE IF g.maximum # 0 /\ g.maximum < next THEN g.maximum
        ELSE next

Init ==
    /\ options \in [growth : Growths, reset : ResetPolicies]
    /\ chunks = <<NewChunk(InitialSize, InitialAlignment)>>
    /\ current_chunk = 1
    /\ next_chunk_size = calculate_next_chunk_size(InitialSize)
    /\ last_allocation = NoAllocation
    /\ destructors = <<>> /\ alive = <<>> /\ stack = <<>>
    /\ used = 0 /\ requests = 0 /\ failed = 0 /\ resets = 0
    /\ broken = FALSE
    /\ live = {}

Top == stack[Len(stack)]
UserCode == stack # <<>> => Top.kind \in {"construct", "unwind", "destructor"}
Push(frame) == Len(stack) < MaxDepth /\ stack' = Append(stack, frame)
Popped == SubSeq(stack, 1, Len(stack) - 1)

\* try_allocate in chunk i of cs and record_allocation.
Take(cs, i, q) ==
    LET from == Start(cs[i], q)
        to == from + normalized_size(q)
    IN  /\ chunks' = [cs EXCEPT ![i].offset = to]
        /\ current_chunk' = i
        /\ used' = used + (to - cs[i].offset)
        /\ last_allocation' = [chunk |-> i, from |-> from, previous |-> cs[i].offset,
                               consumed |-> to - cs[i].offset]
        /\ live' = live \cup {[chunk |-> i, from |-> from, to |-> to,
                               alignment |-> q.alignment]}

NoneFits(q) == \A i \in current_chunk .. Len(chunks) : ~ Fits(chunks[i], q)

FirstFit(q) ==
    /\ \E i \in current_chunk .. Len(chunks) :
          /\ Fits(chunks[i], q)
          /\ \A j \in current_chunk .. i - 1 : ~ Fits(chunks[j], q)
          /\ Take(chunks, i, q)
    /\ UNCHANGED <<next_chunk_size, broken, failed>>

CapacityFor(q) == LargerOf(next_chunk_size, normalized_size(q))

\* add_chunk and the second try_allocate, which must succeed.
AddChunk(q) ==
    LET chunk == NewChunk(CapacityFor(q), LargerOf(InitialAlignment, q.alignment))
        cs == Append(chunks, chunk)
    IN  /\ NoneFits(q)
        /\ CapacityFor(q) <= ProviderLimit
        /\ next_chunk_size' = calculate_next_chunk_size(next_chunk_size)
        /\ IF Fits(chunk, q)
           THEN Take(cs, Len(cs), q) /\ UNCHANGED <<broken, failed>>
           ELSE /\ chunks' = cs /\ current_chunk' = Len(cs)
                /\ broken' = TRUE /\ failed' = failed + 1
                /\ UNCHANGED <<last_allocation, used, live>>

Requested == UserCode /\ requests < MaxRequests /\ requests' = requests + 1

Serve(q) ==
    /\ Requested
    /\ q.alignment \in PowersOfTwo
    /\ FirstFit(q) \/ AddChunk(q)
    /\ UNCHANGED <<options, destructors, resets, alive>>

Allocate(q) == Serve(q) /\ UNCHANGED stack

\* The alignment is invalid, or the provider throws.
AllocateFails(q) ==
    /\ Requested
    /\ q.alignment \notin PowersOfTwo \/ NoneFits(q)
    /\ failed' = failed + 1
    /\ UNCHANGED <<options, arena, destructors, broken, stack, resets, live, alive>>

------------------------------------------------------------------------------
(***************************************************************************)
(* create<T>.                                                              *)
(***************************************************************************)
Storage(allocation) == [chunk |-> allocation.chunk, from |-> allocation.from]

\* Mutant: the destructor is registered before the constructor has run.
CreateRegistersEarly(q, trivial) ==
    /\ Requested
    /\ q.alignment \in PowersOfTwo
    /\ FirstFit(q) \/ AddChunk(q)
    /\ ~ broken'
    /\ destructors' = Append(destructors, Storage(last_allocation'))
    /\ alive' = Append(alive, Storage(last_allocation'))
    /\ Push([kind |-> "construct", at |-> Storage(last_allocation'), trivial |-> TRUE])
    /\ UNCHANGED <<options, resets>>

\* The storage is allocated and the constructor starts.
Create(q, trivial) ==
    /\ Serve(q)
    /\ ~ broken'
    /\ Push([kind |-> "construct", at |-> Storage(last_allocation'), trivial |-> trivial])

ConstructorReturns ==
    /\ stack # <<>> /\ Top.kind = "construct"
    /\ stack' = Popped
    /\ IF Top.trivial THEN UNCHANGED <<destructors, alive>>
       ELSE /\ destructors' = Append(destructors, Top.at)
            /\ alive' = Append(alive, Top.at)
    /\ UNCHANGED <<options, arena, requests, failed, broken, resets, live>>

\* register_destructor throws; the handler runs the object's destructor.
RegistrationFails ==
    /\ stack # <<>> /\ Top.kind = "construct" /\ ~ Top.trivial
    /\ stack' = [stack EXCEPT ![Len(stack)].kind = "unwind"]
    /\ UNCHANGED <<options, arena, destructors, requests, failed, broken, resets, live, alive>>

\* Mutant: the cursor is rewound whatever was allocated since.
RewindsAlways ==
    LET c == Top.at.chunk
    IN  /\ chunks' = [chunks EXCEPT ![c].offset = Top.at.from]
        /\ used' = used - (chunks[c].offset - Top.at.from)
        /\ last_allocation' = NoAllocation

rollback_last ==
    IF Storage(last_allocation) # Top.at \/ last_allocation.chunk = 0
    THEN UNCHANGED <<chunks, used, last_allocation>>
    ELSE /\ chunks' = [chunks EXCEPT ![last_allocation.chunk].offset =
                          IF last_allocation.previous <= @ THEN last_allocation.previous ELSE @]
         /\ used' = used - last_allocation.consumed
         /\ last_allocation' = NoAllocation

\* The constructor threw, or the destructor of an unregistered object is over.
CreateFails ==
    /\ stack # <<>> /\ Top.kind \in {"construct", "unwind"}
    /\ rollback_last
    /\ live' = {r \in live : [chunk |-> r.chunk, from |-> r.from] # Top.at}
    /\ stack' = Popped
    /\ UNCHANGED <<options, current_chunk, next_chunk_size, destructors, requests, failed, broken, resets, alive>>

------------------------------------------------------------------------------
(***************************************************************************)
(* reset, and the destructor of the arena.                                 *)
(***************************************************************************)
Plain(kind) == [kind |-> kind, at |-> Nowhere, trivial |-> TRUE]

Reset ==
    /\ UserCode
    /\ \A i \in DOMAIN stack : stack[i].kind \notin {"construct", "unwind"}
    /\ resets < MaxResets
    /\ resets' = resets + 1
    /\ Push(Plain("reset"))
    /\ UNCHANGED <<options, arena, destructors, requests, failed, broken, live, alive>>

End ==
    /\ stack = <<>>
    /\ stack' = <<Plain("end")>>
    /\ UNCHANGED <<options, arena, destructors, requests, failed, broken, resets, live, alive>>

\* The objects alive when the destructor of object has begun.
Ended(object) ==
    LET i == CHOOSE i \in DOMAIN alive : alive[i] = object
    IN  SubSeq(alive, 1, i - 1) \o SubSeq(alive, i + 1, Len(alive))

\* Mutant: the oldest record first.
RunOldestDestructor ==
    /\ stack # <<>> /\ Top.kind \in {"reset", "end"} /\ destructors # <<>>
    /\ destructors' = Tail(destructors)
    /\ alive' = Ended(destructors[1])
    /\ Push([kind |-> "destructor", at |-> destructors[1], trivial |-> FALSE])
    /\ UNCHANGED <<options, arena, requests, failed, broken, resets, live>>

\* destroy_registered_objects takes the last record and calls its destructor.
RunDestructor ==
    LET object == destructors[Len(destructors)]
    IN  /\ stack # <<>> /\ Top.kind \in {"reset", "end"} /\ destructors # <<>>
        /\ destructors' = SubSeq(destructors, 1, Len(destructors) - 1)
        /\ alive' = Ended(object)
        /\ Push([kind |-> "destructor", at |-> object, trivial |-> FALSE])
        /\ UNCHANGED <<options, arena, requests, failed, broken, resets, live>>

DestructorReturns ==
    /\ stack # <<>> /\ Top.kind = "destructor"
    /\ stack' = Popped
    /\ UNCHANGED <<options, arena, destructors, requests, failed, broken, resets, live, alive>>

Rewound(chunk) == [chunk EXCEPT !.offset = 0]

\* Mutant: the search for room goes on where the last lifetime ended.
RewindKeepsPosition ==
    /\ chunks' = [i \in DOMAIN chunks |-> Rewound(chunks[i])]
    /\ UNCHANGED <<next_chunk_size, current_chunk>>

\* Mutant: the growth of the last lifetime goes on.
RewindKeepsGrowth ==
    /\ chunks' = IF options.reset = "retain_all" THEN [i \in DOMAIN chunks |-> Rewound(chunks[i])]
                 ELSE <<Rewound(chunks[1])>>
    /\ current_chunk' = 1
    /\ UNCHANGED next_chunk_size

RewindChunks ==
    /\ current_chunk' = 1
    /\ IF options.reset = "retain_all"
       THEN /\ chunks' = [i \in DOMAIN chunks |-> Rewound(chunks[i])]
            /\ UNCHANGED next_chunk_size
       ELSE /\ chunks' = <<Rewound(chunks[1])>>
            /\ next_chunk_size' = calculate_next_chunk_size(InitialSize)

FinishReset ==
    /\ stack # <<>> /\ Top.kind = "reset" /\ destructors = <<>>
    /\ RewindChunks
    /\ used' = 0
    /\ last_allocation' = NoAllocation
    /\ live' = {}
    /\ stack' = Popped
    /\ UNCHANGED <<options, destructors, requests, failed, broken, resets, alive>>

FinishEnd ==
    /\ stack # <<>> /\ Top.kind = "end" /\ destructors = <<>>
    /\ chunks' = <<>> /\ current_chunk' = 1
    /\ last_allocation' = NoAllocation /\ used' = 0
    /\ live' = {}
    /\ stack' = <<Plain("dead")>>
    /\ UNCHANGED <<options, next_chunk_size, destructors, requests, failed, broken, resets, alive>>

Next ==
    \/ \E q \in Requests :
          \/ Allocate(q) \/ AllocateFails(q)
          \/ \E trivial \in BOOLEAN : Create(q, trivial)
    \/ ConstructorReturns \/ RegistrationFails \/ CreateFails
    \/ Reset \/ End \/ RunDestructor \/ DestructorReturns
    \/ FinishReset \/ FinishEnd

Spec == Init /\ [][Next]_vars

------------------------------------------------------------------------------
(***************************************************************************)
(* Properties.                                                             *)
(***************************************************************************)
Running == chunks # <<>>

\* Every region a caller holds lies below the cursor of its chunk and overlaps no
\* other: no rollback of a failed construction, however deeply nested, takes back
\* space that was handed out after it.
LiveRegionsSafe ==
    /\ \A r \in live :
          /\ r.chunk \in DOMAIN chunks
          /\ r.from < r.to /\ r.to <= chunks[r.chunk].offset
          /\ chunks[r.chunk].offset <= chunks[r.chunk].capacity
    /\ \A r, s \in live : r # s /\ r.chunk = s.chunk => r.to <= s.from \/ s.to <= r.from

\* What rollback_last relies on: last_allocation describes the newest region of
\* its chunk.  Its padding and bytes are all that was consumed since previous,
\* and any other live region of the chunk ends at or before previous.
CursorInvariant ==
    LET c == last_allocation.chunk
    IN  c # 0 =>
          /\ c \in DOMAIN chunks
          /\ chunks[c].offset = last_allocation.previous + last_allocation.consumed
          /\ \A r \in live : r.chunk = c =>
                r.from = last_allocation.from \/ r.to <= last_allocation.previous

\* Every region starts at a multiple of the alignment that was asked for.
RegionsAligned == \A r \in live : r.from % r.alignment = 0

\* The storage of every registered object and of every object under construction
\* is live: neither a rollback nor a reset, also one called by a destructor,
\* leaves a destructor record for storage that may be handed out again.  So a
\* destructor begins while its object has its storage.  It may not end so: reset()
\* called from it rewinds that storage too.
ObjectsInLiveStorage ==
    LET held == {[chunk |-> r.chunk, from |-> r.from] : r \in live}
    IN  Running =>
          /\ \A i \in DOMAIN destructors : destructors[i] \in held
          /\ \A i \in DOMAIN stack : stack[i].kind \in {"construct", "unwind"} => stack[i].at \in held

\* A destructor is only ever run for the object completed last.
DestroyedInReverse ==
    [][Len(alive') < Len(alive) => alive' = SubSeq(alive, 1, Len(alive) - 1)]_vars

\* A new chunk always satisfies the allocation that triggered it.
NewChunkSuffices == ~ broken

\* The size the policy plans for the k-th chunk added: initial * factor^k, capped
\* by the configured maximum and saturated at the largest size.
Planned(k) ==
    LET g == options.growth
        cap == IF g.maximum = 0 THEN MaxSize ELSE g.maximum
        size == InitialSize * Power(g.factor, k)
    IN  IF g.mode = "fixed" THEN InitialSize ELSE IF size <= cap THEN size ELSE cap

\* The chunks grow as the policy says, however often the arena was reset: a chunk
\* has the planned size, unless the request that triggered it needed more.
CapacityFollowsPolicy ==
    Running =>
       /\ next_chunk_size = Planned(Len(chunks))
       /\ \A i \in 2 .. Len(chunks) :
             \/ chunks[i].capacity = Planned(i - 1)
             \/ /\ chunks[i].capacity > Planned(i - 1)
                /\ \E q \in Requests : chunks[i].capacity = normalized_size(q)
==============================================================================
