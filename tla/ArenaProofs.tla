---------------------------- MODULE ArenaProofs ------------------------------
(***************************************************************************)
(* MonotonicArena for any sizes, alignments, growth and nesting of calls.  *)
(***************************************************************************)
EXTENDS ArenaLifetimes, ArithmeticLemmas, SequenceTheorems

------------------------------------------------------------------------------
(* Arena.                                                                  *)

LEMMA ModuloFacts ==
    ASSUME NEW a \in Nat \ {0}, NEW n \in Nat
    PROVE  /\ n % a \in 0 .. a - 1
           /\ 0 % a = 0
           /\ a % a = 0
  OBVIOUS

LEMMA SmallModulo ==
    ASSUME NEW a \in Nat \ {0}, NEW m \in 0 .. a - 1
    PROVE  m % a = m
  OBVIOUS

LEMMA RoundUp ==
    ASSUME NEW a \in Nat \ {0}, NEW n \in Nat
    PROVE  /\ (a - (n % a)) % a \in Nat
           /\ (n + ((a - (n % a)) % a)) % a = 0
<1>1. n % a \in 0 .. a - 1
  OBVIOUS
<1>2. CASE n % a = 0
  BY <1>2, ModuloFacts
<1>3. CASE n % a # 0
  <2>1. a - (n % a) \in 1 .. a - 1
    BY <1>1, <1>3
  <2>2. (a - (n % a)) % a = a - (n % a)
    BY <2>1, SmallModulo
  <2>3. (n + (a - (n % a))) % a = 0
    OBVIOUS
  <2> QED
    BY <2>1, <2>2, <2>3
<1> QED
  BY <1>2, <1>3, Zenon

------------------------------------------------------------------------------
(***************************************************************************)
(* Chunks and the growth policy.                                           *)
(***************************************************************************)
LEMMA SizeType ==
    ASSUME NEW q \in Requests
    PROVE  normalized_size(q) \in Nat \ {0}
  BY ArenaAssumption DEF normalized_size, LargerOf

\* Where a request is placed: at or after the cursor, aligned.
LEMMA StartProperties ==
    ASSUME NEW chunk \in Chunk, NEW q \in Requests, q.alignment \in PowersOfTwo
    PROVE  /\ Start(chunk, q) \in Nat
           /\ chunk.offset <= Start(chunk, q)
           /\ Start(chunk, q) % q.alignment = 0
<1> DEFINE a == q.alignment
           n == chunk.offset
<1>1. a \in Nat \ {0} /\ n \in Nat
  BY ArenaAssumption, Zenon DEF Chunk
<1>2. Start(chunk, q) = n + ((a - (n % a)) % a)
  BY Zenon DEF Start
<1> HIDE DEF a, n
<1>3. (a - (n % a)) % a \in Nat /\ (n + ((a - (n % a)) % a)) % a = 0
  BY <1>1, RoundUp, Zenon
<1>4. Start(chunk, q) \in Nat /\ n <= Start(chunk, q) /\ Start(chunk, q) % a = 0
  BY <1>1, <1>2, <1>3
<1> QED
  BY <1>4, Zenon DEF a, n

LEMMA NextSizeType ==
    ASSUME options \in [growth : Growths, reset : ResetPolicies], NEW n \in Nat
    PROVE  calculate_next_chunk_size(n) \in Nat
<1> DEFINE g == options.growth
<1>1. g \in [mode : {"fixed", "geometric"}, factor : Nat \ {0}, maximum : 0 .. MaxSize]
  BY ArenaAssumption, Zenon
<1>2. n * g.factor \in Nat /\ g.maximum \in Nat /\ MaxSize \in Nat /\ InitialSize \in Nat
  BY <1>1, ArenaAssumption
<1> QED
  BY <1>2, Zenon DEF calculate_next_chunk_size

\* The chunk allocate() adds holds the request it was added for.
LEMMA NewChunkFits ==
    ASSUME NEW q \in Requests, q.alignment \in PowersOfTwo, next_chunk_size \in Nat
    PROVE  LET chunk == NewChunk(CapacityFor(q), LargerOf(InitialAlignment, q.alignment))
           IN  chunk \in Chunk /\ Fits(chunk, q)
<1> DEFINE chunk == NewChunk(CapacityFor(q), LargerOf(InitialAlignment, q.alignment))
<1>1. q.alignment \in Nat \ {0} /\ InitialAlignment \in Nat /\ normalized_size(q) \in Nat
  BY ArenaAssumption, SizeType, Zenon
<1>2. /\ chunk.capacity \in Nat /\ normalized_size(q) <= chunk.capacity
      /\ chunk.alignment \in Nat /\ q.alignment <= chunk.alignment
      /\ chunk.offset = 0
  BY <1>1 DEF NewChunk, CapacityFor, LargerOf
<1>3. chunk \in Chunk
  BY <1>2, Zenon DEF NewChunk, Chunk
<1>4. Start(chunk, q) = 0
  <2> HIDE DEF chunk
  <2> DEFINE a == q.alignment
  <2>1. Start(chunk, q) = 0 + ((a - (0 % a)) % a)
    BY <1>2, Zenon DEF Start
  <2> HIDE DEF a
  <2>2. a \in Nat \ {0}
    BY <1>1, Zenon DEF a
  <2>3. 0 % a = 0 /\ a % a = 0
    BY <2>2, ModuloFacts, Zenon
  <2> QED
    BY <2>1, <2>2, <2>3
<1> HIDE DEF chunk
<1>5. Fits(chunk, q)
  BY <1>1, <1>2, <1>4 DEF Fits
<1> QED
  BY <1>3, <1>5, Zenon DEF chunk

------------------------------------------------------------------------------
(***************************************************************************)
(* An allocation.                                                          *)
(***************************************************************************)
Allocation == [chunk : Nat, from : Nat, previous : Nat, consumed : Nat]

\* LiveRegionsSafe for the chunks cs.
SafeIn(cs) ==
    /\ \A r \in live :
          /\ r.chunk \in DOMAIN cs
          /\ r.from < r.to /\ r.to <= cs[r.chunk].offset
          /\ cs[r.chunk].offset <= cs[r.chunk].capacity
    /\ \A r, s \in live : r # s /\ r.chunk = s.chunk => r.to <= s.from \/ s.to <= r.from

Held == {[chunk |-> r.chunk, from |-> r.from] : r \in live}

\* try_allocate and record_allocation keep the regions apart and aligned,
\* remember the newest one, and hand out storage nobody holds.
LEMMA TakeKeeps ==
    ASSUME NEW cs \in Seq(Chunk), NEW i \in 1 .. Len(cs), NEW q \in Requests,
           q.alignment \in PowersOfTwo, Fits(cs[i], q),
           live \subseteq Region, SafeIn(cs), RegionsAligned, Take(cs, i, q)
    PROVE  /\ chunks' \in Seq(Chunk) /\ Len(chunks') = Len(cs)
           /\ live' \subseteq Region
           /\ last_allocation' \in Allocation
           /\ LiveRegionsSafe' /\ CursorInvariant' /\ RegionsAligned'
           /\ Storage(last_allocation') \in Address
           /\ Storage(last_allocation') \notin Held
           /\ Held' = Held \cup {Storage(last_allocation')}
<1> DEFINE from == Start(cs[i], q)
           to == from + normalized_size(q)
           old == cs[i].offset
           a == q.alignment
           region == [chunk |-> i, from |-> from, to |-> to, alignment |-> a]
<1>1. cs[i] \in Chunk
  OBVIOUS
<1>2. /\ from \in Nat /\ to \in Nat /\ old \in Nat /\ a \in Nat \ {0}
      /\ old <= from /\ from < to /\ to <= cs[i].capacity
      /\ from % a = 0
  <2>1. from \in Nat /\ old <= from /\ from % a = 0
    BY <1>1, StartProperties, Zenon
  <2>2. normalized_size(q) \in Nat \ {0} /\ a \in Nat \ {0}
    BY SizeType, ArenaAssumption, Zenon
  <2>3. old \in Nat /\ to <= cs[i].capacity
    BY <1>1, Zenon DEF Chunk, Fits
  <2> HIDE DEF from, old, a
  <2> QED
    BY <2>1, <2>2, <2>3
<1>3. /\ chunks' = [cs EXCEPT ![i].offset = to]
      /\ last_allocation' = [chunk |-> i, from |-> from, previous |-> old,
                             consumed |-> to - old]
      /\ live' = live \cup {region}
  BY Zenon DEF Take
<1> HIDE DEF from, to, old, a
<1>4. /\ chunks' \in Seq(Chunk) /\ Len(chunks') = Len(cs)
      /\ \A j \in 1 .. Len(cs) : chunks'[j].capacity = cs[j].capacity
      /\ \A j \in 1 .. Len(cs) : j # i => chunks'[j] = cs[j]
      /\ chunks'[i].offset = to
  <2> DEFINE new == [cs[i] EXCEPT !.offset = to]
  <2>1. new \in Chunk /\ new.capacity = cs[i].capacity /\ new.offset = to
    BY <1>1, <1>2, Zenon DEF Chunk
  <2>2. chunks' = [cs EXCEPT ![i] = new]
    BY <1>3, Zenon
  <2> HIDE DEF new
  <2> QED
    BY <2>1, <2>2
<1>5. live' \subseteq Region /\ last_allocation' \in Allocation
  BY <1>2, <1>3 DEF Region, Allocation
<1>6. \A r \in live : /\ r.chunk \in 1 .. Len(cs) /\ r.from < r.to
                      /\ r.from \in Nat /\ r.to \in Nat
                      /\ r.to <= cs[r.chunk].offset
                      /\ cs[r.chunk].offset <= cs[r.chunk].capacity
                      /\ r.chunk = i => r.to <= old
  BY DEF SafeIn, Region, old
<1>7. LiveRegionsSafe'
  <2>1. ASSUME NEW r \in live'
        PROVE  /\ r.chunk \in DOMAIN chunks'
               /\ r.from < r.to /\ r.to <= chunks'[r.chunk].offset
               /\ chunks'[r.chunk].offset <= chunks'[r.chunk].capacity
    <3>1. CASE r = region
      BY <1>2, <1>4, <3>1
    <3>2. CASE r \in live /\ r.chunk = i
      BY <1>2, <1>4, <1>6, <3>2
    <3>3. CASE r \in live /\ r.chunk # i
      BY <1>4, <1>6, <3>3
    <3> QED
      BY <1>3, <2>1, <3>1, <3>2, <3>3, Zenon
  <2>2. ASSUME NEW r \in live', NEW s \in live', r # s, r.chunk = s.chunk
        PROVE  r.to <= s.from \/ s.to <= r.from
    <3>1. CASE r \in live /\ s \in live
      BY <2>2, <3>1, Zenon DEF SafeIn
    <3>2. CASE r \in live /\ s = region
      BY <1>2, <1>6, <2>2, <3>2
    <3>3. CASE s \in live /\ r = region
      BY <1>2, <1>6, <2>2, <3>3
    <3> QED
      BY <1>3, <2>2, <3>1, <3>2, <3>3, Zenon
  <2> QED
    BY <2>1, <2>2, Zenon DEF LiveRegionsSafe
<1>8. CursorInvariant'
  <2>1. last_allocation'.chunk = i /\ last_allocation'.from = from
        /\ last_allocation'.previous = old /\ last_allocation'.consumed = to - old
    BY <1>3, Zenon
  <2>2. \A r \in live' : r.chunk = i => r.from = from \/ r.to <= old
    BY <1>3, <1>6
  <2>3. i \in DOMAIN chunks' /\ chunks'[i].offset = old + (to - old)
    BY <1>2, <1>4
  <2> QED
    BY <2>1, <2>2, <2>3, Zenon DEF CursorInvariant
<1>9. RegionsAligned'
  BY <1>2, <1>3 DEF RegionsAligned
<1>10. Storage(last_allocation') = [chunk |-> i, from |-> from]
  BY <1>3, Zenon DEF Storage
<1>11. Storage(last_allocation') \notin Held
  <2> SUFFICES ASSUME NEW r \in live, [chunk |-> r.chunk, from |-> r.from] = [chunk |-> i, from |-> from]
               PROVE  FALSE
    BY <1>10, Zenon DEF Held
  <2>1. r.chunk = i /\ r.from = from
    BY Zenon
  <2> QED
    BY <2>1, <1>2, <1>6
<1>12. Held' = Held \cup {Storage(last_allocation')}
  <2>1. Held' = {[chunk |-> r.chunk, from |-> r.from] : r \in live \cup {region}}
    BY <1>3, Zenon DEF Held
  <2>2. region.chunk = i /\ region.from = from
    BY Zenon
  <2> HIDE DEF region
  <2> QED
    BY <2>1, <2>2, <1>10, Zenon DEF Held
<1>13. Storage(last_allocation') \in Address
  BY <1>2, <1>10 DEF Address
<1> QED
  BY <1>4, <1>5, <1>7, <1>8, <1>9, <1>11, <1>12, <1>13, Zenon

------------------------------------------------------------------------------
(***************************************************************************)
(* The inductive invariant.                                                *)
(***************************************************************************)
ArenaTypes ==
    /\ options \in [growth : Growths, reset : ResetPolicies]
    /\ chunks \in Seq(Chunk)
    /\ current_chunk \in Nat \ {0}
    /\ next_chunk_size \in Nat
    /\ last_allocation \in Allocation
    /\ live \subseteq Region
    /\ broken = FALSE

\* The chunks are gone only once the arena is.
ChunksUntilDead == chunks # <<>> \/ stack = <<Plain("dead")>>

Regions == LiveRegionsSafe /\ CursorInvariant /\ RegionsAligned

Building == {"construct", "unwind"}

\* Registered objects and objects under construction hold their storage, no
\* two of them the same, and a reset has no construction below it.
ObjectsKept ==
    /\ stack \in Seq(Frame) /\ destructors \in Seq(Address)
    /\ \A i \in 1 .. Len(destructors) : destructors[i] \in Held
    /\ \A i \in 1 .. Len(stack) : stack[i].kind \in Building => stack[i].at \in Held
    /\ \A i, j \in 1 .. Len(stack) :
          i # j /\ stack[i].kind \in Building /\ stack[j].kind \in Building => stack[i].at # stack[j].at
    /\ \A i \in 1 .. Len(stack), j \in 1 .. Len(destructors) :
          stack[i].kind \in Building => stack[i].at # destructors[j]
    /\ \A i, j \in 1 .. Len(stack) :
          i < j /\ stack[j].kind = "reset" => stack[i].kind \notin Building

ArenaInvariant == ArenaTypes /\ ChunksUntilDead /\ Regions /\ ObjectsKept

LEMMA InitKeeps == Init => ArenaInvariant
<1> SUFFICES ASSUME Init
             PROVE  ArenaInvariant
  BY Zenon
<1>1. ArenaTypes
  <2>1. NewChunk(InitialSize, InitialAlignment) \in Chunk
    BY ArenaAssumption, Zenon DEF NewChunk, Chunk
  <2>2. options \in [growth : Growths, reset : ResetPolicies]
    BY Zenon DEF Init
  <2>3. next_chunk_size \in Nat
    BY <2>2, NextSizeType, ArenaAssumption, Zenon DEF Init
  <2>4. NoAllocation \in Allocation
    BY Zenon DEF NoAllocation, Allocation
  <2>5. chunks \in Seq(Chunk)
    BY <2>1 DEF Init
  <2> QED
    BY <2>2, <2>3, <2>4, <2>5 DEF Init, ArenaTypes
<1>2. ChunksUntilDead
  BY Zenon DEF Init, ChunksUntilDead
<1>3. Regions
  BY Zenon DEF Init, Regions, LiveRegionsSafe, CursorInvariant, RegionsAligned, NoAllocation
<1>4. ObjectsKept
  BY DEF Init, ObjectsKept
<1> QED
  BY <1>1, <1>2, <1>3, <1>4, Zenon DEF ArenaInvariant

LEMMA DeadTop ==
    ASSUME stack = <<Plain("dead")>>
    PROVE  stack # <<>> /\ Top.kind = "dead"
<1> DEFINE frame == Plain("dead")
<1>1. frame.kind = "dead"
  BY Zenon DEF Plain
<1>2. stack = <<frame>>
  BY Zenon
<1> HIDE DEF frame
<1> QED
  BY <1>1, <1>2 DEF Top

\* allocate() when it succeeds, from the chunks in place or from a new one.
LEMMA ServeKeeps ==
    ASSUME ArenaInvariant, NEW q \in Requests, Serve(q)
    PROVE  /\ ArenaTypes' /\ chunks' # <<>> /\ Regions'
           /\ Storage(last_allocation') \in Address
           /\ Storage(last_allocation') \notin Held
           /\ Held' = Held \cup {Storage(last_allocation')}
<1>1. /\ q.alignment \in PowersOfTwo
      /\ FirstFit(q) \/ AddChunk(q)
      /\ UserCode
      /\ options' = options
  BY Zenon DEF Serve, Requested
<1>2. /\ chunks \in Seq(Chunk) /\ next_chunk_size \in Nat /\ live \subseteq Region
      /\ current_chunk \in Nat \ {0} /\ broken = FALSE
      /\ options \in [growth : Growths, reset : ResetPolicies]
      /\ LiveRegionsSafe /\ RegionsAligned
  BY Zenon DEF ArenaInvariant, ArenaTypes, Regions
<1>3. chunks # <<>>
  <2>1. stack # <<Plain("dead")>>
    BY <1>1, DeadTop, Zenon DEF UserCode
  <2> QED
    BY <2>1, Zenon DEF ArenaInvariant, ChunksUntilDead
<1>4. CASE FirstFit(q)
  <2>1. PICK i \in current_chunk .. Len(chunks) : Fits(chunks[i], q) /\ Take(chunks, i, q)
    BY <1>4, Zenon DEF FirstFit
  <2>2. i \in 1 .. Len(chunks) /\ i \in Nat \ {0}
    BY <1>2
  <2>3. SafeIn(chunks)
    BY <1>2, Zenon DEF SafeIn, LiveRegionsSafe
  <2>4. /\ chunks' \in Seq(Chunk) /\ Len(chunks') = Len(chunks)
        /\ live' \subseteq Region
        /\ last_allocation' \in Allocation
        /\ LiveRegionsSafe' /\ CursorInvariant' /\ RegionsAligned'
        /\ Storage(last_allocation') \in Address
        /\ Storage(last_allocation') \notin Held
        /\ Held' = Held \cup {Storage(last_allocation')}
    BY <1>1, <1>2, <2>1, <2>2, <2>3, TakeKeeps, Zenon
  <2>5. chunks' # <<>>
    BY <1>2, <1>3, <2>4
  <2>6. current_chunk' = i /\ next_chunk_size' = next_chunk_size /\ broken' = broken
    BY <1>4, <2>1, Zenon DEF FirstFit, Take
  <2> QED
    BY <1>1, <1>2, <2>2, <2>4, <2>5, <2>6, Zenon DEF ArenaTypes, Regions
<1>5. CASE AddChunk(q)
  <2> DEFINE chunk == NewChunk(CapacityFor(q), LargerOf(InitialAlignment, q.alignment))
             cs == Append(chunks, chunk)
  <2>1. chunk \in Chunk /\ Fits(chunk, q)
    BY <1>1, <1>2, NewChunkFits, Zenon
  <2>2. /\ next_chunk_size' = calculate_next_chunk_size(next_chunk_size)
        /\ Take(cs, Len(cs), q) /\ broken' = broken
    BY <1>5, <2>1, Zenon DEF AddChunk
  <2> HIDE DEF chunk
  <2>3. /\ cs \in Seq(Chunk) /\ Len(cs) = Len(chunks) + 1 /\ Len(cs) \in Nat \ {0}
        /\ cs[Len(cs)] = chunk
        /\ \A j \in 1 .. Len(chunks) : cs[j] = chunks[j]
    BY <1>2, <2>1
  <2>4. SafeIn(cs)
    <3>1. \A r \in live : r.chunk \in 1 .. Len(chunks) /\ r.chunk \in 1 .. Len(cs)
      BY <1>2, <2>3 DEF LiveRegionsSafe
    <3> HIDE DEF cs
    <3>2. DOMAIN cs = 1 .. Len(cs)
      BY <2>3
    <3> QED
      BY <1>2, <2>3, <3>1, <3>2, Zenon DEF SafeIn, LiveRegionsSafe
  <2> HIDE DEF cs
  <2> DEFINE n == Len(cs)
  <2>5. n \in 1 .. Len(cs) /\ n \in Nat \ {0}
    BY <2>3
  <2>6. Fits(cs[n], q) /\ Take(cs, n, q)
    BY <2>1, <2>2, <2>3, Zenon
  <2> HIDE DEF n
  <2>7. /\ chunks' \in Seq(Chunk) /\ Len(chunks') = Len(cs)
        /\ live' \subseteq Region
        /\ last_allocation' \in Allocation
        /\ LiveRegionsSafe' /\ CursorInvariant' /\ RegionsAligned'
        /\ Storage(last_allocation') \in Address
        /\ Storage(last_allocation') \notin Held
        /\ Held' = Held \cup {Storage(last_allocation')}
    BY <1>1, <1>2, <2>3, <2>4, <2>5, <2>6, TakeKeeps, Zenon
  <2>8. chunks' # <<>>
    BY <2>3, <2>7, Zenon
  <2>9. next_chunk_size' \in Nat
    BY <1>2, <2>2, NextSizeType, Zenon
  <2>10. current_chunk' = n
    BY <2>6, Zenon DEF Take
  <2> QED
    BY <1>1, <1>2, <2>2, <2>5, <2>7, <2>8, <2>9, <2>10, Zenon DEF ArenaTypes, Regions
<1> QED
  BY <1>1, <1>4, <1>5, Zenon

LEMMA AllocateKeeps ==
    ASSUME ArenaInvariant, NEW q \in Requests, Allocate(q)
    PROVE  ArenaInvariant'
<1>1. Serve(q) /\ stack' = stack /\ destructors' = destructors
  BY Zenon DEF Allocate, Serve
<1>2. ArenaTypes' /\ chunks' # <<>> /\ Regions' /\ Held \subseteq Held'
  BY <1>1, ServeKeeps, Zenon
<1>3. ObjectsKept'
  BY <1>1, <1>2 DEF ArenaInvariant, ObjectsKept
<1> QED
  BY <1>2, <1>3, Zenon DEF ArenaInvariant, ChunksUntilDead

------------------------------------------------------------------------------
(***************************************************************************)
(* The calls in progress.                                                  *)
(***************************************************************************)
LEMMA PushFacts ==
    ASSUME stack \in Seq(Frame), NEW frame \in Frame, Push(frame)
    PROVE  /\ stack' \in Seq(Frame) /\ Len(stack) \in Nat /\ Len(stack') = Len(stack) + 1
           /\ \A i \in 1 .. Len(stack) : stack'[i] = stack[i]
           /\ stack'[Len(stack) + 1] = frame
<1>1. stack' = Append(stack, frame)
  BY Zenon DEF Push
<1> QED
  BY <1>1

LEMMA FrontFacts ==
    ASSUME NEW S, NEW s \in Seq(S), s # <<>>, NEW front, front = SubSeq(s, 1, Len(s) - 1)
    PROVE  /\ front \in Seq(S) /\ DOMAIN front = 1 .. Len(s) - 1
           /\ Len(s) \in DOMAIN s
           /\ \A i \in DOMAIN front : front[i] = s[i]
           /\ s[Len(s)] \in S
<1>1. Len(s) \in Nat /\ Len(s) # 0 /\ DOMAIN s = 1 .. Len(s) /\ \A i \in 1 .. Len(s) : s[i] \in S
  BY LenProperties, ElementOfSeq, EmptySeq, Zenon
<1> DEFINE n == Len(s) - 1
<1>2. n \in Int /\ 1 \in Int /\ \A i \in 1 .. n : s[i] \in S
  BY <1>1
<1>3. /\ SubSeq(s, 1, n) \in Seq(S)
      /\ Len(SubSeq(s, 1, n)) = IF 1 <= n THEN n - 1 + 1 ELSE 0
      /\ \A i \in 1 .. n - 1 + 1 : SubSeq(s, 1, n)[i] = s[1 + i - 1]
  <2> HIDE DEF n
  <2> QED
    BY <1>2, SubSeqProperties
<1>4. front = SubSeq(s, 1, n) /\ n \in Nat
  BY <1>1
<1>5. /\ front \in Seq(S)
      /\ Len(front) = IF 1 <= n THEN n - 1 + 1 ELSE 0
      /\ \A i \in 1 .. n - 1 + 1 : front[i] = s[1 + i - 1]
  <2> HIDE DEF n
  <2> QED
    BY <1>3, <1>4, Zenon
<1>6. Len(front) = n /\ \A i \in 1 .. n : front[i] = s[i]
  <2> HIDE DEF n
  <2> QED
    BY <1>4, <1>5
<1>7. DOMAIN front = 1 .. n
  BY <1>5, <1>6, LenProperties, Zenon
<1> QED
  BY <1>1, <1>5, <1>6, <1>7

LEMMA PoppedFacts ==
    ASSUME stack \in Seq(Frame), stack # <<>>
    PROVE  /\ Popped \in Seq(Frame) /\ Len(stack) \in Nat \ {0} /\ Len(Popped) = Len(stack) - 1
           /\ \A i \in 1 .. Len(stack) - 1 : Popped[i] = stack[i]
           /\ Top \in Frame /\ Top = stack[Len(stack)]
<1>1. Popped = SubSeq(stack, 1, Len(stack) - 1)
  BY Zenon DEF Popped
<1>2. /\ Popped \in Seq(Frame) /\ DOMAIN Popped = 1 .. Len(stack) - 1
      /\ Len(stack) \in DOMAIN stack
      /\ \A i \in DOMAIN Popped : Popped[i] = stack[i]
      /\ stack[Len(stack)] \in Frame
  BY <1>1, FrontFacts
<1>3. Len(stack) \in Nat \ {0} /\ Len(Popped) = Len(stack) - 1
  BY <1>2
<1> QED
  BY <1>2, <1>3, Zenon DEF Top

LEMMA StillRunning ==
    ASSUME ArenaInvariant, stack # <<>> => Top.kind # "dead"
    PROVE  chunks # <<>>
  BY DeadTop, Zenon DEF ArenaInvariant, ChunksUntilDead

\* A step that leaves the arena alone.
LEMMA ArenaUnchanged ==
    ASSUME ArenaInvariant, UNCHANGED <<options, arena, broken, live>>
    PROVE  ArenaTypes' /\ Regions' /\ Held' = Held /\ chunks' = chunks
<1>1. /\ options' = options /\ chunks' = chunks /\ current_chunk' = current_chunk
      /\ next_chunk_size' = next_chunk_size /\ last_allocation' = last_allocation
      /\ broken' = broken /\ live' = live
  BY Zenon DEF arena
<1> QED
  BY <1>1, Zenon DEF ArenaInvariant, ArenaTypes, Regions, LiveRegionsSafe, CursorInvariant,
              RegionsAligned, Held

\* A frame of a call that is not building an object, and is no reset.
LEMMA PushKeepsObjects ==
    ASSUME ObjectsKept, NEW frame \in Frame, Push(frame), frame.kind \notin Building,
           frame.kind = "reset" => \A i \in 1 .. Len(stack) : stack[i].kind \notin Building,
           Held' = Held,
           destructors' \in Seq(Address),
           \A i \in 1 .. Len(destructors') : \E j \in 1 .. Len(destructors) : destructors'[i] = destructors[j]
    PROVE  ObjectsKept'
<1>1. /\ stack' \in Seq(Frame) /\ Len(stack) \in Nat /\ Len(stack') = Len(stack) + 1
      /\ \A i \in 1 .. Len(stack) : stack'[i] = stack[i]
      /\ stack'[Len(stack) + 1] = frame
  BY PushFacts, Zenon DEF ObjectsKept
<1>2. \A i \in 1 .. Len(stack') : stack'[i].kind \in Building =>
          i \in 1 .. Len(stack) /\ stack'[i] = stack[i] /\ stack[i].kind \in Building
  BY <1>1
<1>3. \A i, j \in 1 .. Len(stack') :
          i < j /\ stack'[j].kind = "reset" => stack'[i].kind \notin Building
  <2> SUFFICES ASSUME NEW i \in 1 .. Len(stack'), NEW j \in 1 .. Len(stack'), i < j,
                      stack'[j].kind = "reset"
               PROVE  stack'[i].kind \notin Building
    BY Zenon
  <2>1. i \in 1 .. Len(stack) /\ stack'[i] = stack[i]
    BY <1>1
  <2>2. CASE j \in 1 .. Len(stack)
    BY <1>1, <2>1, <2>2, Zenon DEF ObjectsKept
  <2>3. CASE j = Len(stack) + 1
    BY <1>1, <2>1, <2>3, Zenon
  <2> QED
    BY <1>1, <2>2, <2>3
<1>4. \A i \in 1 .. Len(destructors') : destructors'[i] \in Held'
  <2>1. \A j \in 1 .. Len(destructors) : destructors[j] \in Held
    BY Zenon DEF ObjectsKept
  <2> QED
    BY <2>1, Zenon
<1>5. \A i \in 1 .. Len(stack') : stack'[i].kind \in Building => stack'[i].at \in Held'
  <2>1. \A i \in 1 .. Len(stack) : stack[i].kind \in Building => stack[i].at \in Held
    BY Zenon DEF ObjectsKept
  <2> QED
    BY <1>2, <2>1, Zenon
<1>6. \A i \in 1 .. Len(stack'), j \in 1 .. Len(destructors') :
          stack'[i].kind \in Building => stack'[i].at # destructors'[j]
  <2>1. \A i \in 1 .. Len(stack), j \in 1 .. Len(destructors) :
            stack[i].kind \in Building => stack[i].at # destructors[j]
    BY Zenon DEF ObjectsKept
  <2> QED
    BY <1>2, <2>1, Zenon
<1>7. \A i, j \in 1 .. Len(stack') :
          i # j /\ stack'[i].kind \in Building /\ stack'[j].kind \in Building
          => stack'[i].at # stack'[j].at
  BY <1>2 DEF ObjectsKept
<1> QED
  BY <1>1, <1>3, <1>4, <1>5, <1>6, <1>7, Zenon DEF ObjectsKept, Building

LEMMA PopKeepsObjects ==
    ASSUME ObjectsKept, stack # <<>>, stack' = Popped, Held' = Held, destructors' = destructors
    PROVE  ObjectsKept'
<1>1. /\ stack' \in Seq(Frame) /\ Len(stack) \in Nat \ {0} /\ Len(stack') = Len(stack) - 1
      /\ \A i \in 1 .. Len(stack') : stack'[i] = stack[i] /\ i \in 1 .. Len(stack)
  BY PoppedFacts DEF ObjectsKept
<1> QED
  BY <1>1 DEF ObjectsKept

LEMMA PlainFrame ==
    ASSUME NEW kind \in {"reset", "end", "dead"}
    PROVE  Plain(kind) \in Frame /\ Plain(kind).kind = kind /\ kind \notin Building
  BY Zenon DEF Plain, Frame, Nowhere, Address, Building

------------------------------------------------------------------------------
(***************************************************************************)
(* create.                                                                 *)
(***************************************************************************)
LEMMA AllocateFailsKeeps ==
    ASSUME ArenaInvariant, NEW q \in Requests, AllocateFails(q)
    PROVE  ArenaInvariant'
<1>1. /\ UNCHANGED <<options, arena, broken, live>>
      /\ stack' = stack /\ destructors' = destructors
  BY Zenon DEF AllocateFails
<1>2. ArenaTypes' /\ Regions' /\ Held' = Held /\ chunks' = chunks
  BY <1>1, ArenaUnchanged, Zenon
<1>3. ChunksUntilDead'
  BY <1>1, <1>2, Zenon DEF ArenaInvariant, ChunksUntilDead
<1>4. ObjectsKept'
  BY <1>1, <1>2, Zenon DEF ArenaInvariant, ObjectsKept
<1> QED
  BY <1>2, <1>3, <1>4, Zenon DEF ArenaInvariant

LEMMA CreateKeeps ==
    ASSUME ArenaInvariant, NEW q \in Requests, NEW trivial \in BOOLEAN, Create(q, trivial)
    PROVE  ArenaInvariant'
<1> DEFINE at == Storage(last_allocation')
           frame == [kind |-> "construct", at |-> at, trivial |-> trivial]
<1>1. Serve(q) /\ Push(frame) /\ destructors' = destructors
  BY Zenon DEF Create, Serve
<1>2. /\ ArenaTypes' /\ chunks' # <<>> /\ Regions'
      /\ at \in Address /\ at \notin Held /\ Held' = Held \cup {at}
  BY <1>1, ServeKeeps, Zenon
<1> HIDE DEF at
<1>3. frame \in Frame /\ frame.kind = "construct" /\ frame.at = at
  BY <1>2, Zenon DEF Frame
<1> HIDE DEF frame
<1>4. /\ stack \in Seq(Frame) /\ destructors \in Seq(Address)
      /\ \A i \in 1 .. Len(destructors) : destructors[i] \in Held
      /\ \A i \in 1 .. Len(stack) : stack[i].kind \in Building => stack[i].at \in Held
  BY Zenon DEF ArenaInvariant, ObjectsKept
<1>5. /\ stack' \in Seq(Frame) /\ Len(stack) \in Nat /\ Len(stack') = Len(stack) + 1
      /\ \A i \in 1 .. Len(stack) : stack'[i] = stack[i]
      /\ stack'[Len(stack) + 1] = frame
  BY <1>1, <1>3, <1>4, PushFacts, Zenon
<1>6. \A i \in 1 .. Len(stack') :
          \/ i \in 1 .. Len(stack) /\ stack'[i] = stack[i]
          \/ i = Len(stack) + 1 /\ stack'[i].at = at /\ stack'[i].kind = "construct"
  BY <1>3, <1>5
<1>7. \A i, j \in 1 .. Len(stack') :
          i # j /\ stack'[i].kind \in Building /\ stack'[j].kind \in Building
          => stack'[i].at # stack'[j].at
  <2> SUFFICES ASSUME NEW i \in 1 .. Len(stack'), NEW j \in 1 .. Len(stack'), i # j,
                      stack'[i].kind \in Building, stack'[j].kind \in Building
               PROVE  stack'[i].at # stack'[j].at
    BY Zenon
  <2>1. CASE i \in 1 .. Len(stack) /\ j \in 1 .. Len(stack)
    BY <1>5, <2>1, Zenon DEF ArenaInvariant, ObjectsKept
  <2>2. CASE i = Len(stack) + 1 /\ j \in 1 .. Len(stack)
    BY <1>2, <1>3, <1>4, <1>5, <2>2, Zenon
  <2>3. CASE j = Len(stack) + 1 /\ i \in 1 .. Len(stack)
    BY <1>2, <1>3, <1>4, <1>5, <2>3, Zenon
  <2> QED
    BY <1>5, <2>1, <2>2, <2>3
<1>8. /\ \A i \in 1 .. Len(destructors') : destructors'[i] \in Held'
      /\ \A i \in 1 .. Len(stack') : stack'[i].kind \in Building => stack'[i].at \in Held'
  BY <1>1, <1>2, <1>4, <1>6, Zenon
<1>9. \A i \in 1 .. Len(stack'), j \in 1 .. Len(destructors') :
          stack'[i].kind \in Building => stack'[i].at # destructors'[j]
  <2>1. \A i \in 1 .. Len(stack), j \in 1 .. Len(destructors) :
            stack[i].kind \in Building => stack[i].at # destructors[j]
    BY Zenon DEF ArenaInvariant, ObjectsKept
  <2> QED
    BY <1>1, <1>2, <1>4, <1>6, <2>1, Zenon
<1>10. \A i, j \in 1 .. Len(stack') :
          i < j /\ stack'[j].kind = "reset" => stack'[i].kind \notin Building
  <2>1. \A i, j \in 1 .. Len(stack) :
            i < j /\ stack[j].kind = "reset" => stack[i].kind \notin Building
    BY Zenon DEF ArenaInvariant, ObjectsKept
  <2>2. \A i, j \in 1 .. Len(stack') : i < j /\ j \in 1 .. Len(stack) => i \in 1 .. Len(stack)
    BY <1>5
  <2> QED
    BY <1>6, <2>1, <2>2
<1>11. ObjectsKept'
  BY <1>1, <1>4, <1>5, <1>7, <1>8, <1>9, <1>10, Zenon DEF ObjectsKept, Building
<1> QED
  BY <1>2, <1>11, Zenon DEF ArenaInvariant, ChunksUntilDead

LEMMA ConstructorReturnsKeeps ==
    ASSUME ArenaInvariant, ConstructorReturns
    PROVE  ArenaInvariant'
<1>1. /\ stack # <<>> /\ Top.kind = "construct" /\ stack' = Popped
      /\ UNCHANGED <<options, arena, broken, live>>
      /\ \/ destructors' = destructors
         \/ destructors' = Append(destructors, Top.at)
  BY Zenon DEF ConstructorReturns
<1>2. ArenaTypes' /\ Regions' /\ Held' = Held /\ chunks' = chunks
  BY <1>1, ArenaUnchanged, Zenon
<1>3. chunks # <<>>
  BY <1>1, StillRunning, Zenon
<1>4. ObjectsKept
  BY Zenon DEF ArenaInvariant
<1>5. ObjectsKept'
  <2>1. CASE destructors' = destructors
    BY <1>1, <1>2, <1>4, <2>1, PopKeepsObjects, Zenon
  <2>2. CASE destructors' = Append(destructors, Top.at)
    <3>1. /\ Popped \in Seq(Frame) /\ Len(stack) \in Nat \ {0} /\ Len(Popped) = Len(stack) - 1
          /\ \A i \in 1 .. Len(stack) - 1 : Popped[i] = stack[i]
          /\ Top \in Frame /\ Top = stack[Len(stack)]
      BY <1>1, <1>4, PoppedFacts, Zenon DEF ObjectsKept
    <3>2. \A i \in 1 .. Len(stack') : /\ stack'[i] = stack[i] /\ i \in 1 .. Len(stack)
                                      /\ i # Len(stack)
      BY <1>1, <3>1
    <3>3. Top.at \in Address /\ Top.at \in Held /\ Len(stack) \in 1 .. Len(stack)
      BY <1>1, <1>4, <3>1 DEF Frame, ObjectsKept, Building
    <3>4. /\ destructors' \in Seq(Address) /\ Len(destructors) \in Nat
          /\ Len(destructors') = Len(destructors) + 1
          /\ \A j \in 1 .. Len(destructors) : destructors'[j] = destructors[j]
          /\ destructors'[Len(destructors) + 1] = Top.at
      BY <1>4, <2>2, <3>3 DEF ObjectsKept
    <3>5. \A j \in 1 .. Len(destructors') :
              \/ j \in 1 .. Len(destructors) /\ destructors'[j] = destructors[j]
              \/ destructors'[j] = Top.at
      BY <3>4
    <3>6. \A i \in 1 .. Len(stack') : stack'[i].kind \in Building => stack'[i].at # Top.at
      BY <1>1, <1>4, <3>1, <3>2, <3>3 DEF ObjectsKept, Building
    <3>7. /\ stack' \in Seq(Frame)
          /\ \A i \in 1 .. Len(destructors') : destructors'[i] \in Held'
          /\ \A i \in 1 .. Len(stack') : stack'[i].kind \in Building => stack'[i].at \in Held'
      BY <1>1, <1>2, <1>4, <3>1, <3>2, <3>3, <3>5, Zenon DEF ObjectsKept
    <3>8. \A i \in 1 .. Len(stack'), j \in 1 .. Len(destructors') :
              stack'[i].kind \in Building => stack'[i].at # destructors'[j]
      BY <1>4, <3>2, <3>5, <3>6 DEF ObjectsKept
    <3>9. \A i, j \in 1 .. Len(stack') :
              /\ i # j /\ stack'[i].kind \in Building /\ stack'[j].kind \in Building
                 => stack'[i].at # stack'[j].at
              /\ i < j /\ stack'[j].kind = "reset" => stack'[i].kind \notin Building
      BY <1>4, <3>2, Zenon DEF ObjectsKept
    <3> QED
      BY <3>4, <3>7, <3>8, <3>9, Zenon DEF ObjectsKept, Building
  <2> QED
    BY <1>1, <2>1, <2>2, Zenon
<1> QED
  BY <1>2, <1>3, <1>5, Zenon DEF ArenaInvariant, ChunksUntilDead

LEMMA RegistrationFailsKeeps ==
    ASSUME ArenaInvariant, RegistrationFails
    PROVE  ArenaInvariant'
<1>1. /\ stack # <<>> /\ Top.kind = "construct"
      /\ stack' = [stack EXCEPT ![Len(stack)].kind = "unwind"]
      /\ UNCHANGED <<options, arena, broken, live>>
      /\ destructors' = destructors
  BY Zenon DEF RegistrationFails
<1>2. ArenaTypes' /\ Regions' /\ Held' = Held /\ chunks' = chunks
  BY <1>1, ArenaUnchanged, Zenon
<1>3. chunks # <<>>
  BY <1>1, StillRunning, Zenon
<1>4. stack \in Seq(Frame) /\ Len(stack) \in Nat \ {0} /\ Top \in Frame /\ Top = stack[Len(stack)]
  BY <1>1, PoppedFacts, Zenon DEF ArenaInvariant, ObjectsKept
<1> DEFINE n == Len(stack)
           new == [stack[n] EXCEPT !.kind = "unwind"]
<1>5. new \in Frame /\ new.at = stack[n].at /\ new.kind = "unwind"
  BY <1>4, Zenon DEF Frame
<1>6. stack' = [stack EXCEPT ![n] = new] /\ n \in 1 .. Len(stack) /\ stack[n].kind = "construct"
  BY <1>1, <1>4
<1> HIDE DEF new
<1>7. /\ stack' \in Seq(Frame) /\ Len(stack') = Len(stack)
      /\ \A i \in 1 .. Len(stack) : i # n => stack'[i] = stack[i]
      /\ stack'[n] = new
  BY <1>4, <1>5, <1>6
<1>8. \A i \in 1 .. Len(stack) : /\ stack'[i].at = stack[i].at
                                 /\ stack'[i].kind \in Building <=> stack[i].kind \in Building
                                 /\ stack'[i].kind = "reset" <=> stack[i].kind = "reset"
  BY <1>5, <1>6, <1>7, Zenon DEF Building
<1> HIDE DEF n
<1>9. ObjectsKept'
  <2>1. /\ \A i \in 1 .. Len(destructors') : destructors'[i] \in Held'
        /\ \A i \in 1 .. Len(stack') : stack'[i].kind \in Building => stack'[i].at \in Held'
    BY <1>1, <1>2, <1>7, <1>8 DEF ArenaInvariant, ObjectsKept
  <2>2. \A i, j \in 1 .. Len(stack') :
            i # j /\ stack'[i].kind \in Building /\ stack'[j].kind \in Building
            => stack'[i].at # stack'[j].at
    BY <1>7, <1>8 DEF ArenaInvariant, ObjectsKept
  <2>3. \A i \in 1 .. Len(stack'), j \in 1 .. Len(destructors') :
            stack'[i].kind \in Building => stack'[i].at # destructors'[j]
    BY <1>1, <1>7, <1>8 DEF ArenaInvariant, ObjectsKept
  <2>4. \A i, j \in 1 .. Len(stack') :
            i < j /\ stack'[j].kind = "reset" => stack'[i].kind \notin Building
    BY <1>7, <1>8, Zenon DEF ArenaInvariant, ObjectsKept
  <2>5. stack' \in Seq(Frame) /\ destructors' \in Seq(Address)
    BY <1>1, <1>7, Zenon DEF ArenaInvariant, ObjectsKept
  <2> QED
    BY <2>1, <2>2, <2>3, <2>4, <2>5, Zenon DEF ObjectsKept, Building
<1> QED
  BY <1>2, <1>3, <1>9, Zenon DEF ArenaInvariant, ChunksUntilDead

\* Rolling back gives up one region, the newest of its chunk or nothing.
LEMMA CreateFailsRegions ==
    ASSUME ArenaInvariant, CreateFails
    PROVE  ArenaTypes' /\ Regions' /\ Held' = Held \ {Top.at} /\ Len(chunks') = Len(chunks)
<1>1. /\ rollback_last
      /\ live' = {r \in live : [chunk |-> r.chunk, from |-> r.from] # Top.at}
      /\ options' = options /\ current_chunk' = current_chunk
      /\ next_chunk_size' = next_chunk_size /\ broken' = broken
  BY Zenon DEF CreateFails
<1>2. /\ ArenaTypes /\ LiveRegionsSafe /\ CursorInvariant /\ RegionsAligned
      /\ chunks \in Seq(Chunk) /\ live \subseteq Region /\ last_allocation \in Allocation
  BY Zenon DEF ArenaInvariant, ArenaTypes, Regions
<1>3. Held' = Held \ {Top.at}
  BY <1>1, Zenon DEF Held
<1>4. live' \subseteq live
  BY <1>1, Zenon
<1>5. RegionsAligned'
  BY <1>2, <1>4, Zenon DEF RegionsAligned
<1>6. CASE UNCHANGED <<chunks, used, last_allocation>>
  <2>1. chunks' = chunks /\ last_allocation' = last_allocation
    BY <1>6, Zenon
  <2>2. ArenaTypes'
    BY <1>1, <1>2, <1>4, <2>1, Zenon DEF ArenaTypes
  <2>3. LiveRegionsSafe'
    BY <1>2, <1>4, <2>1, Zenon DEF LiveRegionsSafe
  <2>4. CursorInvariant'
    BY <1>2, <1>4, <2>1, Zenon DEF CursorInvariant
  <2> QED
    BY <1>3, <1>5, <2>1, <2>2, <2>3, <2>4, Zenon DEF Regions
<1>7. CASE ~ (Storage(last_allocation) # Top.at \/ last_allocation.chunk = 0)
  <2> DEFINE c == last_allocation.chunk
             p == last_allocation.previous
             new == [chunks[c] EXCEPT !.offset = IF p <= @ THEN p ELSE @]
  <2>1. /\ chunks' = [chunks EXCEPT ![c] = new]
        /\ last_allocation' = NoAllocation
    BY <1>1, <1>7, Zenon DEF rollback_last
  <2>2. c \in 1 .. Len(chunks) /\ p \in Nat /\ c # 0 /\ chunks[c] \in Chunk
        /\ last_allocation.consumed \in Nat
        /\ chunks[c].offset = p + last_allocation.consumed
    BY <1>2, <1>7 DEF CursorInvariant, Allocation
  <2>3. new \in Chunk /\ new.capacity = chunks[c].capacity /\ new.offset = p
        /\ p <= chunks[c].offset
    BY <2>2 DEF Chunk
  <2> HIDE DEF new
  <2>4. /\ chunks' \in Seq(Chunk) /\ Len(chunks') = Len(chunks)
        /\ chunks'[c] = new
        /\ \A j \in 1 .. Len(chunks) : j # c => chunks'[j] = chunks[j]
    BY <1>2, <2>1, <2>2, <2>3
  <2>5. \A r \in live' : r.chunk = c => r.to <= p
    <3> SUFFICES ASSUME NEW r \in live', r.chunk = c
                 PROVE  r.to <= p
      BY Zenon
    <3>1. r \in live /\ [chunk |-> r.chunk, from |-> r.from] # Top.at
      BY <1>1, Zenon
    <3>2. Top.at = [chunk |-> c, from |-> last_allocation.from]
      BY <1>7, Zenon DEF Storage
    <3>3. r.from # last_allocation.from
      BY <3>1, <3>2, Zenon
    <3> QED
      BY <1>2, <2>2, <3>1, <3>3, Zenon DEF CursorInvariant
  <2>6. LiveRegionsSafe'
    <3>1. ASSUME NEW r \in live'
          PROVE  /\ r.chunk \in DOMAIN chunks'
                 /\ r.from < r.to /\ r.to <= chunks'[r.chunk].offset
                 /\ chunks'[r.chunk].offset <= chunks'[r.chunk].capacity
      <4>1. /\ r.chunk \in 1 .. Len(chunks) /\ r.from < r.to
            /\ r.to <= chunks[r.chunk].offset
            /\ chunks[r.chunk].offset <= chunks[r.chunk].capacity
        BY <1>2, <1>4, <3>1 DEF LiveRegionsSafe
      <4>2. DOMAIN chunks' = 1 .. Len(chunks)
        BY <2>4
      <4>3. CASE r.chunk = c
        <5>1. r.to <= p
          BY <2>5, <3>1, <4>3, Zenon
        <5>2. chunks[c].offset <= chunks[c].capacity /\ chunks[c].capacity \in Nat
              /\ chunks[c].offset \in Nat
          BY <2>2, <4>1, <4>3, Zenon DEF Chunk
        <5>3. p <= chunks[c].capacity
          BY <2>2, <2>3, <5>2
        <5> QED
          BY <2>3, <2>4, <4>1, <4>2, <4>3, <5>1, <5>3, Zenon
      <4>4. CASE r.chunk # c
        BY <2>4, <4>1, <4>2, <4>4, Zenon
      <4> QED
        BY <4>3, <4>4, Zenon
    <3>2. \A r, s \in live' : r # s /\ r.chunk = s.chunk => r.to <= s.from \/ s.to <= r.from
      BY <1>2, <1>4, Zenon DEF LiveRegionsSafe
    <3> QED
      BY <3>1, <3>2, Zenon DEF LiveRegionsSafe
  <2>7. CursorInvariant'
    BY <2>1, Zenon DEF CursorInvariant, NoAllocation
  <2>8. ArenaTypes'
    <3>1. NoAllocation \in Allocation
      BY Zenon DEF NoAllocation, Allocation
    <3> QED
      BY <1>1, <1>2, <1>4, <2>1, <2>4, <3>1, Zenon DEF ArenaTypes
  <2> QED
    BY <1>3, <1>5, <2>4, <2>6, <2>7, <2>8, Zenon DEF Regions
<1> QED
  BY <1>1, <1>6, <1>7, Zenon DEF rollback_last

LEMMA CreateFailsKeeps ==
    ASSUME ArenaInvariant, CreateFails
    PROVE  ArenaInvariant'
<1>1. stack # <<>> /\ Top.kind \in Building /\ stack' = Popped /\ destructors' = destructors
  BY Zenon DEF CreateFails, Building
<1>2. ArenaTypes' /\ Regions' /\ Held' = Held \ {Top.at} /\ Len(chunks') = Len(chunks)
  BY CreateFailsRegions, Zenon
<1>3. chunks' # <<>>
  <2>1. chunks # <<>>
    BY <1>1, StillRunning, Zenon DEF Building
  <2> QED
    BY <1>2, <2>1 DEF ArenaInvariant, ArenaTypes
<1>4. ObjectsKept
  BY Zenon DEF ArenaInvariant
<1>5. /\ Popped \in Seq(Frame) /\ Len(stack) \in Nat \ {0} /\ Len(Popped) = Len(stack) - 1
      /\ \A i \in 1 .. Len(stack) - 1 : Popped[i] = stack[i]
      /\ Top \in Frame /\ Top = stack[Len(stack)]
  BY <1>1, <1>4, PoppedFacts, Zenon DEF ObjectsKept
<1>6. /\ Len(stack) \in 1 .. Len(stack)
      /\ \A i \in 1 .. Len(stack') : /\ stack'[i] = stack[i] /\ i \in 1 .. Len(stack)
                                     /\ i # Len(stack)
  BY <1>1, <1>5
<1>7. \A i \in 1 .. Len(stack') : stack'[i].kind \in Building =>
          stack'[i].at # Top.at /\ stack'[i].at \in Held
  BY <1>1, <1>4, <1>5, <1>6 DEF ObjectsKept
<1>8. \A j \in 1 .. Len(destructors) : destructors[j] # Top.at /\ destructors[j] \in Held
  BY <1>1, <1>4, <1>5, <1>6, Zenon DEF ObjectsKept
<1>9. /\ \A i \in 1 .. Len(destructors') : destructors'[i] \in Held'
      /\ \A i \in 1 .. Len(stack') : stack'[i].kind \in Building => stack'[i].at \in Held'
  BY <1>1, <1>2, <1>7, <1>8, Zenon
<1>10. \A i, j \in 1 .. Len(stack') :
          /\ i # j /\ stack'[i].kind \in Building /\ stack'[j].kind \in Building
             => stack'[i].at # stack'[j].at
          /\ i < j /\ stack'[j].kind = "reset" => stack'[i].kind \notin Building
  BY <1>4, <1>6, Zenon DEF ObjectsKept
<1>11. \A i \in 1 .. Len(stack'), j \in 1 .. Len(destructors') :
          stack'[i].kind \in Building => stack'[i].at # destructors'[j]
  BY <1>1, <1>4, <1>6 DEF ObjectsKept
<1>12. stack' \in Seq(Frame) /\ destructors' \in Seq(Address)
  BY <1>1, <1>4, <1>5, Zenon DEF ObjectsKept
<1>13. ObjectsKept'
  BY <1>9, <1>10, <1>11, <1>12, Zenon DEF ObjectsKept, Building
<1> QED
  BY <1>2, <1>3, <1>13, Zenon DEF ArenaInvariant, ChunksUntilDead

------------------------------------------------------------------------------
(***************************************************************************)
(* reset and the destructor.                                               *)
(***************************************************************************)
LEMMA ResetKeeps ==
    ASSUME ArenaInvariant, Reset
    PROVE  ArenaInvariant'
<1> DEFINE frame == Plain("reset")
<1>1. /\ UserCode /\ Push(frame)
      /\ \A i \in DOMAIN stack : stack[i].kind \notin Building
      /\ UNCHANGED <<options, arena, broken, live>> /\ destructors' = destructors
  BY Zenon DEF Reset, Building
<1>2. ArenaTypes' /\ Regions' /\ Held' = Held /\ chunks' = chunks
  BY <1>1, ArenaUnchanged, Zenon
<1>3. chunks # <<>>
  BY <1>1, StillRunning, Zenon DEF UserCode
<1>4. frame \in Frame /\ frame.kind \notin Building
  BY PlainFrame, Zenon
<1>5. ObjectsKept /\ stack \in Seq(Frame) /\ destructors \in Seq(Address)
  BY Zenon DEF ArenaInvariant, ObjectsKept
<1>6. \A i \in 1 .. Len(stack) : stack[i].kind \notin Building
  BY <1>1, <1>5
<1> HIDE DEF frame
<1>7. ObjectsKept'
  BY <1>1, <1>2, <1>4, <1>5, <1>6, PushKeepsObjects, Zenon
<1> QED
  BY <1>2, <1>3, <1>7, Zenon DEF ArenaInvariant, ChunksUntilDead

LEMMA EndKeeps ==
    ASSUME ArenaInvariant, End
    PROVE  ArenaInvariant'
<1> DEFINE frame == Plain("end")
<1>1. /\ stack = <<>> /\ stack' = <<frame>>
      /\ UNCHANGED <<options, arena, broken, live>> /\ destructors' = destructors
  BY Zenon DEF End
<1>2. ArenaTypes' /\ Regions' /\ Held' = Held /\ chunks' = chunks
  BY <1>1, ArenaUnchanged, Zenon
<1>3. chunks # <<>>
  BY <1>1, StillRunning, Zenon
<1>4. frame \in Frame /\ frame.kind \notin Building
  BY PlainFrame, Zenon
<1> HIDE DEF frame
<1>5. /\ stack' \in Seq(Frame) /\ Len(stack') = 1 /\ stack'[1] = frame
  BY <1>1, <1>4
<1>6. /\ destructors \in Seq(Address)
      /\ \A i \in 1 .. Len(destructors) : destructors[i] \in Held
  BY Zenon DEF ArenaInvariant, ObjectsKept
<1>7. \A i \in 1 .. Len(stack') : i = 1 /\ stack'[i].kind \notin Building
  BY <1>4, <1>5
<1>8. ObjectsKept'
  BY <1>1, <1>2, <1>5, <1>6, <1>7, Zenon DEF ObjectsKept, Building
<1> QED
  BY <1>2, <1>3, <1>8, Zenon DEF ArenaInvariant, ChunksUntilDead

LEMMA RunDestructorKeeps ==
    ASSUME ArenaInvariant, RunDestructor
    PROVE  ArenaInvariant'
<1> DEFINE doomed == destructors[Len(destructors)]
           frame == [kind |-> "destructor", at |-> doomed, trivial |-> FALSE]
<1>1. /\ stack # <<>> /\ Top.kind \in {"reset", "end"} /\ destructors # <<>>
      /\ destructors' = SubSeq(destructors, 1, Len(destructors) - 1)
      /\ Push(frame)
      /\ UNCHANGED <<options, arena, broken, live>>
  BY Zenon DEF RunDestructor
<1>2. ArenaTypes' /\ Regions' /\ Held' = Held /\ chunks' = chunks
  BY <1>1, ArenaUnchanged, Zenon
<1>3. chunks # <<>>
  BY <1>1, StillRunning, Zenon
<1>4. ObjectsKept /\ stack \in Seq(Frame) /\ destructors \in Seq(Address)
  BY Zenon DEF ArenaInvariant, ObjectsKept
<1>5. /\ destructors' \in Seq(Address)
      /\ DOMAIN destructors' = 1 .. Len(destructors) - 1
      /\ Len(destructors) \in DOMAIN destructors
      /\ \A i \in DOMAIN destructors' : destructors'[i] = destructors[i]
      /\ doomed \in Address
  BY <1>1, <1>4, FrontFacts
<1> HIDE DEF doomed
<1>6. frame \in Frame /\ frame.kind = "destructor"
  BY <1>5, Zenon DEF Frame
<1> HIDE DEF frame
<1>7. \A i \in 1 .. Len(destructors') : i \in 1 .. Len(destructors) /\ destructors'[i] = destructors[i]
  BY <1>4, <1>5
<1>8. \A i \in 1 .. Len(destructors') : \E j \in 1 .. Len(destructors) : destructors'[i] = destructors[j]
  BY <1>7, Zenon
<1>9. ObjectsKept'
  BY <1>1, <1>2, <1>4, <1>5, <1>6, <1>8, PushKeepsObjects, Zenon DEF Building
<1> QED
  BY <1>2, <1>3, <1>9, Zenon DEF ArenaInvariant, ChunksUntilDead

LEMMA DestructorReturnsKeeps ==
    ASSUME ArenaInvariant, DestructorReturns
    PROVE  ArenaInvariant'
<1>1. /\ stack # <<>> /\ Top.kind = "destructor" /\ stack' = Popped
      /\ UNCHANGED <<options, arena, broken, live>> /\ destructors' = destructors
  BY Zenon DEF DestructorReturns
<1>2. ArenaTypes' /\ Regions' /\ Held' = Held /\ chunks' = chunks
  BY <1>1, ArenaUnchanged, Zenon
<1>3. chunks # <<>>
  BY <1>1, StillRunning, Zenon
<1>4. ObjectsKept'
  BY <1>1, <1>2, PopKeepsObjects, Zenon DEF ArenaInvariant
<1> QED
  BY <1>2, <1>3, <1>4, Zenon DEF ArenaInvariant, ChunksUntilDead

\* With nothing handed out every claim about regions is empty.
LEMMA NothingLive ==
    ASSUME live' = {}, last_allocation' = NoAllocation
    PROVE  Regions' /\ last_allocation' \in Allocation /\ live' \subseteq Region
  BY Zenon DEF Regions, LiveRegionsSafe, CursorInvariant, RegionsAligned, NoAllocation, Allocation

LEMMA FinishResetKeeps ==
    ASSUME ArenaInvariant, FinishReset
    PROVE  ArenaInvariant'
<1>1. /\ stack # <<>> /\ Top.kind = "reset" /\ destructors = <<>>
      /\ RewindChunks /\ last_allocation' = NoAllocation /\ live' = {}
      /\ stack' = Popped /\ destructors' = destructors
      /\ options' = options /\ broken' = broken
  BY Zenon DEF FinishReset
<1>2. chunks # <<>> /\ chunks \in Seq(Chunk) /\ ArenaTypes
  BY <1>1, StillRunning, Zenon DEF ArenaInvariant, ArenaTypes
<1>3. \A c \in Chunk : Rewound(c) \in Chunk
  BY Zenon DEF Rewound, Chunk
<1>4. chunks' \in Seq(Chunk) /\ chunks' # <<>>
  <2>1. Len(chunks) \in Nat \ {0} /\ \A i \in 1 .. Len(chunks) : chunks[i] \in Chunk
    BY <1>2
  <2>2. CASE chunks' = [i \in DOMAIN chunks |-> Rewound(chunks[i])]
    <3> DEFINE f == [i \in 1 .. Len(chunks) |-> Rewound(chunks[i])]
    <3>1. chunks' = f
      BY <1>2, <2>2
    <3>2. f \in [1 .. Len(chunks) -> Chunk]
      BY <1>3, <2>1, Zenon
    <3> HIDE DEF f
    <3> QED
      BY <2>1, <3>1, <3>2
  <2>3. CASE chunks' = <<Rewound(chunks[1])>>
    BY <1>3, <2>1, <2>3
  <2> QED
    BY <1>1, <2>2, <2>3, Zenon DEF RewindChunks
<1>5. current_chunk' = 1 /\ next_chunk_size' \in Nat
  BY <1>1, <1>2, NextSizeType, ArenaAssumption, Zenon DEF RewindChunks, ArenaTypes
<1>6. ArenaTypes' /\ Regions'
  BY <1>1, <1>2, <1>4, <1>5, NothingLive DEF ArenaTypes
<1>7. ObjectsKept'
  <2>1. /\ Popped \in Seq(Frame) /\ Len(stack) \in Nat \ {0} /\ Len(Popped) = Len(stack) - 1
        /\ \A i \in 1 .. Len(stack) - 1 : Popped[i] = stack[i]
        /\ Top \in Frame /\ Top = stack[Len(stack)]
    BY <1>1, PoppedFacts, Zenon DEF ArenaInvariant, ObjectsKept
  <2>2. /\ Len(stack) \in 1 .. Len(stack)
        /\ \A i \in 1 .. Len(stack') : /\ stack'[i] = stack[i] /\ i \in 1 .. Len(stack)
                                       /\ i < Len(stack)
    BY <1>1, <2>1
  <2>3. \A i \in 1 .. Len(stack') : stack'[i].kind \notin Building
    BY <1>1, <2>1, <2>2, Zenon DEF ArenaInvariant, ObjectsKept
  <2>4. Len(destructors') = 0 /\ destructors' \in Seq(Address)
    BY <1>1
  <2>5. \A i \in 1 .. Len(destructors') : FALSE
    BY <2>4
  <2> QED
    BY <1>1, <2>1, <2>3, <2>4, <2>5 DEF ObjectsKept, Building
<1> QED
  BY <1>4, <1>6, <1>7, Zenon DEF ArenaInvariant, ChunksUntilDead

LEMMA FinishEndKeeps ==
    ASSUME ArenaInvariant, FinishEnd
    PROVE  ArenaInvariant'
<1> DEFINE frame == Plain("dead")
<1>1. /\ destructors = <<>> /\ destructors' = destructors
      /\ chunks' = <<>> /\ current_chunk' = 1
      /\ last_allocation' = NoAllocation /\ live' = {}
      /\ stack' = <<frame>>
      /\ options' = options /\ broken' = broken /\ next_chunk_size' = next_chunk_size
  BY Zenon DEF FinishEnd
<1>2. ArenaTypes' /\ Regions'
  BY <1>1, NothingLive DEF ArenaInvariant, ArenaTypes
<1>3. ChunksUntilDead'
  BY <1>1, Zenon DEF ChunksUntilDead, Plain
<1>4. frame \in Frame /\ frame.kind \notin Building
  BY PlainFrame, Zenon
<1> HIDE DEF frame
<1>5. stack' \in Seq(Frame) /\ Len(stack') = 1 /\ stack'[1] = frame
  BY <1>1, <1>4
<1>6. \A i \in 1 .. Len(stack') : i = 1 /\ stack'[i].kind \notin Building
  BY <1>4, <1>5
<1>7. destructors' \in Seq(Address) /\ \A i \in 1 .. Len(destructors') : FALSE
  BY <1>1
<1>8. ObjectsKept'
  BY <1>5, <1>6, <1>7, Zenon DEF ObjectsKept, Building
<1> QED
  BY <1>2, <1>3, <1>8, Zenon DEF ArenaInvariant

------------------------------------------------------------------------------
(***************************************************************************)
(* The theorems.                                                           *)
(***************************************************************************)
LEMMA StutterKeeps ==
    ASSUME ArenaInvariant, UNCHANGED vars
    PROVE  ArenaInvariant'
<1>1. UNCHANGED <<options, arena, broken, live>> /\ stack' = stack /\ destructors' = destructors
  BY Zenon DEF vars
<1>2. ArenaTypes' /\ Regions' /\ Held' = Held /\ chunks' = chunks
  BY <1>1, ArenaUnchanged, Zenon
<1>3. ChunksUntilDead'
  BY <1>1, <1>2, Zenon DEF ArenaInvariant, ChunksUntilDead
<1>4. ObjectsKept'
  BY <1>1, <1>2, Zenon DEF ArenaInvariant, ObjectsKept
<1> QED
  BY <1>2, <1>3, <1>4, Zenon DEF ArenaInvariant

\* The inductive invariant of the arena: its types, the regions apart, aligned
\* and below the cursors, last_allocation describing the newest region, and
\* the storage of registered and half-built objects live and distinct.
THEOREM ArenaInvariantHolds == Spec => []ArenaInvariant
<1>1. Init => ArenaInvariant
  BY InitKeeps, Zenon
<1>2. ArenaInvariant /\ [Next]_vars => ArenaInvariant'
  <2> SUFFICES ASSUME ArenaInvariant, [Next]_vars
               PROVE  ArenaInvariant'
    BY Zenon
  <2>1. ASSUME NEW q \in Requests, Allocate(q)
        PROVE  ArenaInvariant'
    BY <2>1, AllocateKeeps, Zenon
  <2>2. ASSUME NEW q \in Requests, AllocateFails(q)
        PROVE  ArenaInvariant'
    BY <2>2, AllocateFailsKeeps, Zenon
  <2>3. ASSUME NEW q \in Requests, NEW trivial \in BOOLEAN, Create(q, trivial)
        PROVE  ArenaInvariant'
    BY <2>3, CreateKeeps, Zenon
  <2>4. CASE ConstructorReturns
    BY <2>4, ConstructorReturnsKeeps, Zenon
  <2>5. CASE RegistrationFails
    BY <2>5, RegistrationFailsKeeps, Zenon
  <2>6. CASE CreateFails
    BY <2>6, CreateFailsKeeps, Zenon
  <2>7. CASE Reset
    BY <2>7, ResetKeeps, Zenon
  <2>8. CASE End
    BY <2>8, EndKeeps, Zenon
  <2>9. CASE RunDestructor
    BY <2>9, RunDestructorKeeps, Zenon
  <2>10. CASE DestructorReturns
    BY <2>10, DestructorReturnsKeeps, Zenon
  <2>11. CASE FinishReset
    BY <2>11, FinishResetKeeps, Zenon
  <2>12. CASE FinishEnd
    BY <2>12, FinishEndKeeps, Zenon
  <2>13. CASE UNCHANGED vars
    BY <2>13, StutterKeeps, Zenon
  <2> QED
    BY <2>1, <2>2, <2>3, <2>4, <2>5, <2>6, <2>7, <2>8, <2>9, <2>10, <2>11, <2>12, <2>13, Zenon
       DEF Next
<1> QED
  BY <1>1, <1>2, PTL DEF Spec

\* Regions handed out lie below the cursor of their chunk and never overlap,
\* whatever constructions failed in between.
THEOREM LiveRegionsSafeHolds == Spec => []LiveRegionsSafe
<1>1. ArenaInvariant => LiveRegionsSafe
  BY Zenon DEF ArenaInvariant, Regions
<1> QED
  BY <1>1, ArenaInvariantHolds, PTL

\* last_allocation is always the newest region of its chunk.
THEOREM CursorInvariantHolds == Spec => []CursorInvariant
<1>1. ArenaInvariant => CursorInvariant
  BY Zenon DEF ArenaInvariant, Regions
<1> QED
  BY <1>1, ArenaInvariantHolds, PTL

\* Every region starts at a multiple of the alignment asked for.
THEOREM RegionsAlignedHolds == Spec => []RegionsAligned
<1>1. ArenaInvariant => RegionsAligned
  BY Zenon DEF ArenaInvariant, Regions
<1> QED
  BY <1>1, ArenaInvariantHolds, PTL

\* No rollback and no reset, nested or not, takes back the storage of an object
\* that is registered or under construction.
THEOREM ObjectsInLiveStorageHolds == Spec => []ObjectsInLiveStorage
<1>1. ArenaInvariant => ObjectsInLiveStorage
  <2> SUFFICES ASSUME ArenaInvariant
               PROVE  ObjectsInLiveStorage
    BY Zenon
  <2>1. /\ DOMAIN stack = 1 .. Len(stack) /\ DOMAIN destructors = 1 .. Len(destructors)
        /\ \A i \in 1 .. Len(destructors) : destructors[i] \in Held
        /\ \A i \in 1 .. Len(stack) : stack[i].kind \in Building => stack[i].at \in Held
    BY DEF ArenaInvariant, ObjectsKept
  <2> QED
    BY <2>1, Zenon DEF ObjectsInLiveStorage, Held, Building
<1> QED
  BY <1>1, ArenaInvariantHolds, PTL

\* The logic_error at the end of allocate() is unreachable: a chunk added for a
\* request satisfies it.
THEOREM NewChunkSufficesHolds == Spec => []NewChunkSuffices
<1>1. ArenaInvariant => NewChunkSuffices
  BY Zenon DEF ArenaInvariant, ArenaTypes, NewChunkSuffices
<1> QED
  BY <1>1, ArenaInvariantHolds, PTL

------------------------------------------------------------------------------
(* The order of destruction.                                               *)

\* The records are the objects alive, oldest first, no two at one address.
InOrder ==
    /\ alive = destructors
    /\ \A i, j \in 1 .. Len(destructors) : i # j => destructors[i] # destructors[j]

Shorter == Len(alive') < Len(alive) => alive' = SubSeq(alive, 1, Len(alive) - 1)

LEMMA UnlessOrder ==
  ASSUME InOrder, UNCHANGED <<destructors, alive>> PROVE InOrder' /\ (Shorter \/ alive' = alive)
  BY Zenon DEF InOrder

LEMMA ConstructorReturnsOrder ==
  ASSUME ArenaInvariant, InOrder, ConstructorReturns
  PROVE  InOrder' /\ Shorter
<1>1. /\ stack \in Seq(Frame) /\ destructors \in Seq(Address) /\ alive = destructors
      /\ \A i, j \in 1 .. Len(destructors) : i # j => destructors[i] # destructors[j]
  BY Zenon DEF ArenaInvariant, ObjectsKept, InOrder
<1>2. PICK n : n = Len(stack) /\ n \in 1 .. Len(stack) /\ Top = stack[n] /\ stack[n].kind \in Building
  BY <1>1 DEF ConstructorReturns, Top, Building
<1>3. \A j \in 1 .. Len(destructors) : stack[n].at # destructors[j]
  BY <1>2, Zenon DEF ArenaInvariant, ObjectsKept
<1>4. CASE Top.trivial
  <2>1. UNCHANGED <<destructors, alive>>
    BY <1>4, Zenon DEF ConstructorReturns
  <2>2. ~ (Len(alive') < Len(alive))
    BY <1>1, <2>1
  <2> QED BY <2>1, <2>2, UnlessOrder, Zenon DEF Shorter
<1>5. CASE ~ Top.trivial
  <2>1. PICK o : o = stack[n].at /\ destructors' = Append(destructors, o) /\ alive' = Append(alive, o)
    BY <1>2, <1>5, Zenon DEF ConstructorReturns
  <2>2. o \in Address
    <3>1. stack[n] \in Frame
      BY <1>1, <1>2
    <3> QED BY <2>1, <3>1, Zenon DEF Frame
  <2>3. PICK d : d = destructors /\ d \in Seq(Address) /\ Len(d) \in Nat
    BY <1>1
  <2>4. /\ Len(Append(d, o)) = Len(d) + 1
        /\ \A i \in 1 .. Len(d) : Append(d, o)[i] = d[i]
        /\ Append(d, o)[Len(d) + 1] = o
    BY <2>2, <2>3
  <2>5. \A i \in 1 .. Len(d) + 1 : i \in 1 .. Len(d) \/ i = Len(d) + 1
    BY <2>3
  <2>6. \A i, j \in 1 .. Len(d) + 1 : i # j => Append(d, o)[i] # Append(d, o)[j]
    <3>1. /\ \A i \in 1 .. Len(d) : d[i] # o
          /\ \A i, j \in 1 .. Len(d) : i # j => d[i] # d[j]
      BY <1>1, <1>3, <2>1, <2>3, Zenon
    <3> QED BY <2>4, <2>5, <3>1, Zenon
  <2>7. ~ (Len(alive') < Len(alive))
    BY <1>1, <2>1, <2>3, <2>4
  <2>8. alive' = destructors' /\ destructors' = Append(d, o) /\ Len(destructors') = Len(d) + 1
    BY <1>1, <2>1, <2>3, <2>4, Zenon
  <2>9. \A i, j \in 1 .. Len(destructors') : i # j => destructors'[i] # destructors'[j]
    BY <2>6, <2>8, Zenon
  <2> QED BY <2>7, <2>8, <2>9, Zenon DEF InOrder, Shorter
<1> QED BY <1>4, <1>5, Zenon

LEMMA RunDestructorOrder ==
  ASSUME ArenaInvariant, InOrder, RunDestructor
  PROVE  InOrder' /\ Shorter
<1>1. PICK d : /\ d = destructors /\ d = alive /\ d \in Seq(Address) /\ d # <<>>
               /\ \A i, j \in 1 .. Len(d) : i # j => d[i] # d[j]
  BY Zenon DEF ArenaInvariant, ObjectsKept, InOrder, RunDestructor
<1>2. Len(d) \in Nat /\ Len(d) \in 1 .. Len(d) /\ DOMAIN d = 1 .. Len(d)
  BY <1>1
<1>3. PICK k : k = CHOOSE i \in DOMAIN alive : alive[i] = d[Len(d)]
  BY Zenon
<1>4. k = Len(d)
  <2>1. k \in 1 .. Len(d) /\ d[k] = d[Len(d)]
    BY <1>1, <1>2, <1>3, Zenon
  <2> QED BY <1>1, <1>2, <2>1, Zenon
<1>5. PICK e : e = SubSeq(d, 1, Len(d) - 1) /\ e \in Seq(Address) /\ Len(e) = Len(d) - 1
               /\ \A i \in 1 .. Len(d) - 1 : e[i] = d[i]
  <2> DEFINE e == SubSeq(d, 1, Len(d) - 1)
  <2>1. e \in Seq(Address) /\ Len(e) = Len(d) - 1 /\ \A i \in 1 .. Len(d) - 1 : e[i] = d[i]
    BY <1>1, <1>2
  <2> QED BY <2>1, Zenon
<1>6. SubSeq(d, Len(d) + 1, Len(d)) = <<>> /\ e \o <<>> = e
  BY <1>1, <1>2, <1>5
<1>7. Ended(d[Len(d)]) = e
  BY <1>1, <1>3, <1>4, <1>5, <1>6, Zenon DEF Ended
<1>8. destructors' = e /\ alive' = e
  BY <1>1, <1>5, <1>7, Zenon DEF RunDestructor
<1>9. 1 .. Len(e) = 1 .. Len(d) - 1 /\ 1 .. Len(d) - 1 \subseteq 1 .. Len(d)
  BY <1>2, <1>5
<1>10. \A i, j \in 1 .. Len(e) : i # j => e[i] # e[j]
  <2> SUFFICES ASSUME NEW i \in 1 .. Len(e), NEW j \in 1 .. Len(e), i # j PROVE e[i] # e[j]
    BY Zenon
  <2>1. /\ i \in 1 .. Len(d) - 1 /\ i \in 1 .. Len(d)
        /\ j \in 1 .. Len(d) - 1 /\ j \in 1 .. Len(d)
    BY <1>9, Zenon
  <2> QED BY <1>1, <1>5, <2>1, Zenon
<1> QED BY <1>1, <1>5, <1>8, <1>10, Zenon DEF InOrder, Shorter

LEMMA NextKeepsOrder ==
  ASSUME ArenaInvariant, InOrder, [Next]_vars
  PROVE  InOrder' /\ (Shorter \/ UNCHANGED vars)
<1>1. CASE UNCHANGED vars
  <2>1. UNCHANGED <<destructors, alive>>
    BY <1>1, Zenon DEF vars
  <2> QED BY <1>1, <2>1, UnlessOrder, Zenon
<1>2. CASE UNCHANGED <<destructors, alive>>
  <2>1. ~ (Len(alive') < Len(alive))
    <3>1. alive \in Seq(Address)
      BY Zenon DEF ArenaInvariant, ObjectsKept, InOrder
    <3> QED BY <1>2, <3>1
  <2> QED BY <1>2, <2>1, UnlessOrder, Zenon DEF Shorter
<1>3. ASSUME NEW q \in Requests, Serve(q) \/ AllocateFails(q) PROVE UNCHANGED <<destructors, alive>>
  BY <1>3, Zenon DEF Serve, AllocateFails
<1>4. ASSUME RegistrationFails \/ CreateFails \/ Reset \/ End \/ DestructorReturns \/ FinishReset \/ FinishEnd
      PROVE  UNCHANGED <<destructors, alive>>
  BY <1>4, Zenon DEF RegistrationFails, CreateFails, Reset, End, DestructorReturns, FinishReset, FinishEnd
<1>5. CASE ConstructorReturns \/ RunDestructor
  BY <1>5, ConstructorReturnsOrder, RunDestructorOrder, Zenon
<1> QED BY <1>1, <1>2, <1>3, <1>4, <1>5, Zenon DEF Next, Allocate, Create

\* reset and the destructor of the arena destroy objects last built first, also
\* when constructors and destructors nest further creations and resets.
THEOREM DestroyedInReverseHolds == Spec => DestroyedInReverse
<1>1. Init => InOrder
  <2> SUFFICES ASSUME Init PROVE InOrder
    BY Zenon
  <2>1. alive = <<>> /\ destructors = <<>>
    BY Zenon DEF Init
  <2> QED BY <2>1 DEF InOrder
<1>2. ArenaInvariant /\ InOrder /\ [Next]_vars => InOrder' /\ [Shorter]_vars
  BY NextKeepsOrder, Zenon
<1> QED BY <1>1, <1>2, ArenaInvariantHolds, PTL DEF Spec, DestroyedInReverse, Shorter

------------------------------------------------------------------------------
(* The sizes of the arena's chunks.                                        *)

Least(a, b) == IF a <= b THEN a ELSE b

CapOf(m, M) == IF M = 0 THEN m ELSE M

NextSize(m, f, M, now) ==
    IF M # 0 /\ now >= M THEN M
    ELSE IF now > m \div f THEN IF M # 0 THEN M ELSE m
    ELSE IF M # 0 /\ M < now * f THEN M
    ELSE now * f

\* calculate_next_chunk_size, from the capped size of a chunk to the next: the
\* division it guards the product with decides exactly whether to saturate.
LEMMA Saturates ==
  ASSUME NEW m \in Nat \ {0}, NEW f \in Nat \ {0, 1}, NEW M \in 0 .. m, NEW x \in Nat \ {0}
  PROVE  /\ NextSize(m, f, M, Least(x, CapOf(m, M))) = Least(x * f, CapOf(m, M))
         /\ x * f \in Nat \ {0} /\ Least(x * f, CapOf(m, M)) \in 1 .. m
<1>0. PICK cap, now : cap = CapOf(m, M) /\ now = Least(x, cap)
  BY Zenon
<1> SUFFICES /\ NextSize(m, f, M, now) = Least(x * f, cap)
             /\ x * f \in Nat \ {0} /\ Least(x * f, cap) \in 1 .. m
  BY <1>0, Zenon
<1>1. /\ cap \in 1 .. m /\ now \in Nat \ {0} /\ now <= x /\ now <= cap
      /\ (IF x <= cap THEN now = x ELSE now = cap) /\ f >= 2 /\ m >= 1
  BY <1>0 DEF Least, CapOf
<1>2. PICK y : y = x * f /\ y \in Nat /\ y >= x + x
  <2>1. 2 * x <= f * x /\ f * x = x * f
    BY <1>1, Monotone
  <2> QED BY <2>1
<1>3. PICK z : z = now * f /\ z \in Nat /\ z <= y /\ (now = x => z = y)
  BY <1>1, <1>2, Monotone, Zenon
<1>4. z <= m <=> now <= m \div f
  <2>1. f \in Nat \ {0}
    BY Zenon
  <2> QED BY <1>1, <1>3, <2>1, FitsIff, Zenon
<1>5. m \div f \in Nat /\ m \div f < m
  <2>1. m * f >= m + m
    <3>1. 2 * m <= f * m /\ f * m = m * f
      BY <1>1, Monotone
    <3> QED BY <3>1
  <2>2. f \in Nat \ {0} /\ m * f \in Nat /\ ~ (m * f <= m)
    BY <2>1
  <2> QED BY <2>2, FitsIff, Quotient
<1>6. Least(y, cap) \in 1 .. m
  BY <1>1, <1>2 DEF Least
<1>7. PICK q : q = m \div f /\ q \in Nat /\ q < m /\ (z <= m <=> now <= q)
  BY <1>4, <1>5, Zenon
<1>8. CASE M # 0
  <2>1. cap = M /\ M \in Nat
    BY <1>0, <1>8 DEF CapOf
  <2>2. now >= M => Least(y, cap) = M
    BY <1>1, <1>2, <2>1 DEF Least
  <2>3. ~ (now >= M) /\ now > q => Least(y, cap) = M
    BY <1>1, <1>2, <1>3, <1>7, <2>1 DEF Least
  <2>4. ~ (now >= M) => (IF M < z THEN M ELSE z) = Least(y, cap)
    <3>1. ~ (now >= M) => now = x
      BY <1>1, <2>1, Zenon DEF Least
    <3> QED BY <1>2, <1>3, <2>1, <3>1 DEF Least
  <2> QED BY <1>2, <1>3, <1>6, <1>7, <1>8, <2>2, <2>3, <2>4 DEF NextSize
<1>9. CASE M = 0
  <2>1. cap = m
    BY <1>0, <1>9, Zenon DEF CapOf
  <2>2. now > q => Least(y, cap) = m
    BY <1>1, <1>2, <1>3, <1>7, <2>1 DEF Least
  <2>3. ~ (now > q) => z = Least(y, cap)
    BY <1>1, <1>2, <1>3, <1>7, <2>1 DEF Least
  <2> QED BY <1>2, <1>3, <1>6, <1>7, <1>9, <2>2, <2>3 DEF NextSize
<1> QED BY <1>8, <1>9, Zenon

\* The plan from one chunk to the next is what calculate_next_chunk_size does.
LEMMA PlanAdvances ==
  ASSUME options \in [growth : Growths, reset : ResetPolicies], NEW k \in Nat
  PROVE  /\ Planned(k) \in Nat
         /\ calculate_next_chunk_size(Planned(k)) = Planned(k + 1)
<1>1. PICK g : g = options.growth /\ g \in Growths
  BY Zenon
<1>2. PICK f, M : f = g.factor /\ M = g.maximum /\ f \in Nat \ {0} /\ M \in 0 .. MaxSize
  BY <1>1, ArenaAssumption, Zenon
<1>3. g.mode = "geometric" \/ g.mode = "fixed"
  BY <1>1, ArenaAssumption, Zenon
<1>4. InitialSize \in Nat \ {0} /\ MaxSize \in Nat /\ MaxSize >= 1
  <2>1. InitialSize \in Nat /\ InitialSize # 0 /\ MaxSize \in Nat /\ ProviderLimit \in Nat
    BY <1>1, ArenaAssumption, Zenon DEF validate_options
  <2>2. InitialSize <= ProviderLimit /\ ProviderLimit <= MaxSize
    BY ArenaAssumption, Zenon
  <2> QED BY <2>1, <2>2
<1>5. CASE g.mode = "fixed"
  BY <1>1, <1>4, <1>5, Zenon DEF Planned, calculate_next_chunk_size
<1>6. CASE g.mode = "geometric"
  <2>1. f >= 2 /\ f \in Nat
    BY <1>1, <1>2, <1>6, ArenaAssumption DEF validate_options
  <2>2. PICK p : p = Power(f, k) /\ p \in Nat \ {0} /\ Power(f, k + 1) = f * p
    BY <1>2, <2>1, PowerFacts, PowerPositive, Zenon
  <2>3. PICK x : x = InitialSize * p /\ x \in Nat \ {0} /\ x * f = InitialSize * (f * p)
    <3>1. /\ InitialSize * p \in Nat /\ InitialSize * p # 0
          /\ (InitialSize * p) * f = InitialSize * (f * p)
      BY <1>2, <1>4, <2>2
    <3> QED BY <3>1, Zenon
  <2>4. PICK cap : cap = CapOf(MaxSize, M) /\ cap \in Nat
    BY <1>2, <1>4 DEF CapOf
  <2>5. Planned(k) = Least(x, cap) /\ Planned(k + 1) = Least(x * f, cap)
    BY <1>1, <1>2, <1>6, <2>2, <2>3, <2>4, Zenon DEF Planned, Least, CapOf
  <2>6. NextSize(MaxSize, f, M, Least(x, cap)) = Least(x * f, cap)
    <3>1. MaxSize \in Nat \ {0} /\ f \in Nat \ {0, 1} /\ M \in 0 .. MaxSize /\ x \in Nat \ {0}
      BY <1>2, <1>4, <2>1, <2>3
    <3>2. /\ NextSize(MaxSize, f, M, Least(x, CapOf(MaxSize, M))) = Least(x * f, CapOf(MaxSize, M))
          /\ x * f \in Nat \ {0} /\ Least(x * f, CapOf(MaxSize, M)) \in 1 .. MaxSize
      BY <3>1, Saturates, Zenon
    <3> QED BY <2>4, <3>2, Zenon
  <2>7. calculate_next_chunk_size(Least(x, cap)) = NextSize(MaxSize, f, M, Least(x, cap))
    BY <1>1, <1>2, <1>6, Zenon DEF calculate_next_chunk_size, NextSize
  <2>8. Least(x, cap) \in Nat
    BY <2>3, <2>4, Zenon DEF Least
  <2> QED BY <2>5, <2>6, <2>7, <2>8, Zenon
<1> QED BY <1>3, <1>5, <1>6, Zenon

LEMMA FirstPlan ==
  ASSUME options \in [growth : Growths, reset : ResetPolicies]
  PROVE  calculate_next_chunk_size(InitialSize) = Planned(1)
<1>1. PICK g : g = options.growth /\ g \in Growths
  BY Zenon
<1>2. PICK f, M : f = g.factor /\ M = g.maximum /\ f \in Nat /\ M \in 0 .. MaxSize /\ Power(f, 0) = 1
  <2>1. g.factor \in Nat /\ g.maximum \in 0 .. MaxSize
    BY <1>1, ArenaAssumption, Zenon
  <2> QED BY <2>1, PowerFacts, Zenon
<1>3. /\ InitialSize \in Nat /\ InitialSize * 1 = InitialSize
      /\ InitialSize <= MaxSize /\ (M # 0 => InitialSize <= M)
  BY <1>1, <1>2, ArenaAssumption DEF validate_options
<1>4. Planned(0) = InitialSize
  BY <1>1, <1>2, <1>3, Zenon DEF Planned
<1>5. 0 \in Nat /\ 0 + 1 = 1
  OBVIOUS
<1> QED BY <1>4, <1>5, PlanAdvances, Zenon

\* What the property says of a list of chunks and the size that comes next.
Sized(cs, next) ==
    /\ next = Planned(Len(cs))
    /\ \A i \in 2 .. Len(cs) :
          \/ cs[i].capacity = Planned(i - 1)
          \/ /\ cs[i].capacity > Planned(i - 1)
             /\ \E q \in Requests : cs[i].capacity = normalized_size(q)

LEMMA SizedSame ==
  ASSUME NEW cs, NEW ds, NEW next, Sized(cs, next), Len(ds) = Len(cs),
         \A i \in 2 .. Len(cs) : ds[i].capacity = cs[i].capacity
  PROVE  Sized(ds, next)
  BY Zenon DEF Sized

LEMMA SizedAfter ==
  ASSUME NEW cs, NEW next, Sized(cs, next), options' = options,
         chunks' # <<>> => chunks' = cs /\ next_chunk_size' = next
  PROVE  CapacityFollowsPolicy'
<1>1. \A k : Planned(k)' = Planned(k)
  BY Zenon DEF Planned
<1>2. \A q : normalized_size(q)' = normalized_size(q)
  BY Zenon
<1> SUFFICES ASSUME chunks' # <<>>
             PROVE  /\ next_chunk_size' = Planned(Len(chunks))'
                    /\ \A i \in 2 .. Len(chunks') :
                         \/ chunks'[i].capacity = Planned(i - 1)'
                         \/ /\ chunks'[i].capacity > Planned(i - 1)'
                            /\ \E q \in Requests : chunks'[i].capacity = normalized_size(q)
  BY Zenon DEF CapacityFollowsPolicy, Running
<1>3. Planned(Len(chunks))' = Planned(Len(chunks'))
  BY Zenon DEF Planned
<1> QED BY <1>1, <1>3, Zenon DEF Sized

LEMMA SizedNow ==
  CapacityFollowsPolicy <=> (chunks # <<>> => Sized(chunks, next_chunk_size))
  BY Zenon DEF CapacityFollowsPolicy, Running, Sized

\* Capacities survive what changes cursors only.
LEMMA SameSizes ==
  ASSUME CapacityFollowsPolicy, options' = options, next_chunk_size' = next_chunk_size,
         chunks' # <<>> => /\ chunks # <<>> /\ Len(chunks') = Len(chunks)
                           /\ \A i \in 2 .. Len(chunks) : chunks'[i].capacity = chunks[i].capacity
  PROVE  CapacityFollowsPolicy'
<1>1. CASE chunks' = <<>>
  BY <1>1, Zenon DEF CapacityFollowsPolicy, Running
<1>2. CASE chunks' # <<>>
  <2>1. Sized(chunks', next_chunk_size)
    BY <1>2, SizedNow, SizedSame, Zenon
  <2> QED BY <2>1, SizedAfter, Zenon
<1> QED BY <1>1, <1>2, Zenon

MoveCursor(cs, i, to) == [cs EXCEPT ![i].offset = to]

LEMMA CursorMoves ==
  ASSUME NEW cs \in Seq(Chunk), NEW i \in 1 .. Len(cs), NEW to
  PROVE  /\ Len(MoveCursor(cs, i, to)) = Len(cs)
         /\ \A j \in 1 .. Len(cs) : MoveCursor(cs, i, to)[j].capacity = cs[j].capacity
<1> USE DEF MoveCursor
<1> DEFINE ds == MoveCursor(cs, i, to)
<1>1. DOMAIN cs = 1 .. Len(cs) /\ DOMAIN ds = 1 .. Len(cs) /\ Len(cs) \in Nat
  OBVIOUS
<1>2. Len(ds) = Len(cs)
  BY <1>1
<1>3. \A j \in 1 .. Len(cs) : cs[j] \in Chunk
  OBVIOUS
<1>4. ASSUME NEW j \in 1 .. Len(cs) PROVE ds[j].capacity = cs[j].capacity
  BY <1>1, <1>3 DEF Chunk
<1> QED BY <1>2, <1>4, Zenon

LEMMA ServeFollowsPolicy ==
  ASSUME ArenaInvariant, CapacityFollowsPolicy, NEW q \in Requests, Serve(q)
  PROVE  CapacityFollowsPolicy'
<1>1. /\ chunks \in Seq(Chunk) /\ next_chunk_size \in Nat /\ current_chunk \in Nat \ {0}
      /\ options \in [growth : Growths, reset : ResetPolicies]
  BY Zenon DEF ArenaInvariant, ArenaTypes
<1>2. chunks # <<>>
  <2>1. stack # <<>> => Top.kind # "dead"
    BY Zenon DEF Serve, Requested, UserCode
  <2> QED BY <2>1, StillRunning, Zenon
<1>3. Sized(chunks, next_chunk_size) /\ options' = options
  BY <1>2, SizedNow, Zenon DEF Serve
<1>4. CASE FirstFit(q)
  <2>1. PICK i \in current_chunk .. Len(chunks) : Take(chunks, i, q)
    BY <1>4, Zenon DEF FirstFit
  <2>2. i \in 1 .. Len(chunks) /\ 2 .. Len(chunks) \subseteq 1 .. Len(chunks)
    BY <1>1
  <2>3. PICK to : chunks' = MoveCursor(chunks, i, to)
    BY <2>1, Zenon DEF Take, MoveCursor
  <2>4. Len(chunks') = Len(chunks) /\ \A j \in 1 .. Len(chunks) : chunks'[j].capacity = chunks[j].capacity
    <3>1. /\ Len(MoveCursor(chunks, i, to)) = Len(chunks)
          /\ \A j \in 1 .. Len(chunks) : MoveCursor(chunks, i, to)[j].capacity = chunks[j].capacity
      BY <1>1, <2>2, CursorMoves, Zenon
    <3> QED BY <2>3, <3>1, Zenon
  <2> QED BY <1>2, <1>3, <1>4, <2>2, <2>4, SameSizes, Zenon DEF FirstFit
<1>5. CASE AddChunk(q)
  <2>1. PICK n, c, cs : /\ n = Len(chunks) /\ cs = Append(chunks, c)
                        /\ c = NewChunk(CapacityFor(q), LargerOf(InitialAlignment, q.alignment))
    BY Zenon
  <2>2. /\ next_chunk_size' = calculate_next_chunk_size(next_chunk_size)
        /\ chunks' = cs \/ \E to : chunks' = MoveCursor(cs, Len(cs), to)
    BY <1>5, <2>1, Zenon DEF AddChunk, Take, MoveCursor
  <2>3. /\ q.size \in Nat /\ q.alignment \in Nat /\ normalized_size(q) \in Nat /\ c.capacity = LargerOf(next_chunk_size, normalized_size(q))
        /\ InitialAlignment \in Nat
    <3>1. q.size \in Nat /\ q.alignment \in Nat /\ InitialAlignment \in Nat
      BY ArenaAssumption, Zenon
    <3> QED BY <2>1, <3>1 DEF normalized_size, LargerOf, NewChunk, CapacityFor
  <2>4. c \in Chunk /\ c.capacity \in Nat
    BY <1>1, <2>1, <2>3 DEF NewChunk, Chunk, LargerOf, CapacityFor
  <2>5. /\ n \in Nat \ {0} /\ cs \in Seq(Chunk) /\ Len(cs) = n + 1 /\ cs[n + 1] = c
        /\ \A i \in 1 .. n : cs[i] = chunks[i]
    BY <1>1, <1>2, <2>1, <2>4
  <2>6. next_chunk_size = Planned(n) /\ next_chunk_size' = Planned(n + 1)
    BY <1>1, <1>3, <2>1, <2>2, <2>5, PlanAdvances, Zenon DEF Sized
  <2>7. \/ c.capacity = Planned(n)
        \/ c.capacity > Planned(n) /\ \E r \in Requests : c.capacity = normalized_size(r)
    <3>1. \/ c.capacity = next_chunk_size
          \/ c.capacity > next_chunk_size /\ c.capacity = normalized_size(q)
      BY <1>1, <2>3 DEF LargerOf
    <3> QED BY <2>6, <3>1, Zenon
  <2>8. Sized(cs, Planned(n + 1))
    <3> SUFFICES ASSUME NEW i \in 2 .. n + 1
                 PROVE  \/ cs[i].capacity = Planned(i - 1)
                        \/ /\ cs[i].capacity > Planned(i - 1)
                           /\ \E r \in Requests : cs[i].capacity = normalized_size(r)
      BY <2>5, Zenon DEF Sized
    <3>1. CASE i = n + 1
      <4>1. i - 1 = n
        BY <2>5, <3>1
      <4> QED BY <2>5, <2>7, <3>1, <4>1, Zenon
    <3>2. CASE i # n + 1
      <4>1. i \in 2 .. n /\ i \in 1 .. n
        BY <2>5, <3>2
      <4> QED BY <1>3, <2>1, <2>5, <4>1, Zenon DEF Sized
    <3> QED BY <3>1, <3>2, Zenon
  <2>9. Sized(chunks', Planned(n + 1))
    <3>1. CASE chunks' = cs
      BY <2>8, <3>1, Zenon
    <3>2. CASE \E to : chunks' = MoveCursor(cs, Len(cs), to)
      <4>1. PICK to : chunks' = MoveCursor(cs, Len(cs), to)
        BY <3>2, Zenon
      <4>2. Len(cs) \in 1 .. Len(cs) /\ 2 .. Len(cs) \subseteq 1 .. Len(cs)
        BY <2>5
      <4>3. Len(chunks') = Len(cs) /\ \A j \in 1 .. Len(cs) : chunks'[j].capacity = cs[j].capacity
        <5>1. /\ Len(MoveCursor(cs, Len(cs), to)) = Len(cs)
              /\ \A j \in 1 .. Len(cs) : MoveCursor(cs, Len(cs), to)[j].capacity = cs[j].capacity
          BY <2>5, <4>2, CursorMoves, Zenon
        <5> QED BY <4>1, <5>1, Zenon
      <4> QED BY <2>8, <4>2, <4>3, SizedSame, Zenon
    <3> QED BY <2>2, <3>1, <3>2, Zenon
  <2> QED BY <1>3, <2>6, <2>9, SizedAfter, Zenon
<1> QED BY <1>4, <1>5, Zenon DEF Serve

LEMMA RewindFollowsPolicy ==
  ASSUME ArenaInvariant, CapacityFollowsPolicy, FinishReset
  PROVE  CapacityFollowsPolicy'
<1>1. /\ chunks \in Seq(Chunk) /\ options \in [growth : Growths, reset : ResetPolicies]
      /\ options' = options /\ RewindChunks
  BY Zenon DEF ArenaInvariant, ArenaTypes, FinishReset
<1>2. chunks # <<>>
  <2>1. stack # <<>> => Top.kind # "dead"
    BY Zenon DEF FinishReset
  <2> QED BY <2>1, StillRunning, Zenon
<1>3. CASE options.reset = "retain_all"
  <2>1. /\ chunks' = [i \in DOMAIN chunks |-> Rewound(chunks[i])] /\ next_chunk_size' = next_chunk_size
    BY <1>1, <1>3, Zenon DEF RewindChunks
  <2>2. DOMAIN chunks = 1 .. Len(chunks) /\ Len(chunks) \in Nat /\ \A i \in 1 .. Len(chunks) : chunks[i] \in Chunk
    BY <1>1
  <2>3. Len(chunks') = Len(chunks)
    BY <2>1, <2>2
  <2>4. \A c \in Chunk : Rewound(c).capacity = c.capacity
    BY DEF Rewound, Chunk
  <2>5. \A i \in 2 .. Len(chunks) : i \in 1 .. Len(chunks)
    BY <2>2
  <2>6. \A i \in 2 .. Len(chunks) : chunks'[i].capacity = chunks[i].capacity
    BY <2>1, <2>2, <2>4, <2>5, Zenon
  <2> QED BY <1>1, <1>2, <2>1, <2>3, <2>6, SameSizes, Zenon
<1>4. CASE options.reset # "retain_all"
  <2>1. PICK c : chunks' = <<c>> /\ next_chunk_size' = Planned(1)
    BY <1>1, <1>4, FirstPlan, Zenon DEF RewindChunks
  <2>2. Len(<<c>>) = 1 /\ 2 .. 1 = {}
    OBVIOUS
  <2>3. Sized(<<c>>, Planned(1))
    BY <2>2, Zenon DEF Sized
  <2> QED BY <1>1, <2>1, <2>3, SizedAfter, Zenon
<1> QED BY <1>3, <1>4, Zenon

LEMMA RollbackFollowsPolicy ==
  ASSUME ArenaInvariant, CapacityFollowsPolicy, CreateFails
  PROVE  CapacityFollowsPolicy'
<1>1. chunks \in Seq(Chunk) /\ options' = options /\ next_chunk_size' = next_chunk_size /\ rollback_last
  BY Zenon DEF ArenaInvariant, ArenaTypes, CreateFails
<1>2. chunks # <<>>
  <2>1. stack # <<>> => Top.kind # "dead"
    BY Zenon DEF CreateFails
  <2> QED BY <2>1, StillRunning, Zenon
<1>3. CASE chunks' = chunks
  BY <1>1, <1>2, <1>3, SameSizes, Zenon
<1>4. CASE chunks' # chunks
  <2>1. PICK i, to : i = last_allocation.chunk /\ i # 0 /\ chunks' = MoveCursor(chunks, i, to)
    <3>1. /\ last_allocation.chunk # 0
          /\ chunks' = [chunks EXCEPT ![last_allocation.chunk].offset =
                          IF last_allocation.previous <= @ THEN last_allocation.previous ELSE @]
      BY <1>1, <1>4, Zenon DEF rollback_last
    <3> QED BY <3>1, Zenon DEF MoveCursor
  <2>2. i \in 1 .. Len(chunks) /\ 2 .. Len(chunks) \subseteq 1 .. Len(chunks)
    <3>1. i \in DOMAIN chunks
      BY <2>1, Zenon DEF ArenaInvariant, Regions, CursorInvariant
    <3> QED BY <1>1, <3>1
  <2>3. /\ Len(MoveCursor(chunks, i, to)) = Len(chunks)
        /\ \A j \in 1 .. Len(chunks) : MoveCursor(chunks, i, to)[j].capacity = chunks[j].capacity
    BY <1>1, <2>2, CursorMoves, Zenon
  <2>4. Len(chunks') = Len(chunks) /\ \A j \in 2 .. Len(chunks) : chunks'[j].capacity = chunks[j].capacity
    BY <2>1, <2>2, <2>3, Zenon
  <2> QED BY <1>1, <1>2, <2>4, SameSizes, Zenon
<1> QED BY <1>3, <1>4, Zenon

LEMMA PolicyInit == Init => CapacityFollowsPolicy
<1> SUFFICES ASSUME Init PROVE CapacityFollowsPolicy
  BY Zenon
<1>1. PICK c : chunks = <<c>> /\ next_chunk_size = Planned(1)
  BY FirstPlan, Zenon DEF Init
<1>2. Len(<<c>>) = 1 /\ 2 .. 1 = {}
  OBVIOUS
<1> QED BY <1>1, <1>2, SizedNow, Zenon DEF Sized

LEMMA NextFollowsPolicy ==
  ArenaInvariant /\ CapacityFollowsPolicy /\ [Next]_vars => CapacityFollowsPolicy'
<1> SUFFICES ASSUME ArenaInvariant, CapacityFollowsPolicy, [Next]_vars PROVE CapacityFollowsPolicy'
  BY Zenon
<1>1. CASE UNCHANGED <<options, arena>>
  <2>1. options' = options /\ chunks' = chunks /\ next_chunk_size' = next_chunk_size
    BY <1>1, Zenon DEF arena
  <2> QED BY <2>1, SameSizes, Zenon
<1>2. CASE UNCHANGED vars
  BY <1>1, <1>2, Zenon DEF vars
<1>3. ASSUME NEW q \in Requests, Allocate(q) \/ AllocateFails(q) \/ \E trivial \in BOOLEAN : Create(q, trivial)
      PROVE  CapacityFollowsPolicy'
  BY <1>1, <1>3, ServeFollowsPolicy, Zenon DEF Allocate, AllocateFails, Create
<1>4. CASE ConstructorReturns \/ RegistrationFails \/ Reset \/ End \/ RunDestructor \/ DestructorReturns
  BY <1>1, <1>4, Zenon DEF ConstructorReturns, RegistrationFails, Reset, End, RunDestructor, DestructorReturns
<1>5. CASE FinishEnd
  BY <1>5, SameSizes, Zenon DEF FinishEnd
<1> QED BY <1>2, <1>3, <1>4, <1>5, RewindFollowsPolicy, RollbackFollowsPolicy, Zenon DEF Next

\* For every initial size, growth policy and size_t, the capacities of the chunks
\* and the size of the next one follow the closed form of the policy, across
\* rollbacks and resets; only a request that needs more makes a chunk larger.
THEOREM CapacityFollowsPolicyHolds == Spec => []CapacityFollowsPolicy
  BY PolicyInit, NextFollowsPolicy, ArenaInvariantHolds, PTL DEF Spec

------------------------------------------------------------------------------
(***************************************************************************)
(* Repeated workloads.  A lifetime is a walk through positions: the chunk  *)
(* the search starts at, the last allocation and the cursor of every       *)
(* chunk, zero beyond the last.  What a logged call does to the position   *)
(* depends on the position and on the capacity and alignment of the chunks *)
(* only, and a chunk added later changes none of it.                       *)
(***************************************************************************)
Cursors(cs) == [i \in Nat |-> IF i \in 1 .. Len(cs) THEN cs[i].offset ELSE 0]

Position(cs, current, last) == [current |-> current, last |-> last, offsets |-> Cursors(cs)]

Here == Position(chunks, current_chunk, last_allocation)

Origin == [current |-> 1, last |-> NoAllocation, offsets |-> [i \in Nat |-> 0]]

ChunkAt(c, offset) == [capacity |-> c.capacity, alignment |-> c.alignment, offset |-> offset]

Room(cs, p, i, q) == Fits(ChunkAt(cs[i], p.offsets[i]), q)

FirstRoom(cs, p, i, q) ==
    /\ i \in 1 .. Len(cs) /\ p.current <= i
    /\ Room(cs, p, i, q)
    /\ \A j \in 1 .. Len(cs) : p.current <= j /\ j < i => ~ Room(cs, p, j, q)

Placed(cs, p, i, q) ==
    LET from == Start(ChunkAt(cs[i], p.offsets[i]), q)
        to == from + normalized_size(q)
    IN  [current |-> i,
         last |-> [chunk |-> i, from |-> from, previous |-> p.offsets[i],
                   consumed |-> to - p.offsets[i]],
         offsets |-> [p.offsets EXCEPT ![i] = to]]

RolledBack(p, at) ==
    IF Storage(p.last) # at \/ p.last.chunk = 0 THEN p
    ELSE [current |-> p.current, last |-> NoAllocation,
          offsets |-> [p.offsets EXCEPT ![p.last.chunk] =
                         IF p.last.previous <= @ THEN p.last.previous ELSE @]]

Served(cs, p, q, e, n) ==
    \E i \in 1 .. Len(cs) : /\ FirstRoom(cs, p, i, q)
                            /\ n = Placed(cs, p, i, q)
                            /\ e.place = Storage(n.last)

Follows(cs, p, e, n) ==
    \/ \E q \in Requests : e.what = <<"served", q>> /\ Served(cs, p, q, e, n)
    \/ e.what = <<"refused">> /\ n = p
    \/ e.what = <<"abandoned">> /\ n = RolledBack(p, e.place)

Walk(h, calls, cs) ==
    /\ h[1] = Origin
    /\ \A k \in 1 .. Len(calls) : Follows(cs, h[k], calls[k], h[k + 1])

\* ds has the chunks of cs, whatever their cursors, and perhaps more.
Prolongs(ds, cs) ==
    /\ Len(cs) <= Len(ds)
    /\ \A i \in 1 .. Len(cs) : ds[i].capacity = cs[i].capacity /\ ds[i].alignment = cs[i].alignment

LEMMA WhatDiffers ==
  /\ \A q, r : <<"served", q>> = <<"served", r>> => q = r
  /\ \A q : <<"served", q>> # <<"refused">> /\ <<"served", q>> # <<"abandoned">>
  /\ <<"refused">> # <<"abandoned">>
<1>1. \A q, r : <<"served", q>> = <<"served", r>> => q = r
  OBVIOUS
<1>2. \A q : <<"served", q>> # <<"refused">> /\ <<"served", q>> # <<"abandoned">>
  <2> TAKE q
  <2>1. Len(<<"served", q>>) = 2 /\ Len(<<"refused">>) = 1 /\ Len(<<"abandoned">>) = 1
    OBVIOUS
  <2> QED BY <2>1
<1>3. <<"refused">>[1] # <<"abandoned">>[1]
  OBVIOUS
<1> QED BY <1>1, <1>2, <1>3, Zenon

LEMMA FirstRoomSame ==
  ASSUME NEW cs, Len(cs) \in Nat, NEW ds, Len(ds) \in Nat, Prolongs(ds, cs),
         NEW p, NEW q
  PROVE  \A i : FirstRoom(cs, p, i, q) =>
            i \in 1 .. Len(ds) /\ FirstRoom(ds, p, i, q) /\ Placed(ds, p, i, q) = Placed(cs, p, i, q)
<1> SUFFICES ASSUME NEW i, FirstRoom(cs, p, i, q)
             PROVE  i \in 1 .. Len(ds) /\ FirstRoom(ds, p, i, q) /\ Placed(ds, p, i, q) = Placed(cs, p, i, q)
  BY Zenon
<1>1. i \in 1 .. Len(cs)
  BY Zenon DEF FirstRoom
<1>6. i \in 1 .. Len(ds) /\ \A j \in 1 .. Len(ds) : j < i => j \in 1 .. Len(cs)
  BY <1>1 DEF Prolongs
<1>2. \A j \in 1 .. Len(cs) : ChunkAt(ds[j], p.offsets[j]) = ChunkAt(cs[j], p.offsets[j])
  BY Zenon DEF Prolongs, ChunkAt
<1>3. \A j \in 1 .. Len(cs) : Room(ds, p, j, q) <=> Room(cs, p, j, q)
  BY <1>2, Zenon DEF Room
<1>4. FirstRoom(ds, p, i, q)
  BY <1>1, <1>3, <1>6, Zenon DEF FirstRoom
<1>5. Placed(ds, p, i, q) = Placed(cs, p, i, q)
  BY <1>1, <1>2, Zenon DEF Placed
<1> QED BY <1>4, <1>5, <1>6, Zenon

LEMMA FollowsSame ==
  ASSUME NEW cs, Len(cs) \in Nat, NEW ds, Len(ds) \in Nat, Prolongs(ds, cs),
         NEW p, NEW e, NEW n, Follows(cs, p, e, n)
  PROVE  Follows(ds, p, e, n)
<1>1. ASSUME NEW q, Served(cs, p, q, e, n) PROVE Served(ds, p, q, e, n)
  <2>1. PICK i \in 1 .. Len(cs) : FirstRoom(cs, p, i, q) /\ n = Placed(cs, p, i, q) /\ e.place = Storage(n.last)
    BY <1>1, Zenon DEF Served
  <2>2. \A j : FirstRoom(cs, p, j, q) =>
            j \in 1 .. Len(ds) /\ FirstRoom(ds, p, j, q) /\ Placed(ds, p, j, q) = Placed(cs, p, j, q)
    BY FirstRoomSame
  <2> QED BY <2>1, <2>2, Zenon DEF Served
<1> QED BY <1>1, Zenon DEF Follows

LEMMA WalkSame ==
  ASSUME NEW cs, Len(cs) \in Nat, NEW ds, Len(ds) \in Nat, Prolongs(ds, cs),
         NEW h, NEW calls, Walk(h, calls, cs)
  PROVE  Walk(h, calls, ds)
  BY FollowsSame, Zenon DEF Walk

\* Two calls that repeat one another.
Alike(e, f) ==
    /\ e.what = f.what /\ e.what # <<"refused">>
    /\ e.what = <<"abandoned">> => e.place = f.place

\* The position, and the address served, are functions of what went before.
LEMMA Determined ==
  ASSUME NEW cs, Len(cs) \in Nat, NEW p, NEW e, NEW n, NEW f, NEW m,
         Follows(cs, p, e, n), Follows(cs, p, f, m), Alike(e, f)
  PROVE  n = m /\ e.place = f.place
<1> USE DEF Alike
<1>1. CASE \E q \in Requests : e.what = <<"served", q>> /\ Served(cs, p, q, e, n)
  <2>1. PICK q \in Requests : e.what = <<"served", q>> /\ Served(cs, p, q, e, n)
    BY <1>1, Zenon
  <2>2. Served(cs, p, q, f, m)
    <3>1. f.what # <<"refused">> /\ f.what # <<"abandoned">>
      BY <2>1, WhatDiffers, Zenon
    <3>2. PICK r \in Requests : f.what = <<"served", r>> /\ Served(cs, p, r, f, m)
      BY <3>1, Zenon DEF Follows
    <3>3. q = r
      BY <2>1, <3>2, WhatDiffers, Zenon
    <3> QED BY <3>2, <3>3, Zenon
  <2>3. PICK i \in 1 .. Len(cs) : FirstRoom(cs, p, i, q) /\ n = Placed(cs, p, i, q) /\ e.place = Storage(n.last)
    BY <2>1, Zenon DEF Served
  <2>4. PICK j \in 1 .. Len(cs) : FirstRoom(cs, p, j, q) /\ m = Placed(cs, p, j, q) /\ f.place = Storage(m.last)
    BY <2>2, Zenon DEF Served
  <2>5. ~ i < j /\ ~ j < i
    BY <2>3, <2>4, Zenon DEF FirstRoom
  <2>6. i = j
    BY <2>5
  <2> QED BY <2>3, <2>4, <2>6, Zenon
<1>2. CASE e.what = <<"abandoned">> /\ n = RolledBack(p, e.place)
  <2>1. m = RolledBack(p, f.place)
    BY <1>2, WhatDiffers, Zenon DEF Follows
  <2> QED BY <1>2, <2>1, Zenon
<1> QED BY <1>1, <1>2, Zenon DEF Follows

LEMMA WalksAgree ==
  ASSUME NEW cs, Len(cs) \in Nat, NEW h, NEW g, Walk(h, log, cs), Walk(g, previous, cs),
         Len(log) \in Nat, Len(previous) \in Nat,
         NEW n \in Nat, n <= Len(log), n <= Len(previous), Repeats(n)
  PROVE  \A k \in 1 .. n : log[k].place = previous[k].place
<1> DEFINE S == {k \in Nat : k <= n => h[k + 1] = g[k + 1]}
<1>1. ASSUME NEW k \in 1 .. n, h[k] = g[k]
      PROVE  h[k + 1] = g[k + 1] /\ log[k].place = previous[k].place
  <2>1. k \in 1 .. Len(log) /\ k \in 1 .. Len(previous)
    OBVIOUS
  <2>2. Follows(cs, h[k], log[k], h[k + 1]) /\ Follows(cs, h[k], previous[k], g[k + 1])
    BY <1>1, <2>1, Zenon DEF Walk
  <2>3. Alike(log[k], previous[k])
    BY Zenon DEF Repeats, Alike
  <2> QED BY <2>2, <2>3, Determined
<1>2. 0 \in S
  <2>1. h[1] = g[1]
    BY Zenon DEF Walk
  <2>2. 0 + 1 = 1
    OBVIOUS
  <2> QED BY <2>1, <2>2
<1>3. ASSUME NEW k \in Nat, k \in S PROVE k + 1 \in S
  <2>1. k <= n => h[k + 1] = g[k + 1]
    BY <1>3
  <2>2. CASE k + 1 <= n
    <3>1. k + 1 \in 1 .. n /\ k <= n
      BY <2>1, <2>2
    <3> QED BY <1>1, <2>1, <3>1
  <2> QED BY <2>1, <2>2
<1>4. Nat \subseteq S
  <2> HIDE DEF S
  <2> QED BY <1>2, <1>3, NatSetInduction, Zenon
<1> SUFFICES ASSUME NEW k \in 1 .. n PROVE log[k].place = previous[k].place
  BY Zenon
<1>5. k - 1 \in Nat /\ k - 1 <= n /\ (k - 1) + 1 = k
  OBVIOUS
<1>6. h[k] = g[k]
  BY <1>4, <1>5, Zenon
<1> QED BY <1>1, <1>6, Zenon

LEMMA WalkGrows ==
  ASSUME NEW T, NEW calls \in Seq(T), NEW e \in T, NEW cs, NEW h, Walk(h, calls, cs),
         NEW n, Follows(cs, h[Len(calls) + 1], e, n)
  PROVE  \E g : Walk(g, Append(calls, e), cs) /\ g[Len(Append(calls, e)) + 1] = n
<1> DEFINE l == Len(calls)
           g == [k \in Nat |-> IF k = l + 2 THEN n ELSE h[k]]
           more == Append(calls, e)
<1>1. /\ l \in Nat /\ Len(more) = l + 1 /\ more[l + 1] = e
      /\ \A k \in 1 .. l : more[k] = calls[k]
  OBVIOUS
<1> HIDE DEF l, more
<1>2. g[l + 2] = n /\ \A k \in 1 .. l + 1 : g[k] = h[k]
  BY <1>1
<1>3. g[1] = Origin
  <2>1. 1 \in 1 .. l + 1
    BY <1>1
  <2> QED BY <1>2, <2>1, Zenon DEF Walk
<1>4. ASSUME NEW k \in 1 .. l + 1 PROVE Follows(cs, g[k], more[k], g[k + 1])
  <2>1. CASE k = l + 1
    <3>1. (l + 1) + 1 = l + 2 /\ l + 1 \in 1 .. l + 1
      BY <1>1
    <3>2. g[l + 1] = h[l + 1] /\ g[(l + 1) + 1] = n
      BY <1>2, <3>1, Zenon
    <3>3. Follows(cs, h[l + 1], e, n)
      BY Zenon DEF l
    <3> HIDE DEF g
    <3> QED BY <1>1, <2>1, <3>2, <3>3, Zenon
  <2>2. CASE k # l + 1
    <3>1. k \in 1 .. l /\ k + 1 \in 1 .. l + 1
      BY <1>1, <2>2
    <3>2. g[k] = h[k] /\ g[k + 1] = h[k + 1] /\ more[k] = calls[k]
      BY <1>1, <1>2, <3>1, Zenon
    <3>3. Follows(cs, h[k], calls[k], h[k + 1])
      BY <3>1, Zenon DEF Walk, l
    <3> HIDE DEF g
    <3> QED BY <3>2, <3>3, Zenon
  <2> QED BY <2>1, <2>2, Zenon
<1>5. Len(more) + 1 = l + 2
  BY <1>1
<1> HIDE DEF g
<1>6. Walk(g, more, cs) /\ g[Len(more) + 1] = n
  BY <1>1, <1>2, <1>3, <1>4, <1>5, Zenon DEF Walk
<1> QED BY <1>6, Zenon DEF more

\* Moving the cursor of a chunk.
LEMMA MoveFacts ==
  ASSUME NEW cs \in Seq(Chunk), NEW i \in 1 .. Len(cs), NEW to \in Nat
  PROVE  /\ MoveCursor(cs, i, to) \in Seq(Chunk)
         /\ Len(MoveCursor(cs, i, to)) = Len(cs)
         /\ Prolongs(MoveCursor(cs, i, to), cs)
         /\ Cursors(MoveCursor(cs, i, to)) = [Cursors(cs) EXCEPT ![i] = to]
<1> DEFINE ds == MoveCursor(cs, i, to)
<1>1. DOMAIN cs = 1 .. Len(cs) /\ DOMAIN ds = 1 .. Len(cs) /\ Len(cs) \in Nat
  BY DEF MoveCursor
<1>2. \A j \in 1 .. Len(cs) : cs[j] \in Chunk
  OBVIOUS
<1>3. \A j \in 1 .. Len(cs) : ds[j] = IF j = i THEN [cs[j] EXCEPT !.offset = to] ELSE cs[j]
  BY <1>1 DEF MoveCursor
<1>4. \A c \in Chunk : /\ [c EXCEPT !.offset = to] \in Chunk /\ [c EXCEPT !.offset = to].offset = to
                       /\ [c EXCEPT !.offset = to].capacity = c.capacity
                       /\ [c EXCEPT !.offset = to].alignment = c.alignment
  BY DEF Chunk
<1>5. \A j \in 1 .. Len(cs) : /\ ds[j] \in Chunk /\ ds[j].offset = IF j = i THEN to ELSE cs[j].offset
                              /\ ds[j].capacity = cs[j].capacity /\ ds[j].alignment = cs[j].alignment
  BY <1>2, <1>3, <1>4, Zenon
<1>6. ds \in Seq(Chunk) /\ Len(ds) = Len(cs)
  <2>1. ds = [j \in 1 .. Len(cs) |-> ds[j]]
    BY <1>1 DEF MoveCursor
  <2>2. ds \in [1 .. Len(cs) -> Chunk]
    BY <1>5, <2>1, Zenon
  <2> HIDE DEF ds
  <2> QED BY <1>1, <2>2
<1> HIDE DEF ds
<1>7. Prolongs(ds, cs)
  BY <1>1, <1>5, <1>6 DEF Prolongs
<1>8. Cursors(ds) = [Cursors(cs) EXCEPT ![i] = to]
  <2>1. \A j \in Nat : Cursors(ds)[j] = IF j = i THEN to ELSE Cursors(cs)[j]
    BY <1>5, <1>6, Zenon DEF Cursors
  <2>2. i \in Nat
    OBVIOUS
  <2> QED BY <2>1, <2>2 DEF Cursors
<1> QED BY <1>6, <1>7, <1>8, Zenon DEF ds

\* A chunk at the cursor it has.
LEMMA ChunkHere ==
  ASSUME NEW cs \in Seq(Chunk), NEW c, NEW l, NEW i \in 1 .. Len(cs)
  PROVE  /\ Position(cs, c, l).offsets[i] = cs[i].offset
         /\ ChunkAt(cs[i], Position(cs, c, l).offsets[i]) = cs[i]
<1>1. cs[i] \in Chunk /\ i \in Nat
  OBVIOUS
<1>2. Position(cs, c, l).offsets = Cursors(cs)
  BY DEF Position
<1>3. Cursors(cs)[i] = cs[i].offset
  BY <1>1, Zenon DEF Cursors
<1>4. ChunkAt(cs[i], cs[i].offset) = cs[i]
  BY <1>1 DEF ChunkAt, Chunk
<1> QED BY <1>2, <1>3, <1>4, Zenon

LEMMA TakeFollows ==
  ASSUME NEW cs \in Seq(Chunk), NEW i \in 1 .. Len(cs), NEW q \in Requests, q.alignment \in PowersOfTwo,
         Take(cs, i, q), NEW c, NEW l, c <= i, Fits(cs[i], q),
         \A j \in 1 .. Len(cs) : c <= j /\ j < i => ~ Fits(cs[j], q)
  PROVE  /\ chunks' \in Seq(Chunk) /\ Len(chunks') = Len(cs) /\ Prolongs(chunks', cs)
         /\ FirstRoom(cs, Position(cs, c, l), i, q)
         /\ Here' = Placed(cs, Position(cs, c, l), i, q)
<1> DEFINE p == Position(cs, c, l)
           from == Start(cs[i], q)
           to == from + normalized_size(q)
<1>1. cs[i] \in Chunk /\ to \in Nat
  <2>1. cs[i] \in Chunk
    OBVIOUS
  <2>2. from \in Nat /\ normalized_size(q) \in Nat
    BY <2>1, StartProperties, SizeType, Zenon
  <2> QED BY <2>1, <2>2
<1>2. /\ chunks' = MoveCursor(cs, i, to) /\ current_chunk' = i
      /\ last_allocation' = [chunk |-> i, from |-> from, previous |-> cs[i].offset,
                             consumed |-> to - cs[i].offset]
  BY Zenon DEF Take, MoveCursor
<1>3. \A j \in 1 .. Len(cs) : p.offsets[j] = cs[j].offset /\ ChunkAt(cs[j], p.offsets[j]) = cs[j]
  BY ChunkHere
<1>4. p.current = c /\ p.offsets = Cursors(cs)
  BY DEF Position
<1> HIDE DEF p
<1>5. FirstRoom(cs, p, i, q)
  BY <1>3, <1>4, Zenon DEF FirstRoom, Room
<1>6. Placed(cs, p, i, q) =
        [current |-> i, last |-> [chunk |-> i, from |-> from, previous |-> cs[i].offset,
                                  consumed |-> to - cs[i].offset],
         offsets |-> [Cursors(cs) EXCEPT ![i] = to]]
  BY <1>3, <1>4, Zenon DEF Placed
<1> HIDE DEF to, from
<1>7. /\ MoveCursor(cs, i, to) \in Seq(Chunk) /\ Len(MoveCursor(cs, i, to)) = Len(cs)
      /\ Prolongs(MoveCursor(cs, i, to), cs)
      /\ Cursors(MoveCursor(cs, i, to)) = [Cursors(cs) EXCEPT ![i] = to]
  BY <1>1, MoveFacts, Zenon
<1>8. Here' = [current |-> i, last |-> last_allocation', offsets |-> Cursors(chunks')]
  BY <1>2, Zenon DEF Here, Position
<1>9. Here' = Placed(cs, p, i, q)
  BY <1>2, <1>6, <1>7, <1>8, Zenon
<1> QED BY <1>2, <1>5, <1>7, <1>9, Zenon DEF p

LEMMA ServeFollows ==
  ASSUME ArenaInvariant, current_chunk <= Len(chunks), NEW q \in Requests, Serve(q)
  PROVE  /\ chunks # <<>> /\ options' = options
         /\ chunks' \in Seq(Chunk) /\ Prolongs(chunks', chunks)
         /\ Len(chunks') > Len(chunks) => last_allocation'.chunk = Len(chunks')
         /\ \E i \in 1 .. Len(chunks') : FirstRoom(chunks', Here, i, q) /\ Here' = Placed(chunks', Here, i, q)
<1>1. /\ chunks \in Seq(Chunk) /\ current_chunk \in Nat \ {0} /\ next_chunk_size \in Nat
      /\ q.alignment \in PowersOfTwo /\ options' = options
      /\ FirstFit(q) \/ AddChunk(q)
  BY Zenon DEF ArenaInvariant, ArenaTypes, Serve
<1>2. chunks # <<>>
  <2>1. stack # <<>> => Top.kind # "dead"
    BY Zenon DEF Serve, Requested, UserCode
  <2> QED BY <2>1, StillRunning, Zenon
<1>3. CASE FirstFit(q)
  <2>1. PICK i \in current_chunk .. Len(chunks) :
            /\ Fits(chunks[i], q) /\ \A j \in current_chunk .. i - 1 : ~ Fits(chunks[j], q)
            /\ Take(chunks, i, q)
    BY <1>3, Zenon DEF FirstFit
  <2>2. /\ i \in 1 .. Len(chunks) /\ current_chunk <= i
        /\ \A j \in 1 .. Len(chunks) : current_chunk <= j /\ j < i => j \in current_chunk .. i - 1
    BY <1>1
  <2>3. \A j \in 1 .. Len(chunks) : current_chunk <= j /\ j < i => ~ Fits(chunks[j], q)
    BY <2>1, <2>2, Zenon
  <2>4. /\ chunks' \in Seq(Chunk) /\ Len(chunks') = Len(chunks) /\ Prolongs(chunks', chunks)
        /\ FirstRoom(chunks, Here, i, q) /\ Here' = Placed(chunks, Here, i, q)
    BY <1>1, <2>1, <2>2, <2>3, TakeFollows, Zenon DEF Here
  <2>5. Len(chunks) \in Nat /\ Len(chunks') \in Nat /\ ~ Len(chunks') > Len(chunks)
    BY <1>1, <2>4
  <2>6. \A j : FirstRoom(chunks, Here, j, q) =>
            /\ j \in 1 .. Len(chunks') /\ FirstRoom(chunks', Here, j, q)
            /\ Placed(chunks', Here, j, q) = Placed(chunks, Here, j, q)
    BY <2>4, <2>5, FirstRoomSame
  <2> QED BY <1>1, <1>2, <2>4, <2>5, <2>6, Zenon
<1>4. CASE AddChunk(q)
  <2> DEFINE chunk == NewChunk(CapacityFor(q), LargerOf(InitialAlignment, q.alignment))
             cs == Append(chunks, chunk)
             n == Len(cs)
  <2>1. chunk \in Chunk /\ Fits(chunk, q) /\ chunk.offset = 0
    <3>1. chunk \in Chunk /\ Fits(chunk, q)
      BY <1>1, NewChunkFits, Zenon DEF ArenaInvariant, ArenaTypes
    <3> QED BY <3>1 DEF NewChunk
  <2>2. NoneFits(q) /\ Take(cs, n, q)
    BY <1>4, <2>1, Zenon DEF AddChunk
  <2> HIDE DEF chunk
  <2>3. /\ cs \in Seq(Chunk) /\ n = Len(chunks) + 1 /\ n \in 1 .. Len(cs) /\ Len(chunks) \in Nat
        /\ cs[n] = chunk /\ \A j \in 1 .. Len(chunks) : cs[j] = chunks[j]
    BY <1>1, <2>1
  <2> HIDE DEF cs
  <2>4. Cursors(cs) = Cursors(chunks)
    <3>1. \A j \in Nat : Cursors(cs)[j] = Cursors(chunks)[j]
      <4> SUFFICES ASSUME NEW j \in Nat PROVE Cursors(cs)[j] = Cursors(chunks)[j]
        BY Zenon
      <4>1. CASE j = n
        <5>1. j \in 1 .. Len(cs) /\ j \notin 1 .. Len(chunks)
          BY <2>3, <4>1
        <5> QED BY <2>1, <2>3, <4>1, <5>1, Zenon DEF Cursors
      <4>2. CASE j # n
        <5>1. j \in 1 .. Len(cs) <=> j \in 1 .. Len(chunks)
          BY <2>3, <4>2
        <5> QED BY <2>3, <5>1, Zenon DEF Cursors
      <4> QED BY <4>1, <4>2, Zenon
    <3> QED BY <3>1 DEF Cursors
  <2>5. Here = Position(cs, current_chunk, last_allocation)
    BY <2>4, Zenon DEF Here, Position
  <2>6. current_chunk <= n
    BY <1>1, <2>3
  <2>7. \A j \in 1 .. Len(cs) : current_chunk <= j /\ j < n => ~ Fits(cs[j], q)
    <3> SUFFICES ASSUME NEW j \in 1 .. Len(cs), current_chunk <= j, j < n PROVE ~ Fits(cs[j], q)
      BY Zenon
    <3>1. j \in current_chunk .. Len(chunks) /\ j \in 1 .. Len(chunks)
      BY <1>1, <2>3
    <3> QED BY <2>2, <2>3, <3>1, Zenon DEF NoneFits
  <2>8. Prolongs(cs, chunks)
    BY <2>3 DEF Prolongs
  <2> HIDE DEF n
  <2>9. /\ chunks' \in Seq(Chunk) /\ Len(chunks') = Len(cs) /\ Prolongs(chunks', cs)
        /\ FirstRoom(cs, Here, n, q) /\ Here' = Placed(cs, Here, n, q)
    <3>1. Fits(cs[n], q)
      BY <2>1, <2>3, Zenon
    <3> QED BY <1>1, <2>2, <2>3, <2>5, <2>6, <2>7, <3>1, TakeFollows, Zenon
  <2>10. Len(cs) \in Nat /\ Len(chunks') \in Nat /\ Len(chunks) <= Len(chunks')
    BY <2>3, <2>9 DEF n
  <2>11. Prolongs(chunks', chunks)
    BY <2>3, <2>8, <2>9, <2>10 DEF Prolongs
  <2>12. last_allocation'.chunk = Len(chunks')
    <3>1. last_allocation'.chunk = n
      BY <2>2 DEF Take
    <3> QED BY <2>9, <3>1, Zenon DEF n
  <2>13. \A j : FirstRoom(cs, Here, j, q) =>
            /\ j \in 1 .. Len(chunks') /\ FirstRoom(chunks', Here, j, q)
            /\ Placed(chunks', Here, j, q) = Placed(cs, Here, j, q)
    BY <2>9, <2>10, FirstRoomSame
  <2> QED BY <1>1, <1>2, <2>9, <2>11, <2>12, <2>13, Zenon
<1> QED BY <1>1, <1>3, <1>4, Zenon

LEMMA RollbackFollows ==
  ASSUME ArenaInvariant, CreateFails
  PROVE  /\ chunks # <<>> /\ options' = options
         /\ chunks' \in Seq(Chunk) /\ Prolongs(chunks', chunks) /\ Len(chunks') = Len(chunks)
         /\ Here' = RolledBack(Here, Top.at)
<1>1. /\ chunks \in Seq(Chunk) /\ last_allocation \in Allocation
      /\ options' = options /\ current_chunk' = current_chunk /\ rollback_last
  BY Zenon DEF ArenaInvariant, ArenaTypes, CreateFails
<1>2. chunks # <<>>
  <2>1. stack # <<>> => Top.kind # "dead"
    BY Zenon DEF CreateFails
  <2> QED BY <2>1, StillRunning, Zenon
<1>3. Here.last = last_allocation /\ Here.current = current_chunk /\ Here.offsets = Cursors(chunks)
  BY DEF Here, Position
<1>4. CASE Storage(last_allocation) # Top.at \/ last_allocation.chunk = 0
  <2>1. chunks' = chunks /\ last_allocation' = last_allocation
    BY <1>1, <1>4, Zenon DEF rollback_last
  <2>2. Here' = Here
    BY <1>1, <2>1, Zenon DEF Here, Position
  <2>3. Prolongs(chunks, chunks)
    BY <1>1 DEF Prolongs
  <2> QED BY <1>1, <1>2, <1>3, <1>4, <2>1, <2>2, <2>3, Zenon DEF RolledBack
<1>5. CASE ~ (Storage(last_allocation) # Top.at \/ last_allocation.chunk = 0)
  <2> DEFINE i == last_allocation.chunk
             to == IF last_allocation.previous <= chunks[i].offset
                   THEN last_allocation.previous ELSE chunks[i].offset
  <2>1. i \in 1 .. Len(chunks) /\ i \in Nat
    <3>1. i \in DOMAIN chunks
      BY <1>5, Zenon DEF ArenaInvariant, Regions, CursorInvariant
    <3> QED BY <1>1, <3>1
  <2>2. to \in Nat /\ Cursors(chunks)[i] = chunks[i].offset
    <3>1. chunks[i] \in Chunk
      BY <1>1, <2>1
    <3>2. last_allocation.previous \in Nat /\ chunks[i].offset \in Nat
      BY <1>1, <3>1 DEF Chunk, Allocation
    <3> QED BY <2>1, <3>2, Zenon DEF Cursors
  <2>3. chunks' = MoveCursor(chunks, i, to) /\ last_allocation' = NoAllocation
    BY <1>1, <1>5, <2>1 DEF rollback_last, MoveCursor
  <2>4. RolledBack(Here, Top.at) = [current |-> current_chunk, last |-> NoAllocation,
                                    offsets |-> [Cursors(chunks) EXCEPT ![i] = to]]
    <3>1. [Cursors(chunks) EXCEPT ![i] = IF last_allocation.previous <= @ THEN last_allocation.previous ELSE @]
            = [Cursors(chunks) EXCEPT ![i] = to]
      BY <2>2, Zenon
    <3> QED BY <1>3, <1>5, <3>1, Zenon DEF RolledBack
  <2> HIDE DEF to, i
  <2>5. /\ MoveCursor(chunks, i, to) \in Seq(Chunk) /\ Len(MoveCursor(chunks, i, to)) = Len(chunks)
        /\ Prolongs(MoveCursor(chunks, i, to), chunks)
        /\ Cursors(MoveCursor(chunks, i, to)) = [Cursors(chunks) EXCEPT ![i] = to]
    BY <1>1, <2>1, <2>2, MoveFacts, Zenon
  <2>6. Here' = [current |-> current_chunk, last |-> NoAllocation, offsets |-> Cursors(chunks')]
    BY <1>1, <2>3, Zenon DEF Here, Position
  <2> QED BY <1>1, <1>2, <2>3, <2>4, <2>5, <2>6, Zenon
<1> QED BY <1>4, <1>5, Zenon

\* What the log says of a call.
Entry == [what : {<<"served", q>> : q \in Requests} \cup {<<"refused">>, <<"abandoned">>},
          place : Address]

IsServed(e) == \E q \in Requests : e.what = <<"served", q>>

LogTypes == log \in Seq(Entry) /\ previous \in Seq(Entry) /\ retained \in Nat

\* This lifetime and the one before are walks through the chunks there are,
\* and chunks beyond the retained ones were added for a request of this one.
Walked ==
    /\ current_chunk <= Len(chunks) /\ retained <= Len(chunks)
    /\ \E h : Walk(h, log, chunks) /\ h[Len(log) + 1] = Here
    /\ \E g : Walk(g, previous, chunks)
    /\ \A k \in 1 .. Len(previous) : IsServed(previous[k]) => previous[k].place.chunk <= retained
    /\ Len(chunks) # retained =>
         \E k \in 1 .. Len(log) : IsServed(log[k]) /\ ~ (log[k].place.chunk <= retained)

WorkloadInvariant ==
    LogTypes /\ (options.reset = "retain_all" /\ chunks # <<>> => Walked)

LEMMA WalkedRepeats ==
  ASSUME ArenaInvariant, WorkloadInvariant
  PROVE  RepeatedWorkloadReusesAddresses
<1> SUFFICES ASSUME Walked, NEW n \in 1 .. Len(log), n <= Len(previous), Repeats(n)
             PROVE  log[n].place = previous[n].place /\ (n = Len(log) => Len(chunks) = retained)
  BY Zenon DEF WorkloadInvariant, RepeatedWorkloadReusesAddresses
<1>1. Len(log) \in Nat /\ Len(previous) \in Nat /\ Len(chunks) \in Nat
  BY DEF WorkloadInvariant, LogTypes, ArenaInvariant, ArenaTypes
<1>2. n \in Nat /\ n <= Len(log) /\ n \in 1 .. n /\ \A k \in 1 .. n : k \in 1 .. Len(previous)
  BY <1>1
<1>3. PICK h : Walk(h, log, chunks)
  BY Zenon DEF Walked
<1>4. PICK g : Walk(g, previous, chunks)
  BY Zenon DEF Walked
<1>5. \A k \in 1 .. n : log[k].place = previous[k].place
  BY <1>1, <1>2, <1>3, <1>4, WalksAgree
<1>6. \A k \in 1 .. n : IsServed(log[k]) => IsServed(previous[k])
  BY Zenon DEF IsServed, Repeats
<1> QED BY <1>2, <1>5, <1>6, Zenon DEF Walked

\* A call that is logged.
LEMMA LoggedKeeps ==
  ASSUME ArenaInvariant, WorkloadInvariant, chunks # <<>>, options' = options,
         NEW e \in Entry, log' = Append(log, e), UNCHANGED <<previous, retained>>,
         Walked => /\ chunks' \in Seq(Chunk) /\ Prolongs(chunks', chunks)
                   /\ current_chunk' <= Len(chunks')
                   /\ Follows(chunks', Here, e, Here')
                   /\ Len(chunks') > Len(chunks) => IsServed(e) /\ e.place.chunk = Len(chunks')
  PROVE  WorkloadInvariant'
<1>1. LogTypes'
  BY DEF WorkloadInvariant, LogTypes
<1>2. ASSUME Walked PROVE Walked'
  <2>1. /\ chunks' \in Seq(Chunk) /\ Prolongs(chunks', chunks) /\ current_chunk' <= Len(chunks')
        /\ Follows(chunks', Here, e, Here')
        /\ Len(chunks') > Len(chunks) => IsServed(e) /\ e.place.chunk = Len(chunks')
        /\ previous' = previous /\ retained' = retained
    BY <1>2, Zenon
  <2>2. /\ Len(chunks) \in Nat /\ Len(chunks') \in Nat /\ Len(chunks) <= Len(chunks')
        /\ log \in Seq(Entry) /\ retained \in Nat /\ retained <= Len(chunks)
    BY <1>2, <2>1 DEF ArenaInvariant, ArenaTypes, Prolongs, WorkloadInvariant, LogTypes, Walked
  <2>3. retained' <= Len(chunks')
    BY <2>1, <2>2
  <2>4. \E h : Walk(h, log', chunks') /\ h[Len(log') + 1] = Here'
    <3>1. PICK h : Walk(h, log, chunks) /\ h[Len(log) + 1] = Here
      BY <1>2, Zenon DEF Walked
    <3>2. Walk(h, log, chunks')
      BY <2>1, <2>2, <3>1, WalkSame
    <3>3. \E g : Walk(g, Append(log, e), chunks') /\ g[Len(Append(log, e)) + 1] = Here'
      BY <2>1, <2>2, <3>1, <3>2, WalkGrows
    <3> QED BY <3>3, Zenon
  <2>5. \E g : Walk(g, previous', chunks')
    <3>1. PICK g : Walk(g, previous, chunks)
      BY <1>2, Zenon DEF Walked
    <3>2. Walk(g, previous, chunks')
      BY <2>1, <2>2, <3>1, WalkSame
    <3> QED BY <2>1, <3>2, Zenon
  <2>6. \A k \in 1 .. Len(previous') : IsServed(previous'[k]) => previous'[k].place.chunk <= retained'
    BY <1>2, <2>1, Zenon DEF Walked
  <2>7. ASSUME Len(chunks') # retained'
        PROVE  \E k \in 1 .. Len(log') : IsServed(log'[k]) /\ ~ (log'[k].place.chunk <= retained')
    <3>1. /\ Len(log) \in Nat /\ Len(log') = Len(log) + 1 /\ log'[Len(log) + 1] = e
          /\ \A k \in 1 .. Len(log) : log'[k] = log[k] /\ k \in 1 .. Len(log')
          /\ Len(log) + 1 \in 1 .. Len(log')
      BY <2>2
    <3>2. CASE Len(chunks') > Len(chunks)
      <4>1. ~ (Len(chunks') <= retained)
        BY <2>2, <3>2
      <4> QED BY <2>1, <3>1, <3>2, <4>1, Zenon
    <3>3. CASE ~ Len(chunks') > Len(chunks)
      <4>1. Len(chunks) # retained
        BY <2>1, <2>2, <2>7, <3>3
      <4>2. PICK k \in 1 .. Len(log) : IsServed(log[k]) /\ ~ (log[k].place.chunk <= retained)
        BY <1>2, <4>1, Zenon DEF Walked
      <4> QED BY <2>1, <3>1, <4>2, Zenon
    <3> QED BY <3>2, <3>3, Zenon
  <2> QED BY <2>1, <2>3, <2>4, <2>5, <2>6, <2>7, Zenon DEF Walked
<1> QED BY <1>1, <1>2, Zenon DEF WorkloadInvariant

LEMMA ServeLogged ==
  ASSUME ArenaInvariant, WorkloadInvariant, NEW q \in Requests, Serve(q),
         Logs(<<"served", q>>, Storage(last_allocation'))
  PROVE  WorkloadInvariant'
<1> DEFINE e == [what |-> <<"served", q>>, place |-> Storage(last_allocation')]
<1>1. /\ log' = Append(log, e) /\ UNCHANGED <<previous, retained>>
      /\ e.what = <<"served", q>> /\ e.place = Storage(last_allocation')
  BY DEF Logs
<1>2. e \in Entry
  <2>1. Storage(last_allocation') \in Address
    BY ServeKeeps, Zenon
  <2> QED BY <2>1, Zenon DEF Entry
<1> HIDE DEF e
<1>3. IsServed(e)
  BY <1>1, Zenon DEF IsServed
<1>4. chunks # <<>> /\ options' = options
  <2>1. stack # <<>> => Top.kind # "dead"
    BY Zenon DEF Serve, Requested, UserCode
  <2> QED BY <2>1, StillRunning, Zenon DEF Serve
<1>5. ASSUME Walked
      PROVE  /\ chunks' \in Seq(Chunk) /\ Prolongs(chunks', chunks)
             /\ current_chunk' <= Len(chunks')
             /\ Follows(chunks', Here, e, Here')
             /\ Len(chunks') > Len(chunks) => IsServed(e) /\ e.place.chunk = Len(chunks')
  <2>1. /\ chunks' \in Seq(Chunk) /\ Prolongs(chunks', chunks)
        /\ Len(chunks') > Len(chunks) => last_allocation'.chunk = Len(chunks')
        /\ \E i \in 1 .. Len(chunks') : FirstRoom(chunks', Here, i, q) /\ Here' = Placed(chunks', Here, i, q)
    BY <1>5, ServeFollows, Zenon DEF Walked
  <2>2. PICK i \in 1 .. Len(chunks') : FirstRoom(chunks', Here, i, q) /\ Here' = Placed(chunks', Here, i, q)
    BY <2>1, Zenon
  <2>3. Here'.last = last_allocation' /\ Here'.current = current_chunk' /\ e.place.chunk = last_allocation'.chunk
    BY <1>1 DEF Here, Position, Storage
  <2>4. Here'.current = i
    BY <2>2 DEF Placed
  <2>5. current_chunk' <= Len(chunks')
    BY <2>1, <2>3, <2>4
  <2>6. e.place = Storage(Here'.last)
    BY <1>1, <2>3, Zenon
  <2>7. Follows(chunks', Here, e, Here')
    BY <1>1, <2>2, <2>6, Zenon DEF Follows, Served
  <2> QED BY <1>3, <2>1, <2>3, <2>5, <2>7, Zenon
<1> QED BY <1>1, <1>2, <1>4, <1>5, LoggedKeeps

LEMMA RefusalLogged ==
  ASSUME ArenaInvariant, WorkloadInvariant, NEW q \in Requests, AllocateFails(q), Logs(<<"refused">>, Nowhere)
  PROVE  WorkloadInvariant'
<1> DEFINE e == [what |-> <<"refused">>, place |-> Nowhere]
<1>1. log' = Append(log, e) /\ UNCHANGED <<previous, retained>> /\ e.what = <<"refused">>
  BY DEF Logs
<1>2. e \in Entry
  <2>1. Nowhere \in Address
    BY DEF Nowhere, Address
  <2> QED BY <2>1, Zenon DEF Entry
<1> HIDE DEF e
<1>3. chunks # <<>>
  <2>1. stack # <<>> => Top.kind # "dead"
    BY Zenon DEF AllocateFails, Requested, UserCode
  <2> QED BY <2>1, StillRunning, Zenon
<1>4. /\ options' = options /\ chunks' = chunks /\ current_chunk' = current_chunk
      /\ last_allocation' = last_allocation
  BY Zenon DEF AllocateFails, arena
<1>5. Here' = Here /\ Follows(chunks', Here, e, Here')
  BY <1>1, <1>4, Zenon DEF Here, Position, Follows
<1>6. chunks \in Seq(Chunk) /\ Prolongs(chunks, chunks) /\ ~ Len(chunks) > Len(chunks)
  BY DEF ArenaInvariant, ArenaTypes, Prolongs
<1>7. Walked => /\ chunks' \in Seq(Chunk) /\ Prolongs(chunks', chunks)
                /\ current_chunk' <= Len(chunks')
                /\ Follows(chunks', Here, e, Here')
                /\ Len(chunks') > Len(chunks) => IsServed(e) /\ e.place.chunk = Len(chunks')
  BY <1>4, <1>5, <1>6, Zenon DEF Walked
<1> QED BY <1>1, <1>2, <1>3, <1>4, <1>7, LoggedKeeps

LEMMA FailureLogged ==
  ASSUME ArenaInvariant, WorkloadInvariant, CreateFails, Logs(<<"abandoned">>, Top.at)
  PROVE  WorkloadInvariant'
<1> DEFINE e == [what |-> <<"abandoned">>, place |-> Top.at]
<1>1. log' = Append(log, e) /\ UNCHANGED <<previous, retained>> /\ e.what = <<"abandoned">> /\ e.place = Top.at
  BY DEF Logs
<1>2. e \in Entry
  <2>1. stack \in Seq(Frame) /\ stack # <<>>
    BY Zenon DEF ArenaInvariant, ObjectsKept, CreateFails
  <2>2. Top \in Frame
    BY <2>1 DEF Top
  <2>3. Top.at \in Address
    BY <2>2, Zenon DEF Frame
  <2> QED BY <2>3, Zenon DEF Entry
<1> HIDE DEF e
<1>3. /\ chunks # <<>> /\ options' = options
      /\ chunks' \in Seq(Chunk) /\ Prolongs(chunks', chunks) /\ Len(chunks') = Len(chunks)
      /\ Here' = RolledBack(Here, Top.at)
  BY RollbackFollows, Zenon
<1>4. current_chunk' = current_chunk /\ ~ Len(chunks') > Len(chunks)
  <2>1. current_chunk' = current_chunk
    BY Zenon DEF CreateFails
  <2>2. Len(chunks) \in Nat
    BY DEF ArenaInvariant, ArenaTypes
  <2> QED BY <1>3, <2>1, <2>2
<1>5. Follows(chunks', Here, e, Here')
  BY <1>1, <1>3, Zenon DEF Follows
<1>6. Walked => /\ chunks' \in Seq(Chunk) /\ Prolongs(chunks', chunks)
                /\ current_chunk' <= Len(chunks')
                /\ Follows(chunks', Here, e, Here')
                /\ Len(chunks') > Len(chunks) => IsServed(e) /\ e.place.chunk = Len(chunks')
  BY <1>3, <1>4, <1>5, Zenon DEF Walked
<1> QED BY <1>1, <1>2, <1>3, <1>6, LoggedKeeps

\* What a served call got was in one of the chunks.
LEMMA ServedInChunks ==
  ASSUME NEW h, NEW calls, NEW cs \in Seq(Chunk), Walk(h, calls, cs),
         NEW k \in 1 .. Len(calls), IsServed(calls[k])
  PROVE  calls[k].place.chunk <= Len(cs)
<1>1. calls[k].what # <<"refused">> /\ calls[k].what # <<"abandoned">>
  BY WhatDiffers, Zenon DEF IsServed
<1>2. PICK q \in Requests : Served(cs, h[k], q, calls[k], h[k + 1])
  BY <1>1, Zenon DEF Walk, Follows
<1>3. PICK i \in 1 .. Len(cs) : h[k + 1] = Placed(cs, h[k], i, q) /\ calls[k].place = Storage(h[k + 1].last)
  BY <1>2, Zenon DEF Served
<1>4. calls[k].place.chunk = i
  BY <1>3 DEF Placed, Storage
<1> QED BY <1>4

\* reset() when it keeps every chunk: the walk starts again.
LEMMA ResetWalks ==
  ASSUME ArenaInvariant, WorkloadInvariant, FinishReset,
         previous' = log, log' = <<>>, retained' = Len(chunks')
  PROVE  WorkloadInvariant'
<1>1. /\ chunks \in Seq(Chunk) /\ options' = options /\ RewindChunks /\ last_allocation' = NoAllocation
      /\ current_chunk' = 1 /\ LogTypes
  BY Zenon DEF ArenaInvariant, ArenaTypes, FinishReset, RewindChunks, WorkloadInvariant
<1>2. chunks # <<>>
  <2>1. stack # <<>> => Top.kind # "dead"
    BY Zenon DEF FinishReset
  <2> QED BY <2>1, StillRunning, Zenon
<1>3. LogTypes'
  <2>1. chunks' \in Seq(Chunk)
    BY FinishResetKeeps, Zenon DEF ArenaInvariant, ArenaTypes
  <2> QED BY <1>1, <2>1 DEF LogTypes
<1>4. ASSUME options.reset = "retain_all" PROVE Walked'
  <2>1. chunks' = [i \in DOMAIN chunks |-> Rewound(chunks[i])]
    BY <1>1, <1>4, Zenon DEF RewindChunks
  <2>2. /\ DOMAIN chunks = 1 .. Len(chunks) /\ Len(chunks) \in Nat \ {0}
        /\ \A i \in 1 .. Len(chunks) : chunks[i] \in Chunk
    BY <1>1, <1>2
  <2>3. \A c \in Chunk : Rewound(c).capacity = c.capacity /\ Rewound(c).alignment = c.alignment
                         /\ Rewound(c).offset = 0
    BY DEF Rewound, Chunk
  <2>4. Len(chunks') = Len(chunks) /\ chunks' \in Seq(Chunk)
    <3>1. chunks' \in Seq(Chunk)
      BY FinishResetKeeps, Zenon DEF ArenaInvariant, ArenaTypes
    <3> QED BY <2>1, <2>2, <3>1
  <2>5. \A i \in 1 .. Len(chunks) : /\ chunks'[i].capacity = chunks[i].capacity
                                    /\ chunks'[i].alignment = chunks[i].alignment
                                    /\ chunks'[i].offset = 0
    BY <2>1, <2>2, <2>3, Zenon
  <2>6. Prolongs(chunks', chunks)
    BY <2>2, <2>4, <2>5 DEF Prolongs
  <2>7. Here' = Origin
    <3>1. Cursors(chunks') = [i \in Nat |-> 0]
      BY <2>4, <2>5, Zenon DEF Cursors
    <3> QED BY <1>1, <3>1, Zenon DEF Here, Position, Origin
  <2>8. Walked
    BY <1>2, <1>4, Zenon DEF WorkloadInvariant
  <2>9. PICK h : Walk(h, log, chunks)
    BY <2>8, Zenon DEF Walked
  <2>10. Walk(h, log, chunks')
    BY <2>2, <2>4, <2>6, <2>9, WalkSame
  <2>11. \A k \in 1 .. Len(log) : IsServed(log[k]) => log[k].place.chunk <= Len(chunks')
    BY <2>4, <2>10, ServedInChunks
  <2>12. \E g : Walk(g, <<>>, chunks') /\ g[Len(<<>>) + 1] = Origin
    <3> DEFINE g == [k \in {1} |-> Origin]
    <3>1. g[1] = Origin /\ Len(<<>>) + 1 = 1 /\ 1 .. Len(<<>>) = {}
      OBVIOUS
    <3>2. Walk(g, <<>>, chunks')
      BY <3>1, Zenon DEF Walk
    <3> QED BY <3>1, <3>2, Zenon
  <2>13. current_chunk' <= Len(chunks') /\ retained' <= Len(chunks')
    BY <1>1, <2>2, <2>4
  <2> QED BY <2>7, <2>10, <2>11, <2>12, <2>13, Zenon DEF Walked
<1> QED BY <1>1, <1>3, <1>4, Zenon DEF WorkloadInvariant

LEMMA WorkloadStarts == InitLifetimes => WorkloadInvariant
<1> SUFFICES ASSUME InitLifetimes PROVE WorkloadInvariant
  BY Zenon
<1>1. /\ log = <<>> /\ previous = <<>> /\ retained = 1 /\ current_chunk = 1
      /\ last_allocation = NoAllocation
  BY Zenon DEF InitLifetimes, Init
<1>2. chunks = <<NewChunk(InitialSize, InitialAlignment)>>
  BY Zenon DEF InitLifetimes, Init
<1>3. LogTypes
  BY <1>1 DEF LogTypes
<1>4. Len(chunks) = 1 /\ \A i \in 1 .. Len(chunks) : chunks[i].offset = 0
  BY <1>2 DEF NewChunk
<1>5. Here = Origin
  <2>1. Cursors(chunks) = [i \in Nat |-> 0]
    BY <1>4, Zenon DEF Cursors
  <2> QED BY <1>1, <2>1, Zenon DEF Here, Position, Origin
<1>6. \E g : Walk(g, <<>>, chunks) /\ g[Len(<<>>) + 1] = Origin
  <2> DEFINE g == [k \in {1} |-> Origin]
  <2>1. g[1] = Origin /\ Len(<<>>) + 1 = 1 /\ 1 .. Len(<<>>) = {}
    OBVIOUS
  <2>2. Walk(g, <<>>, chunks)
    BY <2>1, Zenon DEF Walk
  <2> QED BY <2>1, <2>2, Zenon
<1>7. current_chunk <= Len(chunks) /\ retained <= Len(chunks) /\ 1 .. Len(<<>>) = {}
  BY <1>1, <1>4
<1>8. Walked
  BY <1>1, <1>4, <1>5, <1>6, <1>7, Zenon DEF Walked
<1> QED BY <1>3, <1>8, Zenon DEF WorkloadInvariant

LEMMA WorkloadKept ==
  ArenaInvariant /\ WorkloadInvariant /\ [NextLifetimes]_<<vars, lifetimes>> => WorkloadInvariant'
<1> SUFFICES ASSUME ArenaInvariant, WorkloadInvariant, [NextLifetimes]_<<vars, lifetimes>>
             PROVE  WorkloadInvariant'
  BY Zenon
<1>1. ASSUME UNCHANGED lifetimes, UNCHANGED <<options, arena>> PROVE WorkloadInvariant'
  <2>1. /\ options' = options /\ chunks' = chunks /\ current_chunk' = current_chunk
        /\ last_allocation' = last_allocation
        /\ log' = log /\ previous' = previous /\ retained' = retained
    BY <1>1, Zenon DEF arena, lifetimes
  <2>2. Here' = Here
    BY <2>1, Zenon DEF Here
  <2> QED BY <2>1, <2>2, Zenon DEF WorkloadInvariant, LogTypes, Walked
<1>2. CASE UNCHANGED <<vars, lifetimes>>
  <2>1. UNCHANGED vars /\ UNCHANGED lifetimes
    BY <1>2, Zenon
  <2>2. UNCHANGED <<options, arena>>
    BY <2>1, Zenon DEF vars
  <2> QED BY <1>1, <2>1, <2>2, Zenon
<1>3. ASSUME NEW q \in Requests,
             \/ Allocate(q) /\ Logs(<<"served", q>>, Storage(last_allocation'))
             \/ \E trivial \in BOOLEAN : Create(q, trivial) /\ Logs(<<"served", q>>, Storage(last_allocation'))
      PROVE  WorkloadInvariant'
  <2>1. Serve(q) /\ Logs(<<"served", q>>, Storage(last_allocation'))
    BY <1>3, Zenon DEF Allocate, Create
  <2> QED BY <2>1, ServeLogged, Zenon
<1>4. ASSUME ConstructorReturns \/ RegistrationFails \/ Reset \/ End \/ RunDestructor \/ DestructorReturns,
             UNCHANGED lifetimes
      PROVE  WorkloadInvariant'
  <2>1. UNCHANGED <<options, arena>>
    BY <1>4, Zenon DEF ConstructorReturns, RegistrationFails, Reset, End, RunDestructor, DestructorReturns
  <2> QED BY <1>1, <1>4, <2>1, Zenon
<1>5. ASSUME FinishEnd, UNCHANGED lifetimes PROVE WorkloadInvariant'
  <2>1. chunks' = <<>> /\ log' = log /\ previous' = previous /\ retained' = retained
    BY <1>5, Zenon DEF FinishEnd, lifetimes
  <2> QED BY <2>1, Zenon DEF WorkloadInvariant, LogTypes
<1>6. ASSUME NEW q \in Requests, AllocateFails(q), Logs(<<"refused">>, Nowhere) PROVE WorkloadInvariant'
  BY <1>6, RefusalLogged, Zenon
<1> QED BY <1>2, <1>3, <1>4, <1>5, <1>6, FailureLogged, ResetWalks, Zenon DEF NextLifetimes

\* For every workload, nesting of calls, failing constructor and growth: with
\* retain_all, the calls of a lifetime that repeat those of the one before get
\* the same addresses and add no chunk.
THEOREM RepeatedWorkloadReusesAddressesHolds == SpecLifetimes => []RepeatedWorkloadReusesAddresses
<1>1. InitLifetimes => Init
  BY Zenon DEF InitLifetimes
<1>2. [NextLifetimes]_<<vars, lifetimes>> => [Next]_vars
  <2> SUFFICES ASSUME [NextLifetimes]_<<vars, lifetimes>> PROVE [Next]_vars
    BY Zenon
  <2>1. CASE NextLifetimes
    BY <2>1, Zenon DEF NextLifetimes, Next
  <2>2. CASE UNCHANGED <<vars, lifetimes>>
    BY <2>2, Zenon
  <2> QED BY <2>1, <2>2, Zenon
<1>3. ArenaInvariant /\ WorkloadInvariant => RepeatedWorkloadReusesAddresses
  BY WalkedRepeats, Zenon
<1>4. SpecLifetimes => []ArenaInvariant
  BY <1>1, <1>2, ArenaInvariantHolds, PTL DEF SpecLifetimes, Spec
<1> QED BY <1>3, <1>4, WorkloadStarts, WorkloadKept, PTL DEF SpecLifetimes
==============================================================================
