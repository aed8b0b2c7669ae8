------------------------- MODULE ThreadCacheTheorems -------------------------
(***************************************************************************)
(* What holds of every behaviour of ThreadCache, for any callers, and of   *)
(* the behaviours in which callers free only what they hold.               *)
(***************************************************************************)
EXTENDS ThreadCacheHolderProofs, FiniteSetTheorems

------------------------------------------------------------------------------
(* How many holders a block has and what the gauges count, in the states   *)
(* of CacheInvariant and HolderInvariant.                                  *)

LEMMA SmallSets ==
  /\ IsFiniteSet({}) /\ Cardinality({}) = 0
  /\ \A x : IsFiniteSet({x}) /\ Cardinality({x}) = 1
  BY FS_EmptySet, FS_Singleton, Zenon

\* Two subsets of a finite set that agree but for one element.
LEMMA FlipElement ==
  ASSUME NEW D, IsFiniteSet(D), NEW S \in SUBSET D, NEW T \in SUBSET D, NEW x,
         \A y \in D : y # x => (y \in S <=> y \in T)
  PROVE  /\ Cardinality(S) \in Nat /\ Cardinality(T) \in Nat
         /\ Cardinality(T) = Cardinality(S) + Count(x \in T) - Count(x \in S)
<1>1. IsFiniteSet(S) /\ IsFiniteSet(T)
  BY FS_Subset, Zenon
<1>2. Cardinality(S) \in Nat /\ Cardinality(T) \in Nat
  BY <1>1, FS_CardinalityType, Zenon
<1>3. CASE x \in S <=> x \in T
  <2>1. S = T
    BY <1>3
  <2> QED BY <1>2, <2>1 DEF Count
<1>4. CASE x \in S /\ x \notin T
  <2>1. T = S \ {x}
    BY <1>4, Zenon
  <2>2. Cardinality(T) = Cardinality(S) - 1
    BY <1>1, <1>4, <2>1, FS_RemoveElement, Zenon
  <2> QED BY <1>2, <1>4, <2>2 DEF Count
<1>5. CASE x \notin S /\ x \in T
  <2>1. T = S \cup {x}
    BY <1>5, Zenon
  <2>2. Cardinality(T) = Cardinality(S) + 1
    BY <1>1, <1>5, <2>1, FS_AddElement, Zenon
  <2> QED BY <1>2, <1>5, <2>2 DEF Count
<1> QED BY <1>3, <1>4, <1>5, Zenon

\* Subsets of a finite set, and the union of two disjoint sets.
LEMMA FiniteSubset ==
  ASSUME NEW D, IsFiniteSet(D), NEW S \in SUBSET D
  PROVE  IsFiniteSet(S) /\ Cardinality(S) \in Nat
  BY FS_Subset, FS_CardinalityType, Zenon

LEMMA DisjointUnion ==
  ASSUME NEW S, NEW T, IsFiniteSet(S), IsFiniteSet(T), S \cap T = {}
  PROVE  /\ Cardinality(S) \in Nat /\ Cardinality(T) \in Nat
         /\ Cardinality(S \cup T) = Cardinality(S) + Cardinality(T)
<1>1. Cardinality(S \cup T) = Cardinality(S) + Cardinality(T) - Cardinality(S \cap T)
  BY FS_Union, Zenon
<1>2. Cardinality(S) \in Nat /\ Cardinality(T) \in Nat /\ Cardinality(S \cap T) = 0
  BY FS_CardinalityType, SmallSets, Zenon
<1> QED BY <1>1, <1>2

LEMMA InjectionBound ==
  ASSUME NEW S, NEW T, IsFiniteSet(T), NEW f \in [S -> T],
         \A x, y \in S : f[x] = f[y] => x = y
  PROVE  Cardinality(S) <= Cardinality(T)
<1>1. f \in Injection(S, T)
  BY Zenon DEF Injection, IsInjective
<1> QED BY <1>1, FS_Injection, Zenon

------------------------------------------------------------------------------
(* BlockHasOneHolder.                                                      *)

\* The threads that hold p as an inactive block, and as a fresh one.
CachedHands(p) == {t \in Threads : frame[t].ptr = p /\ \E c \in Classes : HoldsCached(t, c)}
FreshHands(p) == {t \in Threads : frame[t].ptr = p /\ HoldsFresh(t)}

LEMMA KeptOnce ==
  ASSUME IInv, NEW p \in Addr, NEW t \in Threads, NEW c \in Classes, KeptBy(t, c, p)
  PROVE  records[p] = CachedRecord(t, c)
  BY DEF IInv, CacheInvariant, BinOK, HandOK, KeptBy

\* A block with a record is active, or in one slot, or in one hand.
LEMMA RecordedOnce ==
  ASSUME HInv, NEW p \in Addr
  PROVE  /\ IsFiniteSet(CachedHands(p)) /\ Cardinality(Slots(p)) \in Nat
         /\ Cardinality(Slots(p)) + Cardinality(CachedHands(p))
              = Count(records[p] # NoRecord) - Count(IsActive(p))
<1>1. ASSUME NEW slot \in Slots(p)
      PROVE  /\ slot \in [t : Threads, c : Classes, i : 1 .. HighWatermark + 1]
             /\ slot.t \in Threads /\ slot.c \in Classes
             /\ slot.i \in 1 .. Len(bins[slot.t][slot.c])
             /\ bins[slot.t][slot.c][slot.i] = p
             /\ records[p] = CachedRecord(slot.t, slot.c)
  <2>1. /\ slot.t \in Threads /\ slot.c \in Classes /\ slot.i \in 1 .. HighWatermark + 1
        /\ slot.i <= Len(bins[slot.t][slot.c])
        /\ bins[slot.t][slot.c][slot.i] = p
    BY Zenon DEF Slots
  <2>2. Len(bins[slot.t][slot.c]) \in Nat /\ HighWatermark \in Nat
    BY <2>1, LocalFacts, Zenon
  <2>3. slot.i \in 1 .. Len(bins[slot.t][slot.c])
    BY <2>1, <2>2
  <2> QED BY <2>1, <2>3, KeptOnce DEF Slots, HInv, KeptBy
<1>2. ASSUME NEW t \in CachedHands(p)
      PROVE  t \in Threads /\ \E c \in Classes : KeptBy(t, c, p) /\ records[p] = CachedRecord(t, c)
  BY KeptOnce, Zenon DEF CachedHands, HInv, KeptBy
<1>3. CASE ~ IsCached(p)
  <2>1. Slots(p) = {}
    BY <1>1, <1>3, CachedRecordIsCached, Zenon
  <2>2. CachedHands(p) = {}
    BY <1>2, <1>3, CachedRecordIsCached, Zenon
  <2>3. records[p] # NoRecord <=> IsActive(p)
    BY <1>3, Zenon DEF IsActive, IsCached, HInv, IInv, TypeOK, Record
  <2>4. IsFiniteSet(CachedHands(p)) /\ Cardinality(CachedHands(p)) = 0
    BY <2>2, SmallSets, Zenon
  <2>5. Cardinality(Slots(p)) = 0
    BY <2>1, SmallSets, Zenon
  <2> QED BY <2>3, <2>4, <2>5 DEF Count
<1>4. CASE IsCached(p)
  <2>1. PICK t \in Threads, c \in Classes : records[p] = CachedRecord(t, c) /\ KeptBy(t, c, p)
    BY <1>4, Zenon DEF HInv, HolderInvariant, PlaceOK
  <2>2. records[p] # NoRecord /\ ~ IsActive(p)
    BY <1>4, Zenon DEF IsCached, IsActive
  <2>3. \A u \in Threads, d \in Classes : records[p] = CachedRecord(u, d) => u = t /\ d = c
    BY <2>1 DEF CachedRecord
  <2>4. CASE \E i \in 1 .. Len(bins[t][c]) : bins[t][c][i] = p
    <3>1. PICK i \in 1 .. Len(bins[t][c]) : bins[t][c][i] = p
      BY <2>4, Zenon
    <3> DEFINE here == [t |-> t, c |-> c, i |-> i]
    <3>2. Len(bins[t][c]) \in Nat /\ HighWatermark \in Nat /\ Len(bins[t][c]) <= HighWatermark + 1
      BY LocalFacts, Zenon DEF ReserveOK
    <3>3. i \in 1 .. HighWatermark + 1 /\ i <= Len(bins[t][c])
      BY <3>2
    <3>4. here \in Slots(p)
      BY <3>1, <3>3, Zenon DEF Slots
    <3>5. ASSUME NEW slot \in Slots(p) PROVE slot = here
      <4>1. slot.t = t /\ slot.c = c
        BY <1>1, <2>3, Zenon
      <4>2. slot.i = i
        BY <1>1, <3>1, <4>1 DEF HInv, IInv, CacheInvariant, BinOK
      <4> QED BY <1>1, <4>1, <4>2, Zenon
    <3>6. Slots(p) = {here}
      BY <3>4, <3>5, Zenon
    <3>7. ASSUME NEW u \in CachedHands(p) PROVE FALSE
      <4>1. u \in Threads /\ frame[u].ptr = p
        BY Zenon DEF CachedHands
      <4>2. PICK d \in Classes : HoldsCached(u, d)
        BY Zenon DEF CachedHands
      <4>3. HandOK(u, d)
        BY <4>1, Zenon DEF HInv, IInv, CacheInvariant
      <4>4. u = t /\ d = c
        BY <2>3, <4>1, <4>2, <4>3, Zenon DEF HandOK
      <4> QED BY <3>1, <4>1, <4>2, <4>3, <4>4, Zenon DEF HandOK
    <3>8. CachedHands(p) = {}
      BY <3>7, Zenon
    <3>9. Cardinality(Slots(p)) = 1
      BY <3>6, SmallSets, Zenon
    <3>10. IsFiniteSet(CachedHands(p)) /\ Cardinality(CachedHands(p)) = 0
      BY <3>8, SmallSets, Zenon
    <3> QED BY <2>2, <3>9, <3>10 DEF Count
  <2>5. CASE ~ \E i \in 1 .. Len(bins[t][c]) : bins[t][c][i] = p
    <3>1. Slots(p) = {}
      BY <1>1, <2>3, <2>5, Zenon
    <3>2. t \in CachedHands(p)
      BY <2>1, <2>5, Zenon DEF KeptBy, CachedHands
    <3>3. CachedHands(p) = {t}
      BY <1>2, <2>3, <3>2, Zenon
    <3>4. Cardinality(Slots(p)) = 0
      BY <3>1, SmallSets, Zenon
    <3>5. IsFiniteSet(CachedHands(p)) /\ Cardinality(CachedHands(p)) = 1
      BY <3>3, SmallSets, Zenon
    <3> QED BY <2>2, <3>4, <3>5 DEF Count
  <2> QED BY <2>4, <2>5, Zenon
<1> QED BY <1>3, <1>4, Zenon

\* A block is fresh in one hand when central storage has allocated it beyond
\* what its record, if it is not being erased, accounts for.
LEMMA FreshOnce ==
  ASSUME IInv, NEW p \in Addr
  PROVE  /\ IsFiniteSet(FreshHands(p))
         /\ Cardinality(FreshHands(p))
              = Count(central[p] # Free) + Count(Erasing(p)) - Count(records[p] # NoRecord)
<1>1. CASE central[p] # Free /\ (records[p] = NoRecord \/ Erasing(p))
  <2>1. PICK t \in Threads : HoldsFresh(t) /\ frame[t].ptr = p
    BY <1>1, Zenon DEF IInv, CacheInvariant, CentralOK
  <2>2. FreshHands(p) = {t}
    BY <2>1, Zenon DEF FreshHands, IInv, CacheInvariant, FreshDistinct
  <2>3. IsFiniteSet(FreshHands(p)) /\ Cardinality(FreshHands(p)) = 1
    BY <2>2, SmallSets, Zenon
  <2>4. Erasing(p) => records[p] # NoRecord
    BY Zenon DEF Erasing, IInv, CacheInvariant, FreeOK, HoldsShard
  <2> QED BY <1>1, <2>3, <2>4 DEF Count
<1>2. CASE ~ (central[p] # Free /\ (records[p] = NoRecord \/ Erasing(p)))
  <2>1. ASSUME NEW t \in FreshHands(p) PROVE FALSE
    <3>1. t \in Threads /\ frame[t].ptr = p /\ HoldsFresh(t)
      BY Zenon DEF FreshHands
    <3>2. frame[t].arg \in Requests /\ central[p] = Kind(frame[t].arg)
      BY <3>1, Zenon DEF IInv, CacheInvariant, FrameOK, FreshOK, HoldsFresh
    <3>3. records[p] # NoRecord => Erasing(p)
      BY <3>1, Zenon DEF IInv, CacheInvariant, FreshOK
    <3> QED BY <1>2, <3>2, <3>3, KindType, Zenon
  <2>2. FreshHands(p) = {}
    BY <2>1, Zenon
  <2>3. IsFiniteSet(FreshHands(p)) /\ Cardinality(FreshHands(p)) = 0
    BY <2>2, SmallSets, Zenon
  <2>4. Erasing(p) => records[p] # NoRecord
    BY Zenon DEF Erasing, IInv, CacheInvariant, FreeOK, HoldsShard
  <2>5. records[p] # NoRecord /\ ~ Erasing(p) => central[p] = records[p].kind
    BY Zenon DEF IInv, CacheInvariant, CentralOK
  <2>6. records[p] # NoRecord => records[p].kind # Free
    BY RecordFacts, Zenon DEF IInv, TypeOK
  <2> QED BY <1>2, <2>3, <2>4, <2>5, <2>6 DEF Count
<1> QED BY <1>1, <1>2, Zenon

\* The two counts together.
LEMMA OneHolder == HInv => BlockHasOneHolder
<1> SUFFICES ASSUME HInv, NEW p \in Addr
             PROVE  Count(IsActive(p)) + Cardinality(Slots(p))
                       + Cardinality({t \in Threads : InFlight(t, p)})
                    = Count(central[p] # Free) + Count(Erasing(p))
  BY Zenon DEF BlockHasOneHolder
<1> DEFINE C == CachedHands(p)
           F == FreshHands(p)
<1>1. {t \in Threads : InFlight(t, p)} = C \cup F
  <2>1. ASSUME NEW t \in Threads, InFlight(t, p) PROVE t \in C \cup F
    <3>1. (frame[t].pc \in {"hit", "push"} \/ (At(t, "keep") /\ frame[t].index > 0))
            => \E c \in Classes : HoldsCached(t, c)
      BY Zenon DEF HInv, IInv, CacheInvariant, FrameOK, HoldsCached, At
    <3> QED BY <2>1, <3>1, Zenon DEF InFlight, CachedHands, FreshHands, HoldsFresh
  <2>2. ASSUME NEW t \in C \cup F PROVE t \in Threads /\ InFlight(t, p)
    BY Zenon DEF InFlight, CachedHands, FreshHands, HoldsFresh, HoldsCached, At
  <2> QED BY <2>1, <2>2, Zenon
<1>2. C \cap F = {}
  BY Zenon DEF CachedHands, FreshHands, HoldsFresh, HoldsCached, At
<1>3. IsFiniteSet(C) /\ IsFiniteSet(F) /\ Cardinality(Slots(p)) \in Nat
  BY RecordedOnce, FreshOnce, Zenon DEF HInv
<1>4. /\ Cardinality(C) \in Nat /\ Cardinality(F) \in Nat
      /\ Cardinality({t \in Threads : InFlight(t, p)}) = Cardinality(C) + Cardinality(F)
  BY <1>1, <1>2, <1>3, DisjointUnion, Zenon
<1> DEFINE recorded == Count(records[p] # NoRecord)
           active == Count(IsActive(p))
           taken == Count(central[p] # Free)
           erasing == Count(Erasing(p))
<1>5. recorded \in Int /\ active \in Int /\ taken \in Int /\ erasing \in Int
  BY DEF Count
<1>6. Cardinality(Slots(p)) + Cardinality(C) = recorded - active
  BY RecordedOnce, Zenon
<1>7. Cardinality(F) = taken + erasing - recorded
  BY FreshOnce, Zenon DEF HInv
<1>8. active + Cardinality(Slots(p)) + (Cardinality(C) + Cardinality(F)) = taken + erasing
  <2> HIDE DEF C, F, recorded, active, taken, erasing
  <2> QED BY <1>3, <1>4, <1>5, <1>6, <1>7
<1> QED BY <1>4, <1>8, Zenon

------------------------------------------------------------------------------
(* GaugesExact.                                                            *)

CachedBlocks == {p \in Addr : IsCached(p)}
ActiveBlocks == {p \in Addr : IsActive(p)}

\* The threads whose refill has recorded an inactive block and not counted it,
\* and those whose allocation is recorded and not yet noted as live.
Uncached == {t \in Threads : At(t, "keep") /\ frame[t].index > 0}
Unnoted == {t \in Threads : At(t, "keep") \/ At(t, "note") \/ frame[t].index > 0}

Gauges ==
    /\ cached = Cardinality(CachedBlocks) - Cardinality(Uncached)
    /\ live = Cardinality(ActiveBlocks) - Cardinality(Unnoted)

\* What a step of one thread on one record does to the four counts.
LEMMA CountsStep ==
  ASSUME NEW t \in Threads, Moves(t), NEW q,
         \A p \in Addr : p # q => records'[p] = records[p]
  PROVE  /\ Cardinality(CachedBlocks) \in Nat /\ Cardinality(ActiveBlocks) \in Nat
         /\ Cardinality(Uncached) \in Nat /\ Cardinality(Unnoted) \in Nat
         /\ Cardinality(CachedBlocks)' = Cardinality(CachedBlocks)
              + Count(q \in CachedBlocks') - Count(q \in CachedBlocks)
         /\ Cardinality(ActiveBlocks)' = Cardinality(ActiveBlocks)
              + Count(q \in ActiveBlocks') - Count(q \in ActiveBlocks)
         /\ Cardinality(Uncached)' = Cardinality(Uncached)
              + Count(t \in Uncached') - Count(t \in Uncached)
         /\ Cardinality(Unnoted)' = Cardinality(Unnoted)
              + Count(t \in Unnoted') - Count(t \in Unnoted)
<1>1. /\ CachedBlocks \in SUBSET Addr /\ CachedBlocks' \in SUBSET Addr
      /\ \A p \in Addr : p # q => (p \in CachedBlocks <=> p \in CachedBlocks')
  BY Zenon DEF CachedBlocks, IsCached
<1>2. /\ ActiveBlocks \in SUBSET Addr /\ ActiveBlocks' \in SUBSET Addr
      /\ \A p \in Addr : p # q => (p \in ActiveBlocks <=> p \in ActiveBlocks')
  BY Zenon DEF ActiveBlocks, IsActive
<1>3. /\ Uncached \in SUBSET Threads /\ Uncached' \in SUBSET Threads
      /\ \A u \in Threads : u # t => (u \in Uncached <=> u \in Uncached')
  BY Zenon DEF Uncached, At, Moves
<1>4. /\ Unnoted \in SUBSET Threads /\ Unnoted' \in SUBSET Threads
      /\ \A u \in Threads : u # t => (u \in Unnoted <=> u \in Unnoted')
  BY Zenon DEF Unnoted, At, Moves
<1> QED BY <1>1, <1>2, <1>3, <1>4, FlipElement, FiniteAssumption

\* The gauges follow the sets when they change by what enters and leaves them.
LEMMA GaugesStep ==
  ASSUME Gauges, NEW t \in Threads, Moves(t), NEW q,
         \A p \in Addr : p # q => records'[p] = records[p],
         NEW a \in Int, NEW b \in Int, NEW c \in Int, NEW d \in Int,
         a = Count(q \in CachedBlocks') - Count(q \in CachedBlocks),
         b = Count(t \in Uncached') - Count(t \in Uncached),
         c = Count(q \in ActiveBlocks') - Count(q \in ActiveBlocks),
         d = Count(t \in Unnoted') - Count(t \in Unnoted),
         cached' = cached + a - b, live' = live + c - d
  PROVE  Gauges'
<1> DEFINE x == Cardinality(CachedBlocks)
           y == Cardinality(Uncached)
           z == Cardinality(ActiveBlocks)
           w == Cardinality(Unnoted)
<1>1. x \in Nat /\ y \in Nat /\ z \in Nat /\ w \in Nat
  BY CountsStep, Zenon
<1>2. /\ Count(q \in CachedBlocks') \in Int /\ Count(q \in CachedBlocks) \in Int
      /\ Count(t \in Uncached') \in Int /\ Count(t \in Uncached) \in Int
      /\ Count(q \in ActiveBlocks') \in Int /\ Count(q \in ActiveBlocks) \in Int
      /\ Count(t \in Unnoted') \in Int /\ Count(t \in Unnoted) \in Int
  BY DEF Count
<1>3. x' = x + a
  <2>1. x' = x + Count(q \in CachedBlocks') - Count(q \in CachedBlocks)
    BY CountsStep, Zenon
  <2> HIDE DEF x
  <2> QED BY <1>1, <2>1, Zenon DEF Count
<1>4. y' = y + b
  <2>1. y' = y + Count(t \in Uncached') - Count(t \in Uncached)
    BY CountsStep, Zenon
  <2> HIDE DEF y
  <2> QED BY <1>1, <2>1, Zenon DEF Count
<1>5. z' = z + c
  <2>1. z' = z + Count(q \in ActiveBlocks') - Count(q \in ActiveBlocks)
    BY CountsStep, Zenon
  <2> HIDE DEF z
  <2> QED BY <1>1, <2>1, Zenon DEF Count
<1>6. w' = w + d
  <2>1. w' = w + Count(t \in Unnoted') - Count(t \in Unnoted)
    BY CountsStep, Zenon
  <2> HIDE DEF w
  <2> QED BY <1>1, <2>1, Zenon DEF Count
<1>7. cached = x - y /\ live = z - w
  BY Zenon DEF Gauges
<1>8. cached' = x' - y' /\ live' = z' - w'
  <2> HIDE DEF x, y, z, w
  <2> QED BY <1>1, <1>3, <1>4, <1>5, <1>6, <1>7
<1> QED BY <1>8, Zenon DEF Gauges

\* The steps that touch no record and no gauge, and move t neither into nor out
\* of the two sets of threads.
LEMMA GaugesQuiet ==
  ASSUME Gauges, NEW t \in Threads, Moves(t), UNCHANGED <<records, cached, live>>,
         cached \in Int, live \in Int,
         t \in Uncached <=> t \in Uncached', t \in Unnoted <=> t \in Unnoted'
  PROVE  Gauges'
<1>1. NoAddr \notin CachedBlocks /\ NoAddr \notin CachedBlocks'
  BY DomainAssumption, Zenon DEF CachedBlocks
<1>2. NoAddr \notin ActiveBlocks /\ NoAddr \notin ActiveBlocks'
  BY DomainAssumption, Zenon DEF ActiveBlocks
<1>3. /\ 0 = Count(NoAddr \in CachedBlocks') - Count(NoAddr \in CachedBlocks)
      /\ 0 = Count(NoAddr \in ActiveBlocks') - Count(NoAddr \in ActiveBlocks)
  BY <1>1, <1>2 DEF Count
<1>4. /\ 0 = Count(t \in Uncached') - Count(t \in Uncached)
      /\ 0 = Count(t \in Unnoted') - Count(t \in Unnoted)
  BY DEF Count
<1>5. cached' = cached + 0 - 0 /\ live' = live + 0 - 0
  OBVIOUS
<1> QED BY <1>3, <1>4, <1>5, GaugesStep

\* Where a thread is in neither set.
LEMMA Settled ==
  ASSUME NEW t \in Threads, frame[t].index = 0, frame[t].pc \notin {"keep", "note"}
  PROVE  t \notin Uncached /\ t \notin Unnoted
  BY DEF Uncached, Unnoted, At

LEMMA CallGauges ==
  ASSUME HInv, Gauges, NEW t \in Threads, Call(t)
  PROVE  Gauges'
<1>1. /\ frame[t].pc = "idle" /\ Moves(t) /\ frame'[t].pc \in {"hit", "refill", "lookup", "flush"}
      /\ frame'[t].index = 0 /\ UNCHANGED <<records, cached, live>>
  <2>1. CASE \E r \in Requests : CallAllocate(t, r)
    BY <2>1, CallAllocateEffect, Zenon DEF HInv, Enters
  <2>2. CASE \E p \in Addr, s \in Requests \cup {Unsized} : CallDeallocate(t, p, s)
    BY <2>2, CallDeallocateEffect, Zenon DEF HInv, Enters
  <2>3. CASE CallRelease(t) \/ ExitThread(t)
    BY <2>3, FlushCallEffect, Zenon DEF HInv, Enters
  <2> QED BY <2>1, <2>2, <2>3, Zenon DEF Call
<1>2. frame[t].index = 0 /\ cached \in Int /\ live \in Int
  BY <1>1, LocalFacts, Zenon DEF CallOK, Refilling, At, HInv, IInv, TypeOK
<1>3. t \notin Uncached /\ t \notin Unnoted
  BY <1>1, <1>2, Settled, Zenon
<1>4. t \notin Uncached' /\ t \notin Unnoted'
  BY <1>1 DEF Uncached, Unnoted, At
<1> QED BY <1>1, <1>2, <1>3, <1>4, GaugesQuiet, Zenon

LEMMA RefillQuietGauges ==
  ASSUME HInv, Gauges, NEW t \in Threads,
         \/ CentralAllocate(t) \/ CentralAllocateFails(t)
         \/ RecordAllocationFails(t) \/ UndoAllocation(t)
  PROVE  Gauges'
<1>1. /\ frame[t].pc \in {"refill", "record", "undo"} /\ Moves(t)
      /\ UNCHANGED <<records, cached, live>>
      /\ \/ frame'[t].pc \in {"record", "undo"} /\ frame'[t].index = frame[t].index
         \/ frame[t].index = 0 /\ frame'[t].pc = "idle" /\ frame'[t].index = 0
         \/ frame[t].index > 0 /\ frame'[t].pc = "note" /\ frame'[t].index = frame[t].index
  <2>1. CASE CentralAllocate(t)
    BY <2>1, CentralAllocateEffect, Zenon DEF HInv, Advances
  <2>2. CASE CentralAllocateFails(t)
    BY <2>2, CentralAllocateFailsEffect, Zenon DEF HInv, Advances, Ends
  <2>3. CASE RecordAllocationFails(t)
    BY <2>3, RecordAllocationFailsEffect, Zenon DEF HInv, Advances
  <2>4. CASE UndoAllocation(t)
    BY <2>4, UndoAllocationEffect, Zenon DEF HInv, Advances, Ends
  <2> QED BY <2>1, <2>2, <2>3, <2>4, Zenon
<1>2. cached \in Int /\ live \in Int /\ frame[t].index \in Nat
  BY LocalFacts, Zenon DEF HInv, IInv, TypeOK
<1>3. t \notin Uncached /\ t \notin Uncached'
  BY <1>1, Zenon DEF Uncached, At
<1>4. t \in Unnoted <=> t \in Unnoted'
  BY <1>1, <1>2, Zenon DEF Unnoted, At
<1> QED BY <1>1, <1>2, <1>3, <1>4, GaugesQuiet, Zenon

LEMMA FreeQuietGauges ==
  ASSUME HInv, Gauges, NEW t \in Threads,
         \/ DeallocateRejected(t) \/ DeallocateToCentral(t) \/ CentralDeallocate(t)
         \/ PushLocal(t) \/ FlushLock(t) \/ FlushCentral(t) \/ FlushBinDone(t)
  PROVE  Gauges'
<1>1. /\ frame[t].pc \in {"lookup", "free_central", "push", "flush", "flush_central"}
      /\ Moves(t) /\ UNCHANGED <<records, cached, live>>
      /\ frame'[t].index \in {0, frame[t].index}
      /\ frame'[t].pc \notin {"keep", "note"}
  <2>1. CASE DeallocateRejected(t)
    BY <2>1, DeallocateRejectedEffect, Zenon DEF HInv, Ends
  <2>2. CASE DeallocateToCentral(t)
    BY <2>2, DeallocateToCentralEffect, Zenon DEF HInv, Advances
  <2>3. CASE CentralDeallocate(t)
    BY <2>3, CentralDeallocateEffect, Zenon DEF HInv, Advances
  <2>4. CASE PushLocal(t)
    BY <2>4, PushLocalEffect, Zenon DEF HInv, Advances, Ends
  <2>5. CASE FlushLock(t)
    BY <2>5, FlushLockEffect, Zenon DEF HInv, Advances
  <2>6. CASE FlushCentral(t)
    BY <2>6, FlushCentralEffect, Zenon DEF HInv, Advances
  <2>7. CASE FlushBinDone(t)
    BY <2>7, FlushBinDoneEffect, Zenon DEF HInv, Advances
  <2> QED BY <2>1, <2>2, <2>3, <2>4, <2>5, <2>6, <2>7, Zenon
<1>2. frame[t].index = 0 /\ cached \in Int /\ live \in Int
  BY <1>1, LocalFacts, Zenon DEF CallOK, Refilling, At, HInv, IInv, TypeOK
<1>3. t \notin Uncached /\ t \notin Unnoted
  BY <1>1, <1>2, Settled, Zenon
<1>4. t \notin Uncached' /\ t \notin Unnoted'
  BY <1>1, <1>2 DEF Uncached, Unnoted, At
<1> QED BY <1>1, <1>2, <1>3, <1>4, GaugesQuiet, Zenon

\* A block is in at most one of the two sets of blocks.
LEMMA BlockSets ==
  ASSUME NEW p \in Addr
  PROVE  /\ p \in CachedBlocks <=> IsCached(p)
         /\ p \in ActiveBlocks <=> IsActive(p)
         /\ ~ (IsActive(p) /\ IsCached(p))
  BY Zenon DEF CachedBlocks, ActiveBlocks, IsActive, IsCached

LEMMA RecordAllocationGauges ==
  ASSUME HInv, Gauges, NEW t \in Threads, RecordAllocation(t)
  PROVE  Gauges'
<1>1. PICK q \in Addr : q = frame[t].ptr
  BY RecordAllocationEffect, Zenon DEF HInv
<1>2. /\ frame[t].pc = "record" /\ Moves(t) /\ records[q] = NoRecord
      /\ frame'[t].pc = "keep" /\ frame'[t].index = frame[t].index
      /\ records \in [Addr -> Record \cup {NoRecord}] /\ frame[t].index \in Nat
      /\ cached \in Int /\ live \in Int /\ frame[t].arg \in Requests
      /\ UNCHANGED <<cached, live>>
  BY <1>1, RecordAllocationEffect, LocalFacts, Zenon DEF HInv, Advances, IInv, TypeOK
<1>3. records' = [records EXCEPT ![q] =
          [kind |-> Kind(frame[t].arg), owner |-> t,
           state |-> IF frame[t].index = 0 THEN "active" ELSE "cached"]]
  BY <1>1, RecordAllocationEffect, Zenon DEF HInv
<1>4. q \notin CachedBlocks /\ q \notin ActiveBlocks
  BY <1>2, BlockSets, Zenon DEF IsActive, IsCached
<1>5. [kind |-> Kind(frame[t].arg), owner |-> t,
       state |-> IF frame[t].index = 0 THEN "active" ELSE "cached"] \in Record
  BY <1>2, KindType, Zenon DEF Record
<1>6. /\ \A p \in Addr : p # q => records'[p] = records[p]
      /\ records'[q] # NoRecord
      /\ records'[q].state = IF frame[t].index = 0 THEN "active" ELSE "cached"
  BY <1>2, <1>3, <1>5, RecordAssumption, Zenon
<1>7. t \notin Uncached /\ (t \in Unnoted <=> frame[t].index > 0)
  BY <1>2, Zenon DEF Uncached, Unnoted, At
<1>8. (t \in Uncached' <=> frame[t].index > 0) /\ t \in Unnoted'
  BY <1>2, Zenon DEF Uncached, Unnoted, At
<1>9. CASE frame[t].index = 0
  <2>1. q \notin CachedBlocks' /\ q \in ActiveBlocks'
    BY <1>6, <1>9, Zenon DEF CachedBlocks, ActiveBlocks, IsCached, IsActive
  <2>2. /\ 0 = Count(q \in CachedBlocks') - Count(q \in CachedBlocks)
        /\ 0 = Count(t \in Uncached') - Count(t \in Uncached)
        /\ 1 = Count(q \in ActiveBlocks') - Count(q \in ActiveBlocks)
        /\ 1 = Count(t \in Unnoted') - Count(t \in Unnoted)
    BY <1>4, <1>7, <1>8, <1>9, <2>1 DEF Count
  <2>3. cached' = cached + 0 - 0 /\ live' = live + 1 - 1
    BY <1>2
  <2> QED BY <1>2, <1>6, <2>2, <2>3, GaugesStep
<1>10. CASE frame[t].index > 0
  <2>1. q \in CachedBlocks' /\ q \notin ActiveBlocks'
    BY <1>6, <1>10 DEF CachedBlocks, ActiveBlocks, IsCached, IsActive
  <2>2. /\ 1 = Count(q \in CachedBlocks') - Count(q \in CachedBlocks)
        /\ 1 = Count(t \in Uncached') - Count(t \in Uncached)
        /\ 0 = Count(q \in ActiveBlocks') - Count(q \in ActiveBlocks)
        /\ 0 = Count(t \in Unnoted') - Count(t \in Unnoted)
    BY <1>4, <1>7, <1>8, <1>10, <2>1 DEF Count
  <2>3. cached' = cached + 1 - 1 /\ live' = live + 0 - 0
    BY <1>2
  <2> QED BY <1>2, <1>6, <2>2, <2>3, GaugesStep
<1> QED BY <1>2, <1>9, <1>10

LEMMA KeepBlockGauges ==
  ASSUME HInv, Gauges, NEW t \in Threads, KeepBlock(t)
  PROVE  Gauges'
<1>1. /\ frame[t].pc = "keep" /\ Moves(t) /\ UNCHANGED <<records, live>>
      /\ frame[t].index \in Nat /\ frame'[t].index = frame[t].index + 1
      /\ frame'[t].pc \in {"refill", "note"} /\ cached \in Int /\ live \in Int
      /\ \/ frame[t].index = 0 /\ cached' = cached
         \/ frame[t].index > 0 /\ cached' = cached + 1
  BY KeepBlockEffect, Zenon DEF HInv, IInv, TypeOK
<1>2. (t \in Uncached <=> frame[t].index > 0) /\ t \in Unnoted
  BY <1>1, Zenon DEF Uncached, Unnoted, At
<1>3. t \notin Uncached' /\ t \in Unnoted'
  BY <1>1 DEF Uncached, Unnoted, At
<1>4. CASE frame[t].index = 0
  BY <1>1, <1>2, <1>3, <1>4, GaugesQuiet
<1>5. CASE frame[t].index > 0
  <2>1. NoAddr \notin CachedBlocks /\ NoAddr \notin CachedBlocks'
    BY DomainAssumption, Zenon DEF CachedBlocks
  <2>2. NoAddr \notin ActiveBlocks /\ NoAddr \notin ActiveBlocks'
    BY DomainAssumption, Zenon DEF ActiveBlocks
  <2>3. /\ 0 = Count(NoAddr \in CachedBlocks') - Count(NoAddr \in CachedBlocks)
        /\ -1 = Count(t \in Uncached') - Count(t \in Uncached)
        /\ 0 = Count(NoAddr \in ActiveBlocks') - Count(NoAddr \in ActiveBlocks)
        /\ 0 = Count(t \in Unnoted') - Count(t \in Unnoted)
    BY <1>2, <1>3, <1>5, <2>1, <2>2 DEF Count
  <2>4. cached' = cached + 0 - (-1) /\ live' = live + 0 - 0
    BY <1>1, <1>5
  <2> QED BY <1>1, <2>3, <2>4, GaugesStep
<1> QED BY <1>1, <1>4, <1>5, Zenon

LEMMA NoteLiveAllocationGauges ==
  ASSUME HInv, Gauges, NEW t \in Threads, NoteLiveAllocation(t)
  PROVE  Gauges'
<1>1. /\ frame[t].pc = "note" /\ Moves(t) /\ UNCHANGED <<records, cached>>
      /\ frame'[t].index = 0 /\ frame'[t].pc = "idle"
      /\ cached \in Int /\ live \in Int /\ live' = live + 1
  BY NoteLiveAllocationEffect, Zenon DEF HInv, Ends, IInv, TypeOK
<1>2. t \notin Uncached /\ t \in Unnoted /\ t \notin Uncached' /\ t \notin Unnoted'
  BY <1>1 DEF Uncached, Unnoted, At
<1>3. NoAddr \notin CachedBlocks /\ NoAddr \notin CachedBlocks'
  BY DomainAssumption, Zenon DEF CachedBlocks
<1>4. NoAddr \notin ActiveBlocks /\ NoAddr \notin ActiveBlocks'
  BY DomainAssumption, Zenon DEF ActiveBlocks
<1>5. /\ 0 = Count(NoAddr \in CachedBlocks') - Count(NoAddr \in CachedBlocks)
      /\ 0 = Count(t \in Uncached') - Count(t \in Uncached)
      /\ 0 = Count(NoAddr \in ActiveBlocks') - Count(NoAddr \in ActiveBlocks)
      /\ -1 = Count(t \in Unnoted') - Count(t \in Unnoted)
  BY <1>2, <1>3, <1>4 DEF Count
<1>6. cached' = cached + 0 - 0 /\ live' = live + 0 - (-1)
  BY <1>1
<1> QED BY <1>1, <1>5, <1>6, GaugesStep

\* A record changes, and its thread is in neither set before and after.
LEMMA RecordGauges ==
  ASSUME HInv, Gauges, NEW t \in Threads, Moves(t), NEW q \in Addr,
         frame[t].pc \in {"hit", "lookup", "free_erase", "flush_erase"},
         frame'[t].pc \notin {"keep", "note"}, frame'[t].index \in {0, frame[t].index},
         \A p \in Addr : p # q => records'[p] = records[p],
         NEW a \in Int, NEW c \in Int,
         a = Count(q \in CachedBlocks') - Count(q \in CachedBlocks),
         c = Count(q \in ActiveBlocks') - Count(q \in ActiveBlocks),
         cached' = cached + a, live' = live + c
  PROVE  Gauges'
<1>1. frame[t].index = 0 /\ cached \in Int /\ live \in Int
  BY LocalFacts, Zenon DEF CallOK, Refilling, At, HInv, IInv, TypeOK
<1>2. t \notin Uncached /\ t \notin Unnoted
  BY <1>1, Settled, Zenon
<1>3. t \notin Uncached' /\ t \notin Unnoted'
  BY <1>1 DEF Uncached, Unnoted, At
<1>4. /\ 0 = Count(t \in Uncached') - Count(t \in Uncached)
      /\ 0 = Count(t \in Unnoted') - Count(t \in Unnoted)
  BY <1>2, <1>3 DEF Count
<1>5. cached' = cached + a - 0 /\ live' = live + c - 0
  BY <1>1
<1> QED BY <1>4, <1>5, GaugesStep

LEMMA CacheHitGauges ==
  ASSUME HInv, Gauges, NEW t \in Threads, CacheHit(t)
  PROVE  Gauges'
<1>1. PICK q \in Addr : q = frame[t].ptr
  BY CacheHitEffect, Zenon DEF HInv
<1> DEFINE x == [kind |-> SizeClass[frame[t].arg], owner |-> t, state |-> "active"]
<1>2. /\ Moves(t) /\ IsCached(q) /\ cached' = cached + (-1) /\ live' = live + 1
      /\ frame[t].pc = "hit" /\ frame'[t].pc = "idle" /\ frame'[t].index = 0
      /\ records' = [records EXCEPT ![q] = x] /\ SizeClass[frame[t].arg] \in Classes
      /\ records \in [Addr -> Record \cup {NoRecord}]
  BY <1>1, CacheHitEffect, Zenon DEF HInv, Ends, IInv, TypeOK
<1>3. x \in Record /\ x.state = "active"
  BY <1>2, Zenon DEF Record, Kinds
<1>4. records'[q] = x /\ \A p \in Addr : p # q => records'[p] = records[p]
  BY <1>2, Zenon
<1>5. /\ q \in CachedBlocks /\ q \notin ActiveBlocks
      /\ q \notin CachedBlocks' /\ q \in ActiveBlocks'
  BY <1>2, <1>3, <1>4, RecordAssumption, Zenon DEF IsActive, IsCached, CachedBlocks, ActiveBlocks
<1>6. /\ -1 = Count(q \in CachedBlocks') - Count(q \in CachedBlocks)
      /\ 1 = Count(q \in ActiveBlocks') - Count(q \in ActiveBlocks)
  BY <1>2, <1>5 DEF Count
<1> QED BY <1>2, <1>4, <1>6, RecordGauges

LEMMA EraseRecordGauges ==
  ASSUME HInv, Gauges, NEW t \in Threads, EraseRecord(t)
  PROVE  Gauges'
<1>1. PICK q \in Addr : q = frame[t].ptr
  BY EraseRecordEffect, Zenon DEF HInv
<1>2. /\ Moves(t) /\ IsActive(q) /\ cached' = cached + 0 /\ live' = live + (-1)
      /\ frame[t].pc = "free_erase" /\ frame'[t].pc = "idle" /\ frame'[t].index = 0
      /\ records' = [records EXCEPT ![q] = NoRecord]
      /\ records \in [Addr -> Record \cup {NoRecord}]
  BY <1>1, EraseRecordEffect DEF HInv, Ends, IInv, TypeOK
<1>3. records'[q] = NoRecord /\ \A p \in Addr : p # q => records'[p] = records[p]
  BY <1>2, Zenon
<1>4. /\ q \notin CachedBlocks /\ q \in ActiveBlocks
      /\ q \notin CachedBlocks' /\ q \notin ActiveBlocks'
  BY <1>2, <1>3, Zenon DEF IsActive, IsCached, CachedBlocks, ActiveBlocks
<1>5. /\ 0 = Count(q \in CachedBlocks') - Count(q \in CachedBlocks)
      /\ -1 = Count(q \in ActiveBlocks') - Count(q \in ActiveBlocks)
  BY <1>2, <1>4 DEF Count
<1> QED BY <1>2, <1>3, <1>5, RecordGauges

LEMMA DeallocateLocalGauges ==
  ASSUME HInv, Gauges, NEW t \in Threads, DeallocateLocal(t)
  PROVE  Gauges'
<1>1. PICK d \in Classes :
           /\ frame[t].pc = "lookup" /\ frame[t].ptr \in Addr /\ IsActive(frame[t].ptr)
           /\ records' = [records EXCEPT ![frame[t].ptr] = CachedRecord(t, d)]
           /\ live' = live - 1 /\ cached' = cached + 1
           /\ Advances(t, "push", frame[t].ptr, {d})
  BY DeallocateLocalEffect, Zenon DEF HInv
<1>2. PICK q \in Addr : q = frame[t].ptr
  BY <1>1, Zenon
<1>3. /\ Moves(t) /\ IsActive(q) /\ cached' = cached + 1 /\ live' = live + (-1)
      /\ frame[t].pc = "lookup" /\ frame'[t].pc = "push" /\ frame'[t].index = frame[t].index
      /\ records' = [records EXCEPT ![q] = CachedRecord(t, d)]
      /\ records \in [Addr -> Record \cup {NoRecord}]
  BY <1>1, <1>2, Zenon DEF HInv, Advances, IInv, TypeOK
<1>4. CachedRecord(t, d) \in Record /\ CachedRecord(t, d).state = "cached"
  BY Zenon DEF CachedRecord, Record, Kinds
<1>5. records'[q] = CachedRecord(t, d) /\ \A p \in Addr : p # q => records'[p] = records[p]
  BY <1>3, Zenon
<1>6. /\ q \notin CachedBlocks /\ q \in ActiveBlocks
      /\ q \in CachedBlocks' /\ q \notin ActiveBlocks'
  BY <1>3, <1>4, <1>5, RecordAssumption, Zenon DEF IsActive, IsCached, CachedBlocks, ActiveBlocks
<1>7. /\ 1 = Count(q \in CachedBlocks') - Count(q \in CachedBlocks)
      /\ -1 = Count(q \in ActiveBlocks') - Count(q \in ActiveBlocks)
  BY <1>3, <1>6 DEF Count
<1> QED BY <1>3, <1>5, <1>7, RecordGauges

LEMMA FlushEraseGauges ==
  ASSUME HInv, Gauges, NEW t \in Threads, FlushErase(t)
  PROVE  Gauges'
<1>1. PICK d \in Classes :
           /\ frame[t].pc = "flush_erase" /\ frame[t].ptr \in Addr
           /\ records[frame[t].ptr] = CachedRecord(t, d)
           /\ records' = [records EXCEPT ![frame[t].ptr] = NoRecord]
           /\ Advances(t, "flush", NoAddr, frame[t].flushing)
           /\ cached' = cached - 1 /\ UNCHANGED live
  BY FlushEraseEffect, Zenon DEF HInv
<1>2. PICK q \in Addr : q = frame[t].ptr
  BY <1>1, Zenon
<1>3. /\ Moves(t) /\ IsCached(q) /\ cached' = cached + (-1) /\ live' = live + 0
      /\ frame'[t].pc = "flush" /\ frame'[t].index = frame[t].index
      /\ records' = [records EXCEPT ![q] = NoRecord]
      /\ records \in [Addr -> Record \cup {NoRecord}]
  BY <1>1, <1>2, CachedRecordIsCached DEF HInv, Advances, IInv, TypeOK
<1>4. records'[q] = NoRecord /\ \A p \in Addr : p # q => records'[p] = records[p]
  BY <1>3, Zenon
<1>5. /\ q \in CachedBlocks /\ q \notin ActiveBlocks
      /\ q \notin CachedBlocks' /\ q \notin ActiveBlocks'
  BY <1>3, <1>4, Zenon DEF IsActive, IsCached, CachedBlocks, ActiveBlocks
<1>6. /\ -1 = Count(q \in CachedBlocks') - Count(q \in CachedBlocks)
      /\ 0 = Count(q \in ActiveBlocks') - Count(q \in ActiveBlocks)
  BY <1>5 DEF Count
<1> QED BY <1>1, <1>3, <1>4, <1>6, RecordGauges

LEMMA InitGauges == Init => Gauges
<1> SUFFICES ASSUME Init PROVE Gauges
  BY Zenon
<1>1. CachedBlocks = {} /\ ActiveBlocks = {}
  BY Zenon DEF Init, CachedBlocks, ActiveBlocks, IsCached, IsActive
<1>2. Uncached = {} /\ Unnoted = {}
  BY DEF Init, Uncached, Unnoted, At, IdleFrame
<1>3. /\ Cardinality(CachedBlocks) = 0 /\ Cardinality(ActiveBlocks) = 0
      /\ Cardinality(Uncached) = 0 /\ Cardinality(Unnoted) = 0
  BY <1>1, <1>2, SmallSets, Zenon
<1> QED BY <1>3 DEF Gauges, Init

LEMMA NextGauges == HInv /\ Gauges /\ [Next]_vars => Gauges'
<1> SUFFICES ASSUME HInv, Gauges, [Next]_vars PROVE Gauges'
  BY Zenon
<1>1. ASSUME NEW t \in Threads, Step(t) PROVE Gauges'
  BY <1>1, CacheHitGauges, NoteLiveAllocationGauges, RefillQuietGauges, FreeQuietGauges,
     RecordAllocationGauges, KeepBlockGauges, EraseRecordGauges, DeallocateLocalGauges,
     FlushEraseGauges, Zenon DEF Step, Proceed
<1>2. CASE UNCHANGED vars
  BY <1>2, Zenon DEF vars, Gauges, CachedBlocks, ActiveBlocks, Uncached, Unnoted, IsCached, IsActive, At
<1> QED BY <1>1, <1>2, CallGauges, Zenon DEF Next

\* Each thread that has recorded an inactive block and not counted it holds a
\* block of its own: cached_blocks does not wrap below zero.
LEMMA UncachedBound ==
  ASSUME HInv
  PROVE  /\ Cardinality(Uncached) \in Nat /\ Cardinality(CachedBlocks) \in Nat
         /\ Cardinality(Uncached) <= Cardinality(CachedBlocks)
<1> DEFINE hand == [t \in Uncached |-> frame[t].ptr]
<1>1. /\ IsFiniteSet(CachedBlocks) /\ Cardinality(CachedBlocks) \in Nat
      /\ Cardinality(Uncached) \in Nat
  <2>1. CachedBlocks \in SUBSET Addr /\ Uncached \in SUBSET Threads
    BY Zenon DEF CachedBlocks, Uncached
  <2> QED BY <2>1, FiniteAssumption, FiniteSubset, Zenon
<1>2. ASSUME NEW t \in Uncached
      PROVE  /\ t \in Threads /\ frame[t].ptr \in Addr /\ IsCached(frame[t].ptr)
             /\ records[frame[t].ptr].owner = t
  <2>1. t \in Threads /\ frame[t].pc = "keep" /\ frame[t].index > 0
    BY Zenon DEF Uncached, At
  <2>2. frame[t].ptr \in Addr /\ frame[t].arg \in Requests /\ SizeClass[frame[t].arg] \in Classes
    BY <2>1, Zenon DEF HInv, IInv, CacheInvariant, FrameOK, At
  <2>3. PICK c \in Classes : HoldsCached(t, c)
    BY <2>1, <2>2, Zenon DEF HoldsCached, At
  <2>4. records[frame[t].ptr] = CachedRecord(t, c)
    BY <2>1, <2>3, Zenon DEF HInv, IInv, CacheInvariant, HandOK
  <2> QED BY <2>1, <2>2, <2>4, CachedRecordIsCached DEF CachedRecord
<1>3. hand \in [Uncached -> CachedBlocks]
  BY <1>2, Zenon DEF CachedBlocks
<1>4. \A t, u \in Uncached : hand[t] = hand[u] => t = u
  BY <1>2, Zenon
<1>5. Cardinality(Uncached) <= Cardinality(CachedBlocks)
  <2> HIDE DEF hand
  <2> QED BY <1>1, <1>3, <1>4, InjectionBound, Zenon
<1> QED BY <1>1, <1>5, Zenon

LEMMA ExactGauges == HInv /\ Gauges => GaugesExact
<1> SUFFICES ASSUME HInv, Gauges PROVE GaugesExact
  BY Zenon
<1>1. cached = Cardinality(CachedBlocks) - Cardinality(Uncached)
  BY Zenon DEF Gauges
<1>2. cached >= 0
  BY <1>1, UncachedBound
<1> QED BY <1>2, Zenon DEF Gauges, GaugesExact, CachedBlocks, ActiveBlocks, Uncached, Unnoted

------------------------------------------------------------------------------
(* The refinement: what a step does to the call in progress.               *)

LEMMA PendingAllocate ==
  ASSUME NEW f, f.op = "allocate", f.index = 0, f.pc \in {"hit", "refill", "record", "undo"}
  PROVE  PendingCall(f) = [op |-> "allocate", arg |-> Kind(f.arg), ptr |-> NoAddr]
  BY Zenon DEF PendingCall

LEMMA PendingDeallocate ==
  ASSUME NEW f, f.op = "deallocate", f.pc \in {"lookup", "free_central", "free_erase"}
  PROVE  PendingCall(f) = [op |-> "deallocate", ptr |-> f.ptr,
                           arg |-> IF f.arg = Unsized THEN Unsized ELSE Kind(f.arg)]
  BY Zenon DEF PendingCall

LEMMA PendingNone ==
  ASSUME NEW f, f.pc \notin {"lookup", "free_central", "free_erase"},
         f.op # "allocate" \/ f.index # 0 \/ f.pc = "keep"
  PROVE  PendingCall(f) = Abstract!NoCall
  BY Zenon DEF PendingCall, Abstract!NoCall

LEMMA PendingStays ==
  ASSUME NEW t \in Threads, Moves(t), PendingCall(frame'[t]) = PendingCall(frame[t]),
         LiveKind' = LiveKind
  PROVE  UNCHANGED Abstract!vars
<1>1. \A u \in Threads : PendingCall(frame'[u]) = PendingCall(frame[u])
  BY Zenon DEF Moves
<1>2. [u \in Threads |-> PendingCall(frame[u])]' = [u \in Threads |-> PendingCall(frame[u])]
  BY <1>1, Zenon
<1> QED BY <1>2, Zenon DEF Abstract!vars

LEMMA PendingEnds ==
  ASSUME NEW t \in Threads, Moves(t), PendingCall(frame'[t]) = Abstract!NoCall
  PROVE  Abstract!End(t)
<1>1. \A u \in Threads : u # t => PendingCall(frame'[u]) = PendingCall(frame[u])
  BY Zenon DEF Moves
<1> QED BY <1>1, Zenon DEF Abstract!End

LEMMA PendingBegins ==
  ASSUME NEW t \in Threads, Moves(t), PendingCall(frame[t]) = Abstract!NoCall, NEW S,
         PendingCall(frame'[t]) \in S, LiveKind' = LiveKind
  PROVE  Abstract!Begin(t, S)
<1>1. \A u \in Threads : u # t => PendingCall(frame'[u]) = PendingCall(frame[u])
  BY Zenon DEF Moves
<1> DEFINE P == [u \in Threads |-> PendingCall(frame[u])]
<1>2. P[t] = Abstract!NoCall /\ P'[t] \in S
  BY Zenon
<1>3. P' = [P EXCEPT ![t] = P'[t]]
  BY <1>1, Zenon
<1> QED BY <1>2, <1>3, Zenon DEF Abstract!Begin

\* The records decide what is allocated: only the active ones count.
LEMMA LiveStays ==
  ASSUME NEW q, ~ IsActive(q), ~ IsActive(q)',
         \A p \in Addr : p # q => records'[p] = records[p]
  PROVE  LiveKind' = LiveKind
  BY Zenon DEF LiveKind, IsActive

LEMMA LiveSame ==
  ASSUME UNCHANGED records
  PROVE  LiveKind' = LiveKind
  BY Zenon DEF LiveKind, IsActive

LEMMA LiveTaken ==
  ASSUME NEW q \in Addr, ~ IsActive(q), IsActive(q)', NEW k, records'[q].kind = k,
         \A p \in Addr : p # q => records'[p] = records[p]
  PROVE  LiveKind[q] = Free /\ LiveKind' = [LiveKind EXCEPT ![q] = k]
  BY Zenon DEF LiveKind, IsActive

LEMMA LiveFreed ==
  ASSUME NEW q \in Addr, IsActive(q), ~ IsActive(q)',
         \A p \in Addr : p # q => records'[p] = records[p]
  PROVE  LiveKind[q] = records[q].kind /\ LiveKind' = [LiveKind EXCEPT ![q] = Free]
  BY Zenon DEF LiveKind, IsActive

LEMMA CallAllocateImplements ==
  ASSUME HInv, NEW t \in Threads, NEW r \in Requests, CallAllocate(t, r)
  PROVE  Abstract!BeginAllocate(t)
<1>1. /\ frame[t].pc = "idle" /\ Moves(t) /\ frame'[t].pc \in {"hit", "refill"}
      /\ frame'[t].op = "allocate" /\ frame'[t].arg = r /\ frame'[t].index = 0
      /\ UNCHANGED records
  BY CallAllocateEffect, Zenon DEF HInv, Enters
<1>2. PendingCall(frame[t]) = Abstract!NoCall
  BY <1>1, LocalFacts, PendingNone, Zenon DEF CallOK, Refilling, At
<1>3. PendingCall(frame'[t]) = [op |-> "allocate", arg |-> Kind(r), ptr |-> NoAddr]
  BY <1>1, PendingAllocate, Zenon
<1>4. PendingCall(frame'[t]) \in [op : {"allocate"}, arg : Kinds, ptr : {NoAddr}]
  BY <1>3, KindType
<1> QED BY <1>1, <1>2, <1>4, LiveSame, PendingBegins, Zenon DEF Abstract!BeginAllocate

LEMMA CallDeallocateImplements ==
  ASSUME HInv, NEW t \in Threads, NEW p \in Addr,
         NEW s \in Requests \cup {Unsized}, CallDeallocate(t, p, s)
  PROVE  Abstract!BeginDeallocate(t)
<1>1. /\ frame[t].pc = "idle" /\ Moves(t) /\ frame'[t].pc = "lookup"
      /\ frame'[t].op = "deallocate" /\ frame'[t].arg = s /\ frame'[t].ptr = p
      /\ UNCHANGED records
  BY CallDeallocateEffect DEF HInv, Enters
<1>2. PendingCall(frame[t]) = Abstract!NoCall
  BY <1>1, LocalFacts, PendingNone, Zenon DEF CallOK, Refilling, At
<1>3. PendingCall(frame'[t]) = [op |-> "deallocate", ptr |-> p,
                                arg |-> IF s = Unsized THEN Unsized ELSE Kind(s)]
  BY <1>1, PendingDeallocate, Zenon
<1>4. PendingCall(frame'[t]) \in [op : {"deallocate"}, arg : Kinds \cup {Unsized}, ptr : Addr]
  BY <1>3, KindType
<1> QED BY <1>1, <1>2, <1>4, LiveSame, PendingBegins, Zenon DEF Abstract!BeginDeallocate

\* release_current_thread_cache and thread exit are not calls of the allocator.
LEMMA FlushCallImplements ==
  ASSUME HInv, NEW t \in Threads, CallRelease(t) \/ ExitThread(t)
  PROVE  UNCHANGED Abstract!vars
<1>1. /\ frame[t].pc = "idle" /\ Moves(t) /\ frame'[t].pc = "flush"
      /\ frame'[t].op # "allocate" /\ UNCHANGED records
  BY FlushCallEffect, Zenon DEF HInv, Enters
<1>2. PendingCall(frame[t]) = Abstract!NoCall /\ PendingCall(frame'[t]) = Abstract!NoCall
  BY <1>1, LocalFacts, PendingNone, Zenon DEF CallOK, Refilling, At
<1> QED BY <1>1, <1>2, LiveSame, PendingStays, Zenon

\* A failure of the first block of a refill is the failure of the call.
LEMMA FailureImplements ==
  ASSUME HInv, NEW t \in Threads, CentralAllocateFails(t) \/ UndoAllocation(t)
  PROVE  Abstract!AllocateFails(t) \/ UNCHANGED Abstract!vars
<1>1. /\ frame[t].pc \in {"refill", "undo"} /\ UNCHANGED records
      /\ \/ frame[t].index = 0 /\ Ends(t, "idle")
         \/ frame[t].index > 0 /\ Advances(t, "note", NoAddr, frame[t].flushing)
  BY CentralAllocateFailsEffect, UndoAllocationEffect, Zenon DEF HInv
<1>2. frame[t].op = "allocate"
  BY <1>1, LocalFacts, Zenon DEF CallOK, Refilling
<1>3. CASE frame[t].index = 0 /\ Ends(t, "idle")
  <2>1. PendingCall(frame[t]) = [op |-> "allocate", arg |-> Kind(frame[t].arg), ptr |-> NoAddr]
    BY <1>1, <1>2, <1>3, PendingAllocate, Zenon
  <2>2. Abstract!End(t)
    BY <1>3, PendingEnds, PendingNone, Zenon DEF Ends
  <2> QED BY <1>1, <2>1, <2>2, LiveSame DEF Abstract!AllocateFails
<1>4. CASE frame[t].index > 0 /\ Advances(t, "note", NoAddr, frame[t].flushing)
  <2>1. PendingCall(frame[t]) = Abstract!NoCall
    BY <1>1, <1>4, PendingNone
  <2>2. PendingCall(frame'[t]) = Abstract!NoCall /\ Moves(t)
    BY <1>4, PendingNone DEF Advances
  <2> QED BY <1>1, <2>1, <2>2, LiveSame, PendingStays, Zenon
<1> QED BY <1>1, <1>3, <1>4, Zenon

\* The steps within a call before or after it takes effect.
LEMMA RefillStutters ==
  ASSUME HInv, NEW t \in Threads, CentralAllocate(t) \/ RecordAllocationFails(t)
  PROVE  UNCHANGED Abstract!vars
<1>1. /\ frame[t].pc \in {"refill", "record"} /\ frame'[t].pc \in {"record", "undo"} /\ Moves(t)
      /\ frame'[t].op = frame[t].op /\ frame'[t].arg = frame[t].arg
      /\ frame'[t].index = frame[t].index /\ UNCHANGED records
  BY CentralAllocateEffect, RecordAllocationFailsEffect, Zenon DEF HInv, Advances
<1>2. frame[t].op = "allocate"
  BY <1>1, LocalFacts, Zenon DEF CallOK, Refilling
<1>3. PendingCall(frame'[t]) = PendingCall(frame[t])
  <2>1. CASE frame[t].index = 0
    BY <1>1, <1>2, <2>1, PendingAllocate, Zenon
  <2>2. CASE frame[t].index # 0
    BY <1>1, <2>2, PendingNone
  <2> QED BY <2>1, <2>2, Zenon
<1> QED BY <1>1, <1>3, LiveSame, PendingStays, Zenon

LEMMA AfterEffectStutters ==
  ASSUME HInv, NEW t \in Threads, KeepBlock(t) \/ NoteLiveAllocation(t)
  PROVE  UNCHANGED Abstract!vars
<1>1. /\ frame[t].pc \in {"keep", "note"} /\ Moves(t) /\ UNCHANGED records
      /\ frame'[t].pc \in {"refill", "note", "idle"}
      /\ frame'[t].op # "allocate" \/ frame'[t].index # 0
  <2>1. CASE KeepBlock(t)
    <3>1. /\ frame[t].pc = "keep" /\ Moves(t) /\ UNCHANGED records
          /\ frame'[t].pc \in {"refill", "note"}
          /\ frame[t].index \in Nat /\ frame'[t].index = frame[t].index + 1
      BY <2>1, KeepBlockEffect, Zenon DEF HInv
    <3> QED BY <3>1
  <2>2. CASE NoteLiveAllocation(t)
    BY <2>2, NoteLiveAllocationEffect, Zenon DEF HInv, Ends
  <2> QED BY <2>1, <2>2, Zenon
<1>2. PendingCall(frame'[t]) = Abstract!NoCall
  BY <1>1, PendingNone, Zenon
<1>3. PendingCall(frame[t]) = Abstract!NoCall
  BY <1>1, LocalFacts, PendingNone DEF CallOK, At
<1> QED BY <1>1, <1>2, <1>3, LiveSame, PendingStays, Zenon

LEMMA FreeStutters ==
  ASSUME HInv, NEW t \in Threads, DeallocateToCentral(t) \/ CentralDeallocate(t)
  PROVE  UNCHANGED Abstract!vars
<1>1. /\ frame[t].pc \in {"lookup", "free_central"} /\ Moves(t) /\ UNCHANGED records
      /\ frame'[t].pc \in {"free_central", "free_erase"} /\ frame'[t].op = frame[t].op
      /\ frame'[t].arg = frame[t].arg /\ frame'[t].ptr = frame[t].ptr
  BY DeallocateToCentralEffect, CentralDeallocateEffect, Zenon DEF HInv, Advances
<1>2. frame[t].op = "deallocate"
  BY <1>1, LocalFacts, Zenon DEF CallOK
<1>3. PendingCall(frame'[t]) = PendingCall(frame[t])
  BY <1>1, <1>2, PendingDeallocate, Zenon
<1> QED BY <1>1, <1>3, LiveSame, PendingStays, Zenon

LEMMA FlushStutters ==
  ASSUME HInv, NEW t \in Threads,
         PushLocal(t) \/ FlushLock(t) \/ FlushCentral(t) \/ FlushBinDone(t)
  PROVE  UNCHANGED Abstract!vars
<1>1. /\ frame[t].pc \in {"push", "flush", "flush_central"} /\ Moves(t) /\ UNCHANGED records
      /\ frame'[t].pc \in {"idle", "exited", "flush", "flush_central", "flush_erase"}
      /\ frame'[t].op \in {"none", frame[t].op}
  <2>1. CASE PushLocal(t)
    BY <2>1, PushLocalEffect, Zenon DEF HInv, Advances, Ends
  <2>2. CASE FlushLock(t)
    BY <2>2, FlushLockEffect, Zenon DEF HInv, Advances
  <2>3. CASE FlushCentral(t)
    BY <2>3, FlushCentralEffect, Zenon DEF HInv, Advances
  <2>4. CASE FlushBinDone(t)
    BY <2>4, FlushBinDoneEffect, Zenon DEF HInv, Advances
  <2> QED BY <2>1, <2>2, <2>3, <2>4, Zenon
<1>2. frame[t].op # "allocate"
  BY <1>1, LocalFacts, Zenon DEF CallOK, Refilling, At
<1>3. PendingCall(frame[t]) = Abstract!NoCall /\ PendingCall(frame'[t]) = Abstract!NoCall
  BY <1>1, <1>2, PendingNone
<1> QED BY <1>1, <1>3, LiveSame, PendingStays, Zenon

\* The record of a flushed block was inactive: nothing a caller sees.
LEMMA FlushEraseStutters ==
  ASSUME HInv, NEW t \in Threads, FlushErase(t)
  PROVE  UNCHANGED Abstract!vars
<1>1. PICK c \in Classes :
           /\ frame[t].pc = "flush_erase" /\ frame[t].ptr \in Addr
           /\ records[frame[t].ptr] = CachedRecord(t, c)
           /\ records' = [records EXCEPT ![frame[t].ptr] = NoRecord]
           /\ Advances(t, "flush", NoAddr, frame[t].flushing)
  BY FlushEraseEffect, Zenon DEF HInv
<1>2. PICK q \in Addr : q = frame[t].ptr
  BY <1>1, Zenon
<1>3. /\ frame'[t].pc = "flush" /\ frame'[t].op = frame[t].op /\ Moves(t)
      /\ records'[q] = NoRecord /\ \A p \in Addr : p # q => records'[p] = records[p]
  BY <1>1, <1>2, Zenon DEF Advances, HInv, IInv, TypeOK
<1>4. LiveKind' = LiveKind
  <2>1. ~ IsActive(q)
    BY <1>1, <1>2, CachedRecordIsCached, Zenon DEF IsCached, IsActive
  <2>2. ~ IsActive(q)'
    BY <1>3, Zenon DEF IsActive
  <2> QED BY <1>3, <2>1, <2>2, LiveStays, Zenon
<1>5. frame[t].op # "allocate"
  BY <1>1, LocalFacts, Zenon DEF CallOK, Refilling, At
<1>6. PendingCall(frame[t]) = Abstract!NoCall /\ PendingCall(frame'[t]) = Abstract!NoCall
  BY <1>1, <1>3, <1>5, PendingNone, Zenon
<1> QED BY <1>3, <1>4, <1>6, PendingStays, Zenon

\* An allocation takes effect with its active record: insertion of the first
\* block of a refill, or reactivation of a cached one.
LEMMA AllocateImplements ==
  ASSUME HInv, NEW t \in Threads, NEW q \in Addr, Moves(t),
         frame[t].op = "allocate", frame[t].index = 0,
         frame[t].pc \in {"hit", "refill", "record", "undo"},
         frame'[t].pc = "keep" \/ (frame'[t].pc = "idle" /\ frame'[t].op = "none"),
         ~ IsActive(q), IsActive(q)', records'[q].kind = Kind(frame[t].arg),
         \A p \in Addr : p # q => records'[p] = records[p]
  PROVE  Abstract!Allocate(t)
<1>1. PendingCall(frame[t]) = [op |-> "allocate", arg |-> Kind(frame[t].arg), ptr |-> NoAddr]
  BY PendingAllocate, Zenon
<1>2. PendingCall(frame[t]).op = "allocate" /\ PendingCall(frame[t]).arg = Kind(frame[t].arg)
  BY <1>1
<1>3. Abstract!End(t)
  BY PendingEnds, PendingNone, Zenon
<1>4. LiveKind[q] = Free /\ LiveKind' = [LiveKind EXCEPT ![q] = Kind(frame[t].arg)]
  BY LiveTaken, Zenon
<1>5. [u \in Threads |-> PendingCall(frame[u])][t] = PendingCall(frame[t])
  BY Zenon
<1> QED BY <1>2, <1>3, <1>4, <1>5, Zenon DEF Abstract!Allocate

LEMMA RecordAllocationImplements ==
  ASSUME HInv, NEW t \in Threads, RecordAllocation(t)
  PROVE  Abstract!Allocate(t) \/ UNCHANGED Abstract!vars
<1>1. PICK q \in Addr : q = frame[t].ptr
  BY RecordAllocationEffect, Zenon DEF HInv
<1> DEFINE x == [kind |-> Kind(frame[t].arg), owner |-> t,
                 state |-> IF frame[t].index = 0 THEN "active" ELSE "cached"]
<1>2. /\ frame[t].pc = "record" /\ Moves(t) /\ records[q] = NoRecord
      /\ frame'[t].pc = "keep" /\ frame'[t].index = frame[t].index
      /\ records \in [Addr -> Record \cup {NoRecord}] /\ frame[t].arg \in Requests
      /\ records' = [records EXCEPT ![q] = x]
  BY <1>1, RecordAllocationEffect, Zenon DEF HInv, Advances, IInv, TypeOK
<1>3. /\ x \in Record /\ x.kind = Kind(frame[t].arg)
      /\ x.state = IF frame[t].index = 0 THEN "active" ELSE "cached"
  BY <1>2, KindType, Zenon DEF Record
<1>4. records'[q] = x /\ \A p \in Addr : p # q => records'[p] = records[p]
  BY <1>2, Zenon
<1> HIDE DEF x
<1>5. ~ IsActive(q) /\ (frame[t].index = 0 <=> IsActive(q)')
  BY <1>2, <1>3, <1>4, RecordAssumption, Zenon DEF IsActive
<1>6. frame[t].op = "allocate"
  BY <1>2, LocalFacts, Zenon DEF CallOK, Refilling
<1>7. CASE frame[t].index = 0
  BY <1>2, <1>3, <1>4, <1>5, <1>6, <1>7, AllocateImplements
<1>8. CASE frame[t].index # 0
  <2>1. PendingCall(frame[t]) = Abstract!NoCall /\ PendingCall(frame'[t]) = Abstract!NoCall
    BY <1>2, <1>8, PendingNone, Zenon
  <2>2. LiveKind' = LiveKind
    BY <1>4, <1>5, <1>8, LiveStays, Zenon
  <2> QED BY <1>2, <2>1, <2>2, PendingStays, Zenon
<1> QED BY <1>7, <1>8, Zenon

LEMMA CacheHitImplements ==
  ASSUME HInv, NEW t \in Threads, CacheHit(t)
  PROVE  Abstract!Allocate(t)
<1>1. PICK q \in Addr : q = frame[t].ptr
  BY CacheHitEffect, Zenon DEF HInv
<1> DEFINE x == [kind |-> SizeClass[frame[t].arg], owner |-> t, state |-> "active"]
<1>2. /\ frame[t].pc = "hit" /\ Moves(t) /\ IsCached(q) /\ frame'[t].pc = "idle"
      /\ frame'[t].op = "none" /\ SizeClass[frame[t].arg] \in Classes
      /\ records \in [Addr -> Record \cup {NoRecord}]
      /\ records' = [records EXCEPT ![q] = x]
  BY <1>1, CacheHitEffect, Zenon DEF HInv, Ends, IInv, TypeOK
<1>3. x \in Record /\ x.kind = Kind(frame[t].arg) /\ x.state = "active"
  BY <1>2, Zenon DEF Record, Kinds, Kind
<1>4. records'[q] = x /\ \A p \in Addr : p # q => records'[p] = records[p]
  BY <1>2, Zenon
<1> HIDE DEF x
<1>5. ~ IsActive(q) /\ IsActive(q)'
  BY <1>2, <1>3, <1>4, RecordAssumption, Zenon DEF IsActive, IsCached
<1>6. frame[t].op = "allocate" /\ frame[t].index = 0
  BY <1>2, LocalFacts, Zenon DEF CallOK, Refilling, At
<1> QED BY <1>2, <1>3, <1>4, <1>5, <1>6, AllocateImplements

\* What deallocate compares is what the specification compares.
LEMMA ReleasableMatches ==
  ASSUME HInv, NEW t \in Threads, frame[t].pc \in {"lookup", "free_central", "free_erase"},
         frame[t].ptr \in Addr
  PROVE  /\ PendingCall(frame[t]).op = "deallocate" /\ PendingCall(frame[t]).ptr = frame[t].ptr
         /\ Abstract!Releasable(PendingCall(frame[t]))
              <=> IsActive(frame[t].ptr) /\ Matches(records[frame[t].ptr].kind, frame[t].arg)
<1> DEFINE q == frame[t].ptr
           s == frame[t].arg
           a == IF s = Unsized THEN Unsized ELSE Kind(s)
<1>1. frame[t].op = "deallocate" /\ s \in Requests \cup {Unsized}
  BY LocalFacts, Zenon DEF CallOK, HInv, IInv, TypeOK, Frame
<1>2. PendingCall(frame[t]) = [op |-> "deallocate", ptr |-> q, arg |-> a]
  BY <1>1, PendingDeallocate, Zenon
<1>3. /\ PendingCall(frame[t]).op = "deallocate" /\ PendingCall(frame[t]).ptr = q
      /\ PendingCall(frame[t]).arg = a
  BY <1>2
<1>4. LiveKind[q] = IF IsActive(q) THEN records[q].kind ELSE Free
  BY Zenon DEF LiveKind
<1>5. IsActive(q) => records[q].kind # Free /\ records[q].kind # Unsized
  BY RecordFacts, DomainAssumption, Zenon DEF IsActive, HInv, IInv, TypeOK, Kinds
<1>6. s # Unsized => Kind(s) # Unsized
  BY <1>1, KindType, DomainAssumption, Zenon DEF Kinds
<1>7. Abstract!Releasable(PendingCall(frame[t])) <=> LiveKind[q] # Free /\ a \in {Unsized, LiveKind[q]}
  BY <1>3, Zenon DEF Abstract!Releasable
<1>8. (LiveKind[q] # Free /\ a \in {Unsized, LiveKind[q]}) <=> (IsActive(q) /\ Matches(records[q].kind, s))
  <2> HIDE DEF q, s
  <2> QED BY <1>4, <1>5, <1>6, Zenon DEF Matches
<1> QED BY <1>3, <1>7, <1>8, Zenon

LEMMA DeallocateRejectedImplements ==
  ASSUME HInv, NEW t \in Threads, DeallocateRejected(t)
  PROVE  Abstract!DeallocateRefused(t)
<1>1. /\ frame[t].pc = "lookup" /\ frame[t].ptr \in Addr /\ Ends(t, "idle") /\ UNCHANGED records
      /\ ~ (IsActive(frame[t].ptr) /\ Matches(records[frame[t].ptr].kind, frame[t].arg))
  BY DeallocateRejectedEffect, Zenon DEF HInv
<1>2. PendingCall(frame[t]).op = "deallocate" /\ ~ Abstract!Releasable(PendingCall(frame[t]))
  BY <1>1, ReleasableMatches, Zenon
<1>3. Abstract!End(t)
  BY <1>1, PendingEnds, PendingNone, Zenon DEF Ends
<1>4. [u \in Threads |-> PendingCall(frame[u])][t] = PendingCall(frame[t])
  BY Zenon
<1> QED BY <1>1, <1>2, <1>3, <1>4, LiveSame DEF Abstract!DeallocateRefused

\* A free takes effect when the record is marked inactive, or erased.
LEMMA DeallocateImplements ==
  ASSUME HInv, NEW t \in Threads, NEW q \in Addr, q = frame[t].ptr, Moves(t),
         frame[t].pc \in {"lookup", "free_central", "free_erase"},
         frame'[t].pc \in {"push", "idle"}, frame'[t].op # "allocate",
         IsActive(q), Matches(records[q].kind, frame[t].arg), ~ IsActive(q)',
         \A p \in Addr : p # q => records'[p] = records[p]
  PROVE  Abstract!Deallocate(t)
<1>1. /\ PendingCall(frame[t]).op = "deallocate" /\ PendingCall(frame[t]).ptr = q
      /\ Abstract!Releasable(PendingCall(frame[t]))
  BY ReleasableMatches, Zenon
<1>2. Abstract!End(t)
  BY PendingEnds, PendingNone, Zenon
<1>3. LiveKind' = [LiveKind EXCEPT ![q] = Free]
  BY LiveFreed, Zenon
<1>4. [u \in Threads |-> PendingCall(frame[u])][t] = PendingCall(frame[t])
  BY Zenon
<1> QED BY <1>1, <1>2, <1>3, <1>4, Zenon DEF Abstract!Deallocate

LEMMA EraseRecordImplements ==
  ASSUME HInv, NEW t \in Threads, EraseRecord(t)
  PROVE  Abstract!Deallocate(t)
<1>1. PICK q \in Addr : q = frame[t].ptr
  BY EraseRecordEffect, Zenon DEF HInv
<1>2. /\ frame[t].pc = "free_erase" /\ IsActive(q) /\ Matches(records[q].kind, frame[t].arg)
      /\ records' = [records EXCEPT ![q] = NoRecord] /\ Moves(t)
      /\ frame'[t].pc = "idle" /\ frame'[t].op = "none"
      /\ records \in [Addr -> Record \cup {NoRecord}]
  BY <1>1, EraseRecordEffect, Zenon DEF HInv, Ends, IInv, TypeOK
<1>3. ~ IsActive(q)' /\ \A p \in Addr : p # q => records'[p] = records[p]
  BY <1>2, Zenon DEF IsActive
<1> QED BY <1>1, <1>2, <1>3, DeallocateImplements

LEMMA DeallocateLocalImplements ==
  ASSUME HInv, NEW t \in Threads, DeallocateLocal(t)
  PROVE  Abstract!Deallocate(t)
<1>1. PICK c \in Classes :
           /\ frame[t].pc = "lookup" /\ frame[t].ptr \in Addr /\ IsActive(frame[t].ptr)
           /\ Matches(records[frame[t].ptr].kind, frame[t].arg)
           /\ records' = [records EXCEPT ![frame[t].ptr] = CachedRecord(t, c)]
           /\ Advances(t, "push", frame[t].ptr, {c})
  BY DeallocateLocalEffect, Zenon DEF HInv
<1>2. PICK q \in Addr : q = frame[t].ptr
  BY <1>1, Zenon
<1>3. /\ IsActive(q) /\ Matches(records[q].kind, frame[t].arg) /\ Moves(t)
      /\ records' = [records EXCEPT ![q] = CachedRecord(t, c)]
      /\ frame'[t].pc = "push" /\ frame'[t].op = frame[t].op
      /\ records \in [Addr -> Record \cup {NoRecord}]
  BY <1>1, <1>2, Zenon DEF HInv, Advances, IInv, TypeOK
<1>4. ~ IsActive(q)' /\ \A p \in Addr : p # q => records'[p] = records[p]
  BY <1>3, Zenon DEF IsActive, CachedRecord
<1>5. frame[t].op = "deallocate"
  BY <1>1, LocalFacts, Zenon DEF CallOK
<1> QED BY <1>1, <1>2, <1>3, <1>4, <1>5, DeallocateImplements

LEMMA NextImplements == HInv /\ [Next]_vars => [Abstract!Next]_(Abstract!vars)
<1> SUFFICES ASSUME HInv, [Next]_vars PROVE Abstract!Next \/ UNCHANGED Abstract!vars
  BY Zenon
<1>1. CASE UNCHANGED vars
  BY <1>1, Zenon DEF vars, Abstract!vars, LiveKind, IsActive
<1>2. ASSUME NEW t \in Threads, Call(t) PROVE Abstract!Next \/ UNCHANGED Abstract!vars
  BY <1>2, CallAllocateImplements, CallDeallocateImplements, FlushCallImplements, Zenon
     DEF Call, Abstract!Next
<1>3. ASSUME NEW t \in Threads, Step(t) PROVE Abstract!Next \/ UNCHANGED Abstract!vars
  BY <1>3, FailureImplements, RefillStutters, AfterEffectStutters, FreeStutters, FlushStutters,
     FlushEraseStutters, RecordAllocationImplements, CacheHitImplements,
     DeallocateRejectedImplements, EraseRecordImplements, DeallocateLocalImplements
     DEF Step, Proceed, Abstract!Next
<1> QED BY <1>1, <1>2, <1>3, Zenon DEF Next

------------------------------------------------------------------------------
(* What holds of every state.                                              *)

\* live_allocations counts the active records less the refills that have not
\* been counted, and each of these claims an active record of its own.
LEMMA LiveGauge == CInv /\ Gauges => LiveGaugeNeverWraps
<1> SUFFICES ASSUME CInv, Gauges PROVE live >= 0
  BY Zenon DEF LiveGaugeNeverWraps
<1> DEFINE claim == [t \in Unnoted |-> Claim(t)]
<1>1. /\ IsFiniteSet(ActiveBlocks) /\ Cardinality(ActiveBlocks) \in Nat
      /\ Cardinality(Unnoted) \in Nat
  <2>1. ActiveBlocks \in SUBSET Addr /\ Unnoted \in SUBSET Threads
    BY Zenon DEF ActiveBlocks, Unnoted
  <2> QED BY <2>1, FiniteAssumption, FiniteSubset, Zenon
<1>2. \A t \in Unnoted : t \in Threads /\ Claim(t) # NoAddr
  <2> SUFFICES ASSUME NEW t \in Threads, At(t, "keep") \/ At(t, "note") \/ frame[t].index > 0
               PROVE  Claim(t) # NoAddr
    BY Zenon DEF Unnoted
  <2>1. CallOK(t) /\ frame[t].index \in Nat
    BY LocalFacts, Zenon DEF CInv
  <2>2. CASE frame[t].index > 0
    <3>1. frame[t].pc \notin {"lookup", "free_central", "free_erase"}
      BY <2>1, <2>2 DEF CallOK, Refilling, At
    <3> QED BY <2>1, <2>2, <3>1, ClaimNow, DomainAssumption DEF CInv, ClientInvariant
  <2>3. CASE frame[t].pc = "keep" /\ frame[t].index = 0
    <3>1. frame[t].ptr \in Addr
      BY <2>3, Zenon DEF CInv, HInv, IInv, CacheInvariant, FrameOK
    <3> QED BY <2>3, <3>1, ClaimNow, DomainAssumption, Zenon
  <2> QED BY <2>1, <2>2, <2>3 DEF CallOK, At
<1>3. claim \in [Unnoted -> ActiveBlocks]
  BY <1>2, Zenon DEF CInv, ClientInvariant, ActiveBlocks
<1>4. \A t, u \in Unnoted : claim[t] = claim[u] => t = u
  BY <1>2, Zenon DEF CInv, ClientInvariant
<1>5. Cardinality(Unnoted) <= Cardinality(ActiveBlocks)
  <2> HIDE DEF claim
  <2> QED BY <1>1, <1>3, <1>4, InjectionBound, Zenon
<1>6. live = Cardinality(ActiveBlocks) - Cardinality(Unnoted)
  BY Zenon DEF Gauges
<1> QED BY <1>1, <1>5, <1>6

------------------------------------------------------------------------------
(* What holds of every behaviour.                                          *)

\* Whatever callers do, no inactive block is lost: each is in a bin of the
\* thread that last freed it, or in that thread's hand; and every bin is within
\* the bound its thread's position in a call allows.
THEOREM HolderInvariantHolds == Spec => [](TypeOK /\ CacheInvariant /\ HolderInvariant)
<1>1. Init => HInv
  BY InitInv, InitHolder, Zenon DEF HInv
<1>2. HInv => TypeOK /\ CacheInvariant /\ HolderInvariant
  BY Zenon DEF HInv, IInv
<1>3. HInv /\ [Next]_vars => HInv'
  BY NextInv, NextHolder, Zenon DEF HInv
<1> QED BY <1>1, <1>2, <1>3, PTL DEF Spec

\* push_back on a bin never exceeds the high_watermark + 1 slots that
\* register_state reserved, and a returned call leaves high_watermark at most.
THEOREM BinsWithinReserveHolds == Spec => []BinsWithinReserve
<1>1. HInv => BinsWithinReserve
  BY WithinReserve, Zenon
<1>2. TypeOK /\ CacheInvariant /\ HolderInvariant => HInv
  BY Zenon DEF HInv, IInv
<1> QED BY <1>1, <1>2, HolderInvariantHolds, PTL

\* Between central storage, the records, the bins and the threads inside
\* allocate, deallocate and flush_bin, no block is lost and none is held twice.
THEOREM BlockHasOneHolderHolds == Spec => []BlockHasOneHolder
<1>1. TypeOK /\ CacheInvariant /\ HolderInvariant => HInv
  BY Zenon DEF HInv, IInv
<1> QED BY <1>1, OneHolder, HolderInvariantHolds, PTL

\* The statistics_ gauges are exact: cached_blocks and live_allocations count
\* the records, but for the ones a refill in progress has not reached yet.
THEOREM GaugesExactHolds == Spec => []GaugesExact
<1> DEFINE Inv == HInv /\ Gauges
<1>1. Init => Inv
  BY InitInv, InitHolder, InitGauges, Zenon DEF HInv
<1>2. Inv /\ [Next]_vars => Inv'
  BY NextInv, NextHolder, NextGauges, Zenon DEF HInv
<1>3. Inv => GaugesExact
  BY ExactGauges, Zenon
<1> QED BY <1>1, <1>2, <1>3, PTL DEF Spec

\* The caching, sharded allocator of many threads is a correct atomic one:
\* every allocate and deallocate takes effect in one step between its call and
\* its return, whatever the callers do.
THEOREM CacheImplementsAllocator == Spec => ImplementsAllocator
<1>1. Init => Abstract!Init
  <2> SUFFICES ASSUME Init PROVE Abstract!Init
    BY Zenon
  <2>1. LiveKind = [p \in Addr |-> Free]
    BY Zenon DEF Init, LiveKind, IsActive
  <2>2. \A t \in Threads : frame[t].pc = "idle" /\ frame[t].op = "none"
    BY Zenon DEF Init, IdleFrame
  <2>3. \A t \in Threads : PendingCall(frame[t]) = Abstract!NoCall
    BY <2>2, PendingNone, Zenon
  <2> QED BY <2>1, <2>3, Zenon DEF Abstract!Init
<1>2. TypeOK /\ CacheInvariant /\ HolderInvariant => HInv
  BY Zenon DEF HInv, IInv
<1> QED BY <1>1, <1>2, NextImplements, HolderInvariantHolds, PTL
        DEF Spec, ImplementsAllocator, Abstract!Spec

\* With callers that free only what they hold, whichever threads they are on,
\* each pointer in their hands or in a call in progress has one use and an
\* active record.
THEOREM ClientInvariantHolds == ClientSpec => [](CInv /\ Gauges)
<1>1. ClientInit => CInv /\ Gauges
  BY InitInv, InitHolder, InitGauges, InitClaims, Zenon DEF ClientInit, CInv, HInv
<1>2. CInv /\ Gauges /\ [ClientNext]_clientVars => (CInv /\ Gauges)'
  <2> SUFFICES ASSUME CInv, Gauges, [ClientNext]_clientVars PROVE CInv' /\ Gauges'
    BY Zenon
  <2>1. [Next]_vars
    BY ClientStepIsStep, Zenon
  <2>2. HInv' /\ Gauges'
    BY <2>1, NextInv, NextHolder, NextGauges, Zenon DEF CInv, HInv
  <2> QED BY <2>2, NextClaims, Zenon DEF CInv
<1> QED BY <1>1, <1>2, PTL DEF ClientSpec

\* A pointer that allocate returned stays backed by an active record and an
\* allocated block of central storage until deallocate has looked it up, across
\* the refills, flushes and exits of every thread.
THEOREM HeldPointersStayLiveHolds == ClientSpec => []HeldPointersStayLive
  BY HeldLive, ClientInvariantHolds, PTL

\* live_allocations, which refills raise late, is never lowered below zero.
THEOREM LiveGaugeNeverWrapsHolds == ClientSpec => []LiveGaugeNeverWraps
  BY LiveGauge, ClientInvariantHolds, PTL
==============================================================================
