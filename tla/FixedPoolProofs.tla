--------------------------- MODULE FixedPoolProofs ---------------------------
(***************************************************************************)
(* FixedSizeMemoryPool, for any number of blocks, any options and any      *)
(* sequence of calls and of writes through dangling pointers: the          *)
(* invariant of the free list, the diagnostic table and the statistics is  *)
(* inductive, and what follows from it.  Then the objects in its blocks,   *)
(* at any depth of nested calls, and the peaks of gauges that any number   *)
(* of threads update.                                                      *)
(***************************************************************************)
EXTENDS FixedPool, ObjectPool, AtomicPeak, ArithmeticLemmas, FiniteSetTheorems, SequenceTheorems

\* Blocks are a finite set of block_count_ addresses, none of them nullptr.
LEMMA BlockFacts ==
  /\ IsFiniteSet(Blocks) /\ Cardinality(Blocks) = BlockCount
  /\ Null \notin Blocks /\ BlockCount \in Nat /\ BlockCount > 0
  /\ \A S \in SUBSET Blocks : IsFiniteSet(S) /\ Cardinality(S) \in 0 .. BlockCount
<1>1. BlockCount \in Nat /\ BlockCount > 0 /\ Null \notin Blocks
  BY PoolAssumption
<1>2. IsFiniteSet(Blocks) /\ Cardinality(Blocks) = BlockCount
  BY <1>1, FS_Interval DEF Blocks
<1>3. ASSUME NEW S \in SUBSET Blocks
      PROVE  IsFiniteSet(S) /\ Cardinality(S) \in 0 .. BlockCount
  <2>1. IsFiniteSet(S) /\ Cardinality(S) <= BlockCount
    BY <1>2, FS_Subset, Zenon
  <2>2. Cardinality(S) \in Nat
    BY <2>1, FS_CardinalityType, Zenon
  <2> QED BY <1>1, <2>1, <2>2
<1> QED BY <1>1, <1>2, <1>3, Zenon

LinkOf(w) == IF w \in Blocks THEN storage[w]["link"] ELSE w

\* The walk of validate_integrity: it starts at free_head_ and follows links.
LEMMA WalkFacts ==
  ASSUME TypeOK
  PROVE  /\ FreeNodes \in [0 .. BlockCount -> Words] /\ FreeNodes[0] = free_head
         /\ \A i \in 0 .. BlockCount - 1 : FreeNodes[i + 1] = LinkOf(FreeNodes[i])
<1>1. \A w \in Words : LinkOf(w) \in Words
  BY Zenon DEF LinkOf, TypeOK, Cells
<1> DEFINE Walk(n, f) == /\ f \in [0 .. n -> Words] /\ f[0] = free_head
                         /\ \A i \in 1 .. n : f[i] = LinkOf(f[i - 1])
           S == {n \in Nat : \E f : Walk(n, f)}
<1>2. 0 \in S
  <2>1. Walk(0, [i \in 0 .. 0 |-> free_head])
    BY DEF TypeOK
  <2> QED BY <2>1, Zenon
<1>3. ASSUME NEW n \in Nat, n \in S PROVE n + 1 \in S
  <2>1. PICK f : Walk(n, f)
    BY <1>3, Zenon
  <2> DEFINE g == [i \in 0 .. n + 1 |-> IF i <= n THEN f[i] ELSE LinkOf(f[n])]
  <2>2. f[n] \in Words
    BY <2>1
  <2>3. LinkOf(f[n]) \in Words
    BY <2>2, <1>1, Zenon
  <2>4. g \in [0 .. n + 1 -> Words]
    BY <2>1, <2>3
  <2>5. g[0] = free_head
    BY <2>1
  <2>6. ASSUME NEW i \in 1 .. n + 1 PROVE g[i] = LinkOf(g[i - 1])
    <3>1. g[i - 1] = f[i - 1]
      OBVIOUS
    <3>2. CASE i <= n
      BY <2>1, <3>1, <3>2
    <3>3. CASE i = n + 1
      <4>1. g[i] = LinkOf(f[n]) /\ i - 1 = n
        BY <3>3
      <4> QED BY <3>1, <4>1, Zenon
    <3> QED BY <3>2, <3>3
  <2>7. Walk(n + 1, g)
    BY <2>4, <2>5, <2>6, Zenon
  <2> HIDE DEF Walk, g
  <2> QED BY <2>7
<1>4. BlockCount \in Nat /\ BlockCount \in S
  <2>1. Nat \subseteq S
    <3> HIDE DEF S
    <3> QED BY <1>2, <1>3, NatSetInduction, Zenon
  <2> QED BY <2>1, PoolAssumption, Zenon
<1>5. PICK f : Walk(BlockCount, f)
  BY <1>4, Zenon
<1> DEFINE Def(h) == [i \in 0 .. BlockCount |->
                        IF i = 0 THEN free_head
                        ELSE IF h[i - 1] \in Blocks THEN storage[h[i - 1]]["link"]
                        ELSE h[i - 1]]
<1>6. f = Def(f)
  BY <1>4, <1>5 DEF LinkOf
<1>7. FreeNodes = CHOOSE h : h = Def(h)
  BY Zenon DEF FreeNodes
<1>8. FreeNodes = Def(FreeNodes)
  BY <1>6, <1>7, Zenon
<1>9. FreeNodes[0] = free_head
  <2>1. Def(FreeNodes)[0] = free_head
    BY <1>4
  <2> HIDE DEF Def
  <2> QED BY <1>8, <2>1, Zenon
<1>10. \A i \in 0 .. BlockCount - 1 : FreeNodes[i + 1] = LinkOf(FreeNodes[i])
  <2> SUFFICES ASSUME NEW i \in 0 .. BlockCount - 1
               PROVE  FreeNodes[i + 1] = LinkOf(FreeNodes[i])
    BY Zenon
  <2>1. ASSUME NEW h PROVE Def(h)[i + 1] = LinkOf(h[i])
    <3>1. i + 1 \in 0 .. BlockCount /\ i + 1 # 0 /\ (i + 1) - 1 = i
      BY <1>4
    <3> QED BY <3>1, Zenon DEF LinkOf
  <2>2. Def(FreeNodes)[i + 1] = LinkOf(FreeNodes[i])
    BY <2>1, Zenon
  <2> HIDE DEF Def
  <2> QED BY <1>8, <2>2, Zenon
<1>11. DOMAIN FreeNodes = 0 .. BlockCount /\ FreeNodes = [i \in 0 .. BlockCount |-> FreeNodes[i]]
  BY <1>8, Zenon
<1> DEFINE T == {n \in Nat : n <= BlockCount => FreeNodes[n] \in Words}
<1>12. Nat \subseteq T
  <2> HIDE DEF Def, S
  <2>1. 0 \in T
    BY <1>9, Zenon DEF TypeOK
  <2>2. ASSUME NEW n \in Nat, n \in T PROVE n + 1 \in T
    <3> SUFFICES ASSUME n + 1 <= BlockCount PROVE FreeNodes[n + 1] \in Words
      OBVIOUS
    <3>1. FreeNodes[n] \in Words /\ n \in 0 .. BlockCount - 1
      BY <2>2, <1>4
    <3> QED BY <3>1, <1>1, <1>10, Zenon
  <2> HIDE DEF T
  <2> QED BY <2>1, <2>2, NatSetInduction, Zenon
<1>13. \A i \in 0 .. BlockCount : FreeNodes[i] \in Words
  BY <1>12, <1>4
<1>14. FreeNodes \in [0 .. BlockCount -> Words]
  BY <1>11, <1>13, Zenon
<1> QED BY <1>9, <1>10, <1>14, Zenon

------------------------------------------------------------------------------
(* The free list as a numbering of its nodes.                              *)

Chain(n, f, S) ==
    /\ n \in Nat /\ f \in [1 .. n -> Blocks]
    /\ free_head = IF n = 0 THEN Null ELSE f[1]
    /\ \A i \in 1 .. n : storage[f[i]]["link"] = IF i = n THEN Null ELSE f[i + 1]
    /\ \A i, j \in 1 .. n : f[i] = f[j] => i = j
    /\ {f[i] : i \in 1 .. n} = S

LEMMA ChainCount ==
  ASSUME NEW n, NEW f, NEW S, Chain(n, f, S)
  PROVE  S \subseteq Blocks /\ IsFiniteSet(S) /\ Cardinality(S) = n
<1>1. n \in Nat /\ S \subseteq Blocks
  BY DEF Chain
<1>2. f \in Bijection(1 .. n, S)
  BY Zenon DEF Chain, Bijection, Injection, Surjection, IsInjective
<1>3. ExistsBijection(1 .. n, S)
  BY <1>2, Zenon DEF ExistsBijection
<1> QED BY <1>1, <1>3, FS_CountingElements, FS_NatBijection, Zenon

LEMMA ListChain == \A S : ListIs(S) <=> \E n, f : Chain(n, f, S)
<1> SUFFICES ASSUME NEW S PROVE ListIs(S) <=> \E n, f : Chain(n, f, S)
  BY Zenon
<1>1. ASSUME NEW n, NEW f, Chain(n, f, S) PROVE ListIs(S)
  <2>1. n \in Nat /\ f \in [1 .. n -> Blocks] /\ f \in Seq(Blocks) /\ Len(f) = n
    BY <1>1 DEF Chain
  <2>2. n \in 0 .. BlockCount /\ Cardinality(S) = n
    BY <1>1, ChainCount, BlockFacts, Zenon
  <2>3. f \in FreePath
    <3> DEFINE next(i) == IF i = 0 THEN free_head ELSE storage[f[i]]["link"]
    <3>1. \A i \in 1 .. n : f[i] = next(i - 1)
      BY <1>1, <2>1 DEF Chain
    <3>2. next(n) = Null
      BY <1>1, <2>1 DEF Chain
    <3> QED BY <2>1, <2>2, <3>1, <3>2, Zenon DEF FreePath
  <2> QED BY <1>1, <2>1, <2>2, <2>3, Zenon DEF ListIs, Chain
<1>2. ASSUME ListIs(S) PROVE \E n, f : Chain(n, f, S)
  <2>1. PICK f \in FreePath : {f[i] : i \in DOMAIN f} = S /\ Len(f) = Cardinality(S)
    BY <1>2, Zenon DEF ListIs
  <2>2. PICK n \in 0 .. BlockCount : f \in [1 .. n -> Blocks]
    BY <2>1, Zenon DEF FreePath
  <2>3. n \in Nat /\ f \in Seq(Blocks) /\ Len(f) = n
    BY <2>2, BlockFacts
  <2>4. /\ \A i \in 1 .. n : f[i] = IF i - 1 = 0 THEN free_head ELSE storage[f[i - 1]]["link"]
        /\ Null = IF n = 0 THEN free_head ELSE storage[f[n]]["link"]
    BY <2>1, <2>3, Zenon DEF FreePath
  <2>5. f \in Surjection(1 .. n, S)
    BY <2>1, <2>2, Zenon DEF Surjection
  <2>6. Cardinality(1 .. n) = Cardinality(S) /\ IsFiniteSet(1 .. n)
    BY <2>1, <2>3, FS_Interval
  <2>7. \A i, j \in 1 .. n : f[i] = f[j] => i = j
    BY <2>5, <2>6, FS_Surjection DEF Injection, IsInjective
  <2>8. ASSUME NEW i \in 1 .. n
        PROVE  storage[f[i]]["link"] = IF i = n THEN Null ELSE f[i + 1]
    <3>1. CASE i = n
      BY <2>3, <2>4, <3>1
    <3>2. CASE i # n
      <4>1. i + 1 \in 1 .. n /\ (i + 1) - 1 = i /\ i # 0
        BY <2>3, <3>2
      <4> QED BY <2>4, <3>2, <4>1, Zenon
    <3> QED BY <3>1, <3>2, Zenon
  <2>9. free_head = IF n = 0 THEN Null ELSE f[1]
    BY <2>3, <2>4
  <2>10. {f[i] : i \in 1 .. n} = S
    BY <2>1, <2>2, Zenon
  <2>11. Chain(n, f, S)
    BY <2>2, <2>3, <2>7, <2>8, <2>9, <2>10, Zenon DEF Chain
  <2> QED BY <2>11, Zenon
<1> QED BY <1>1, <1>2, Zenon

LEMMA ListChainNext == \A S : ListIs(S)' <=> \E n, f : Chain(n, f, S)'
<1>1. (\A S : ListIs(S) <=> \E n, f : Chain(n, f, S))'
  BY ListChain, PTL
<1> QED BY <1>1, Zenon

\* A step that leaves the links of the free blocks alone.
LEMMA KeepChain ==
  ASSUME NEW n, NEW f, NEW S, Chain(n, f, S), free_head' = free_head,
         \A b \in S : storage'[b]["link"] = storage[b]["link"]
  PROVE  Chain(n, f, S)'
<1>1. \A i \in 1 .. n : f[i] \in S
  BY Zenon DEF Chain
<1> QED BY <1>1, Zenon DEF Chain

\* The head is taken off the list.
LEMMA PopChain ==
  ASSUME NEW n, NEW f, NEW S, Chain(n, f, S), NEW h \in Blocks, free_head = h,
         free_head' = storage[h]["link"],
         \A b \in Blocks : b # h => storage'[b]["link"] = storage[b]["link"]
  PROVE  h \in S /\ \E m, g : Chain(m, g, S \ {h})'
<1>1. n \in Nat /\ n # 0 /\ f[1] = h /\ f \in [1 .. n -> Blocks]
  BY BlockFacts, Zenon DEF Chain
<1> DEFINE m == n - 1
           g == [i \in 1 .. m |-> f[i + 1]]
<1>2. m \in Nat /\ \A i \in 1 .. m : i + 1 \in 1 .. n
  BY <1>1
<1>3. g \in [1 .. m -> Blocks]
  BY <1>1, <1>2, Zenon
<1>4. \A i \in 1 .. m : g[i] = f[i + 1] /\ g[i] # h
  <2> SUFFICES ASSUME NEW i \in 1 .. m PROVE g[i] = f[i + 1] /\ g[i] # h
    BY Zenon
  <2>1. i + 1 \in 1 .. n /\ 1 \in 1 .. n /\ i + 1 # 1
    BY <1>1, <1>2
  <2> QED BY <1>1, <2>1, Zenon DEF Chain
<1>5. storage[h]["link"] = IF m = 0 THEN Null ELSE g[1]
  <2>1. storage[f[1]]["link"] = IF 1 = n THEN Null ELSE f[1 + 1]
    BY <1>1 DEF Chain
  <2>2. m # 0 => 1 \in 1 .. m /\ g[1] = f[1 + 1]
    BY <1>1, <1>2, <1>4
  <2> QED BY <1>1, <2>1, <2>2
<1>6. ASSUME NEW i \in 1 .. m
      PROVE  storage'[g[i]]["link"] = IF i = m THEN Null ELSE g[i + 1]
  <2>1. storage'[g[i]]["link"] = storage[f[i + 1]]["link"]
    BY <1>3, <1>4, Zenon
  <2>2. storage[f[i + 1]]["link"] = IF i + 1 = n THEN Null ELSE f[(i + 1) + 1]
    BY <1>2, Zenon DEF Chain
  <2>3. i # m => i + 1 \in 1 .. m /\ g[i + 1] = f[(i + 1) + 1]
    BY <1>2
  <2> QED BY <1>1, <2>1, <2>2, <2>3
<1>7. \A i, j \in 1 .. m : g[i] = g[j] => i = j
  <2> SUFFICES ASSUME NEW i \in 1 .. m, NEW j \in 1 .. m, g[i] = g[j] PROVE i = j
    BY Zenon
  <2>1. f[i + 1] = f[j + 1] /\ i + 1 \in 1 .. n /\ j + 1 \in 1 .. n
    BY <1>2, <1>4, Zenon
  <2>2. i + 1 = j + 1
    BY <2>1, Zenon DEF Chain
  <2> QED BY <2>2
<1>8. {g[i] : i \in 1 .. m} = S \ {h}
  <2>1. ASSUME NEW i \in 1 .. m PROVE g[i] \in S \ {h}
    BY <1>2, <1>4, Zenon DEF Chain
  <2>2. ASSUME NEW b \in S, b # h PROVE \E i \in 1 .. m : g[i] = b
    <3>1. PICK j \in 1 .. n : f[j] = b
      BY Zenon DEF Chain
    <3>2. j - 1 \in 1 .. m /\ (j - 1) + 1 = j
      BY <1>1, <2>2, <3>1
    <3> QED BY <1>4, <3>1, <3>2, Zenon
  <2> QED BY <2>1, <2>2
<1> HIDE DEF m, g
<1>9. h \in S
  BY <1>1 DEF Chain
<1>10. Chain(m, g, S \ {h})'
  BY <1>2, <1>3, <1>5, <1>6, <1>7, <1>8, Zenon DEF Chain
<1> QED BY <1>9, <1>10, Zenon

\* A block is put at the head of the list.
LEMMA PushChain ==
  ASSUME NEW n, NEW f, NEW S, Chain(n, f, S), NEW p \in Blocks, p \notin S,
         free_head' = p, storage'[p]["link"] = free_head,
         \A b \in Blocks : b # p => storage'[b]["link"] = storage[b]["link"]
  PROVE  \E m, g : Chain(m, g, S \cup {p})'
<1>1. n \in Nat /\ f \in [1 .. n -> Blocks] /\ \A i \in 1 .. n : f[i] \in S /\ f[i] # p
  BY Zenon DEF Chain
<1> DEFINE m == n + 1
           g == [i \in 1 .. m |-> IF i = 1 THEN p ELSE f[i - 1]]
<1>2. m \in Nat /\ \A i \in 2 .. m : i - 1 \in 1 .. n
  BY <1>1
<1>3. g \in [1 .. m -> Blocks]
  BY <1>1, <1>2
<1>4. g[1] = p /\ \A i \in 2 .. m : g[i] = f[i - 1] /\ g[i] \in S /\ g[i] # p
  BY <1>1, <1>2
<1>5. ASSUME NEW i \in 1 .. m
      PROVE  storage'[g[i]]["link"] = IF i = m THEN Null ELSE g[i + 1]
  <2>1. CASE i = 1
    <3>1. free_head = IF n = 0 THEN Null ELSE f[1]
      BY Zenon DEF Chain
    <3>2. n # 0 => g[2] = f[1]
      BY <1>1
    <3> QED BY <1>1, <1>4, <2>1, <3>1, <3>2
  <2>2. CASE i # 1
    <3>1. i \in 2 .. m /\ i - 1 \in 1 .. n /\ g[i] \in Blocks /\ g[i] # p /\ g[i] = f[i - 1]
      BY <1>1, <1>2, <1>3, <1>4, <2>2
    <3>2. storage'[g[i]]["link"] = IF i - 1 = n THEN Null ELSE f[(i - 1) + 1]
      BY <3>1, Zenon DEF Chain
    <3>3. i # m => g[i + 1] = f[(i - 1) + 1]
      BY <1>1, <3>1
    <3> QED BY <1>1, <3>2, <3>3
  <2> QED BY <2>1, <2>2, Zenon
<1>6. ASSUME NEW i \in 1 .. m, NEW j \in 1 .. m, g[i] = g[j] PROVE i = j
  <2>1. CASE i = 1 \/ j = 1
    BY <1>1, <1>4, <1>6, <2>1
  <2>2. CASE i # 1 /\ j # 1
    <3>1. i - 1 \in 1 .. n /\ j - 1 \in 1 .. n /\ f[i - 1] = f[j - 1]
      BY <1>1, <1>4, <1>6, <2>2
    <3>2. i - 1 = j - 1
      BY <3>1, Zenon DEF Chain
    <3> QED BY <3>2
  <2> QED BY <2>1, <2>2, Zenon
<1>7. {g[i] : i \in 1 .. m} = S \cup {p}
  <2>1. ASSUME NEW i \in 1 .. m PROVE g[i] \in S \cup {p}
    BY <1>1, <1>4
  <2>2. ASSUME NEW b \in S PROVE \E i \in 1 .. m : g[i] = b
    <3>1. PICK j \in 1 .. n : f[j] = b
      BY Zenon DEF Chain
    <3>2. j + 1 \in 2 .. m /\ (j + 1) - 1 = j
      BY <1>1
    <3> QED BY <1>4, <3>1, <3>2
  <2>3. 1 \in 1 .. m
    BY <1>1
  <2> QED BY <1>4, <2>1, <2>2, <2>3
<1>8. m # 0
  BY <1>1
<1> HIDE DEF m, g
<1>9. Chain(m, g, S \cup {p})'
  BY <1>2, <1>3, <1>4, <1>5, <1>6, <1>7, <1>8, Zenon DEF Chain
<1> QED BY <1>9, Zenon

------------------------------------------------------------------------------
(* The layout of a block, and what the operations leave of its words.      *)

LEMMA LayoutFacts ==
  ASSUME TypeOK
  PROVE  /\ Front \in Cells /\ Payload \in Cells /\ Patterns \subseteq Words
         /\ options.guards => Payload # "link"
         /\ \A p \in Blocks : storage[p] \in [Cells -> Words]
  BY Zenon DEF TypeOK, Front, Payload, Cells, Words, Options

LEMMA BlockTypes ==
  ASSUME TypeOK, NEW b \in [Cells -> Words], NEW w \in Patterns
  PROVE  /\ Poison(b, w) \in [Cells -> Words]
         /\ WriteCanaries(b) \in [Cells -> Words]
         /\ ~ options.poison \/ options.guards => Poison(b, w)["link"] = b["link"]
         /\ Relinked(b) \in [Cells -> Words] /\ FreedPattern \in Patterns
         /\ Relinked(b)["link"] = free_head
<1>1. /\ Front \in Cells /\ Payload \in Cells /\ w \in Words /\ Canary \in Words
      /\ FreedPattern \in Words /\ FreedPattern \in Patterns /\ free_head \in Words
      /\ "link" \in Cells /\ "back" \in Cells
  BY LayoutFacts, Zenon DEF Patterns, Words, Cells, TypeOK
<1>2. \A x \in Words : Poison(b, x) \in [Cells -> Words]
  BY <1>1, Zenon DEF Poison
<1>3. WriteCanaries(b) \in [Cells -> Words]
  BY <1>1, Zenon DEF WriteCanaries
<1>4. ~ options.poison \/ options.guards => Poison(b, w)["link"] = b["link"]
  BY <1>1, LayoutFacts, Zenon DEF Poison
<1>5. Relinked(b) \in [Cells -> Words] /\ Relinked(b)["link"] = free_head
  BY <1>1, <1>2, Zenon DEF Relinked
<1> QED BY <1>1, <1>2, <1>3, <1>4, <1>5, Zenon

CounterType == [requests : Int, bytes : Int, successes : Int, failures : Int,
                frees : Int, current : Int, peak : Int]

LEMMA RequestFacts ==
  ASSUME NEW s \in CounterType
  PROVE  /\ RecordRequest(s) \in CounterType
         /\ RecordRequest(s).requests = s.requests + 1
         /\ RecordRequest(s).bytes = IF s.bytes > MaxSize - BlockBytes THEN MaxSize
                                     ELSE s.bytes + BlockBytes
         /\ RecordRequest(s).successes = s.successes
         /\ RecordRequest(s).failures = s.failures
         /\ RecordRequest(s).frees = s.frees
         /\ RecordRequest(s).current = s.current
         /\ RecordRequest(s).peak = s.peak
<1> DEFINE b == IF s.bytes > MaxSize - BlockBytes THEN MaxSize ELSE s.bytes + BlockBytes
<1>1. s.bytes \in Int /\ s.requests + 1 \in Int
  BY DEF CounterType
<1>2. b \in Int
  BY <1>1, PoolAssumption
<1>3. RecordRequest(s) = [s EXCEPT !.requests = s.requests + 1, !.bytes = b]
  BY Zenon DEF RecordRequest, CounterType
<1> HIDE DEF b
<1>4. /\ RecordRequest(s) \in CounterType
      /\ RecordRequest(s).requests = s.requests + 1 /\ RecordRequest(s).bytes = b
      /\ RecordRequest(s).successes = s.successes
      /\ RecordRequest(s).failures = s.failures
      /\ RecordRequest(s).frees = s.frees
      /\ RecordRequest(s).current = s.current
      /\ RecordRequest(s).peak = s.peak
  BY <1>1, <1>2, <1>3, Zenon DEF CounterType
<1> QED BY <1>4, Zenon DEF b

LEMMA SuccessFacts ==
  ASSUME NEW s \in CounterType
  PROVE  /\ RecordSuccess(s) \in CounterType
         /\ RecordSuccess(s).requests = s.requests
         /\ RecordSuccess(s).bytes = s.bytes
         /\ RecordSuccess(s).successes = s.successes + 1
         /\ RecordSuccess(s).failures = s.failures
         /\ RecordSuccess(s).frees = s.frees
         /\ RecordSuccess(s).current = s.current + 1
         /\ RecordSuccess(s).peak = Max(s.peak, s.current + 1)
<1>1. s.successes + 1 \in Int /\ s.current + 1 \in Int /\ s.peak \in Int
  BY DEF CounterType
<1>2. Max(s.peak, s.current + 1) \in Int
  BY <1>1, Zenon DEF Max
<1> QED BY <1>1, <1>2, Zenon DEF CounterType, RecordSuccess

LEMMA FailureFacts ==
  ASSUME NEW s \in CounterType
  PROVE  /\ RecordFailure(s) \in CounterType
         /\ RecordFailure(s).requests = s.requests
         /\ RecordFailure(s).bytes = s.bytes
         /\ RecordFailure(s).successes = s.successes
         /\ RecordFailure(s).failures = s.failures + 1
         /\ RecordFailure(s).frees = s.frees
         /\ RecordFailure(s).current = s.current
         /\ RecordFailure(s).peak = s.peak
<1>1. s.failures + 1 \in Int
  BY DEF CounterType
<1> QED BY <1>1, Zenon DEF CounterType, RecordFailure

LEMMA DeallocationFacts ==
  ASSUME NEW s \in CounterType
  PROVE  /\ RecordDeallocation(s) \in CounterType
         /\ RecordDeallocation(s).requests = s.requests
         /\ RecordDeallocation(s).bytes = s.bytes
         /\ RecordDeallocation(s).successes = s.successes
         /\ RecordDeallocation(s).failures = s.failures
         /\ RecordDeallocation(s).frees = s.frees + 1
         /\ RecordDeallocation(s).current = s.current - 1
         /\ RecordDeallocation(s).peak = s.peak
<1>1. s.frees + 1 \in Int /\ s.current - 1 \in Int
  BY DEF CounterType
<1> QED BY <1>1, Zenon DEF CounterType, RecordDeallocation

------------------------------------------------------------------------------
(* Every step keeps the types.                                             *)

\* The steps that touch neither the blocks nor the list.
Idle == AllocateExhausted \/ AllocateUndefined \/ DeallocateForeign \/ Destroy
        \/ \E p \in Blocks : DeallocateBreached(p)

\* Block p gets the words w and nothing else moves.
Writes(p, w) ==
    /\ storage' = [storage EXCEPT ![p] = w]
    /\ UNCHANGED <<options, free_head, free_blocks, states, statistics, held, reported, dangling>>

LEMMA IdleEffect ==
  ASSUME TypeOK, Idle
  PROVE  /\ UNCHANGED <<options, storage, free_head, free_blocks, states, held, dangling>>
         /\ \/ statistics' = statistics
            \/ options.statistics /\ statistics' = RecordFailure(RecordRequest(statistics))
  BY Zenon DEF Idle, AllocateExhausted, AllocateUndefined, DeallocateForeign, Destroy,
     DeallocateBreached, Ends, Track

\* What a caller writes into its block, or through a dangling pointer, and what
\* the poisoning before a refused return leaves: only a guarded block keeps its
\* link.
LEMMA WriteEffect ==
  ASSUME TypeOK, NEW p \in Blocks,
         CallerWrites(p) \/ CallerOverruns(p) \/ CallerWritesFreed(p) \/ DeallocateTwice(p)
  PROVE  \E w \in [Cells -> Words] :
            /\ Writes(p, w)
            /\ DeallocateTwice(p) /\ (~ options.poison \/ options.guards)
                 => w["link"] = storage[p]["link"]
<1>1. /\ storage[p] \in [Cells -> Words] /\ Front \in Cells /\ Payload \in Cells
      /\ "back" \in Cells /\ Data \in Words /\ FreedPattern \in Patterns
  BY LayoutFacts, Zenon DEF Patterns, Words, Cells
<1>2. CASE DeallocateTwice(p)
  <2>1. Writes(p, Poison(storage[p], FreedPattern))
    BY <1>2, Zenon DEF DeallocateTwice, Writes, Ends, TypeOK
  <2> QED BY <2>1, <1>1, BlockTypes, Zenon
<1>3. CASE CallerWrites(p) \/ CallerOverruns(p) \/ CallerWritesFreed(p)
  <2>1. PICK c \in Cells, x \in Words :
           /\ storage' = [storage EXCEPT ![p][c] = x]
           /\ UNCHANGED <<options, free_head, free_blocks, states, statistics, held,
                          reported, dangling>>
    BY <1>1, <1>3, Zenon DEF CallerWrites, CallerOverruns, CallerWritesFreed, Ends, Words
  <2> DEFINE w == [storage[p] EXCEPT ![c] = x]
  <2>2. w \in [Cells -> Words]
    BY <1>1, Zenon
  <2>3. Writes(p, w)
    BY <2>1, Zenon DEF Writes
  <2>4. ~ DeallocateTwice(p)
    BY <1>3 DEF DeallocateTwice, CallerWrites, CallerOverruns, CallerWritesFreed, Ends
  <2> HIDE DEF w
  <2> QED BY <2>2, <2>3, <2>4, Zenon
<1> QED BY <1>2, <1>3, Zenon

\* The steps of Next by their effect.
LEMMA StepCases ==
  ASSUME TypeOK, Next
  PROVE  \/ Idle \/ Allocate \/ AllocateTerminates
         \/ \E p \in Blocks :
              \/ p \in held /\ (CallerWrites(p) \/ CallerOverruns(p) \/ DeallocateTwice(p))
              \/ p \in held /\ Deallocate(p)
              \/ p \notin held /\ ~ dangling /\ Contained /\ (DeallocateTwice(p) \/ Deallocate(p))
              \/ dangling /\ CallerWritesFreed(p)
<1>1. held \subseteq Blocks
  BY Zenon DEF TypeOK
<1>2. CASE PoolStep
  BY <1>1, <1>2, Zenon DEF PoolStep, Returns, Idle
<1>3. CASE AllocateTerminates \/ AllocateUndefined
  BY <1>3, Zenon DEF Idle
<1>4. CASE \E p \in Blocks \ held :
            \/ ~ dangling /\ Contained /\ Returns(p)
            \/ dangling /\ CallerWritesFreed(p)
  BY <1>4, Zenon DEF Returns, Idle
<1> QED BY <1>2, <1>3, <1>4, Zenon DEF Next

LEMMA NextType == TypeOK /\ [Next]_vars => TypeOK'
<1> SUFFICES ASSUME TypeOK, [Next]_vars PROVE TypeOK'
  BY Zenon
<1>1. statistics \in CounterType
  BY Zenon DEF TypeOK, CounterType
<1>2. CASE UNCHANGED vars
  BY <1>2, Zenon DEF TypeOK, vars
<1>3. CASE Idle
  <2>1. RecordFailure(RecordRequest(statistics)) \in CounterType
    BY <1>1, RequestFacts, FailureFacts, Zenon
  <2> QED BY <1>3, <2>1, IdleEffect, Zenon DEF TypeOK, CounterType
<1>4. ASSUME NEW p \in Blocks,
             CallerWrites(p) \/ CallerOverruns(p) \/ CallerWritesFreed(p) \/ DeallocateTwice(p)
      PROVE  TypeOK'
  <2>1. PICK w \in [Cells -> Words] : Writes(p, w)
    BY <1>4, WriteEffect, Zenon
  <2> QED BY <2>1, Zenon DEF Writes, TypeOK
<1>5. ASSUME NEW p \in Blocks, Deallocate(p) PROVE TypeOK'
  <2>1. Relinked(storage[p]) \in [Cells -> Words]
    BY LayoutFacts, BlockTypes, Zenon DEF Patterns
  <2>2. RecordDeallocation(statistics) \in CounterType
    BY <1>1, DeallocationFacts, Zenon
  <2> HIDE DEF CounterType
  <2>3. statistics' \in CounterType
    BY <1>1, <1>5, <2>2, Zenon DEF Deallocate, Track
  <2>4. storage' \in [Blocks -> [Cells -> Words]]
    BY <1>5, <2>1, Zenon DEF Deallocate, TypeOK
  <2>5. free_head' \in Words /\ free_blocks' \in Int
    BY <1>5 DEF Deallocate, TypeOK, Words
  <2>6. /\ options' = options /\ dangling' = dangling
        /\ states' \subseteq Blocks /\ held' \subseteq Blocks
    BY <1>5, Zenon DEF Deallocate, TypeOK, Ends
  <2> QED BY <2>3, <2>4, <2>5, <2>6, Zenon DEF TypeOK, CounterType
<1>6. CASE Allocate \/ AllocateTerminates
  <2>1. free_head \in Blocks /\ storage[free_head]["link"] \in Words
    BY <1>6, LayoutFacts, Zenon DEF Allocate, AllocateTerminates, Cells
  <2>2. AllocatedPattern \in Patterns
    BY Zenon DEF Patterns
  <2>3. WriteCanaries(Poison(storage[free_head], AllocatedPattern)) \in [Cells -> Words]
    BY <2>1, <2>2, LayoutFacts, BlockTypes, Zenon
  <2>4. /\ RecordRequest(statistics) \in CounterType
        /\ RecordSuccess(RecordRequest(statistics)) \in CounterType
    BY <1>1, RequestFacts, SuccessFacts, Zenon
  <2> HIDE DEF CounterType
  <2>5. statistics' \in CounterType
    BY <1>1, <1>6, <2>4, Zenon DEF Allocate, AllocateTerminates, Track
  <2>6. storage' \in [Blocks -> [Cells -> Words]]
    BY <1>6, <2>1, <2>3, Zenon DEF Allocate, AllocateTerminates, TypeOK
  <2>7. free_head' \in Words /\ free_blocks' \in Int
    BY <1>6, <2>1 DEF Allocate, AllocateTerminates, TypeOK
  <2>8. /\ options' = options /\ dangling' = dangling
        /\ states' \subseteq Blocks /\ held' \subseteq Blocks
    BY <1>6, Zenon DEF Allocate, AllocateTerminates, TypeOK, Ends
  <2> QED BY <2>5, <2>6, <2>7, <2>8, Zenon DEF TypeOK, CounterType
<1> QED BY <1>2, <1>3, <1>4, <1>5, <1>6, StepCases, Zenon

------------------------------------------------------------------------------
(* The list, the state table and the counters.                             *)

PInv == TypeOK /\ PoolInvariant

\* What the invariant says of a running pool whose callers keep no dangling
\* pointers.
LEMMA ListFacts ==
  ASSUME PInv, Running, ~ dangling
  PROVE  /\ \E n, f : Chain(n, f, Blocks \ held)
         /\ free_blocks = BlockCount - Cardinality(held)
         /\ options.diagnostics => states = held
         /\ IsFiniteSet(held) /\ Cardinality(held) \in 0 .. BlockCount
  BY ListChain, BlockFacts, Zenon DEF PInv, PoolInvariant, FreeListExact, TypeOK

LEMMA StepRuns ==
  ASSUME TypeOK, Next
  PROVE  Running /\ options' = options /\ dangling' = dangling
<1>1. CASE Idle
  BY <1>1, Zenon DEF Idle, AllocateExhausted, AllocateUndefined, DeallocateForeign, Destroy,
     DeallocateBreached, Requesting, Ends
<1>2. CASE Allocate \/ AllocateTerminates
  BY <1>2, Zenon DEF Allocate, AllocateTerminates, Requesting, Ends
<1>3. ASSUME NEW p \in Blocks,
             \/ CallerWrites(p) \/ CallerOverruns(p) \/ CallerWritesFreed(p)
             \/ DeallocateTwice(p) \/ Deallocate(p)
      PROVE  Running /\ options' = options /\ dangling' = dangling
  BY <1>3, Zenon DEF CallerWrites, CallerOverruns, CallerWritesFreed, DeallocateTwice, Deallocate, Ends
<1> QED BY <1>1, <1>2, <1>3, StepCases, Zenon

\* The head of the list is a block no caller holds, and is taken off.
LEMMA AllocateList ==
  ASSUME PInv, Allocate, ~ dangling
  PROVE  /\ free_head \notin held
         /\ ListIs(Blocks \ held)'
         /\ Cardinality(held') = Cardinality(held) + 1
         /\ free_blocks' = BlockCount - Cardinality(held')
<1>1. Running
  BY Zenon DEF Allocate, Requesting
<1>2. PICK S : S = Blocks \ held
  BY Zenon
<1>3. PICK n, f : Chain(n, f, S)
  BY <1>1, <1>2, ListFacts, Zenon
<1>4. PICK h \in Blocks : h = free_head
  BY Zenon DEF Allocate
<1>5. /\ free_head' = storage[h]["link"] /\ held' = held \cup {h}
      /\ free_blocks' = free_blocks - 1
      /\ \A b \in Blocks : b # h => storage'[b]["link"] = storage[b]["link"]
  BY <1>4, Zenon DEF Allocate, PInv, TypeOK
<1>6. h \in S /\ \E m, g : Chain(m, g, S \ {h})'
  BY <1>3, <1>4, <1>5, PopChain, Zenon
<1>7. PICK T : T = Blocks \ held'
  BY Zenon
<1>8. T = S \ {h}
  BY <1>2, <1>5, <1>7, Zenon
<1>9. ListIs(T)'
  BY <1>6, <1>8, ListChainNext, Zenon
<1>10. ListIs(Blocks \ held)'
  BY <1>7, <1>9, Zenon DEF ListIs, FreePath
<1>11. Cardinality(held') = Cardinality(held) + 1
  BY <1>1, <1>2, <1>5, <1>6, ListFacts, FS_AddElement, Zenon
<1>12. free_blocks' = BlockCount - Cardinality(held')
  <2>1. /\ free_blocks = BlockCount - Cardinality(held)
        /\ BlockCount \in Int /\ Cardinality(held) \in Int
    BY <1>1, ListFacts, BlockFacts
  <2> QED BY <1>5, <1>11, <2>1
<1> QED BY <1>2, <1>4, <1>6, <1>10, <1>11, <1>12, Zenon

\* The returned block becomes the head of the list.
LEMMA DeallocateList ==
  ASSUME PInv, NEW p \in held, Deallocate(p), ~ dangling
  PROVE  /\ ListIs(Blocks \ held)'
         /\ Cardinality(held') = Cardinality(held) - 1
         /\ free_blocks' = BlockCount - Cardinality(held')
<1>1. Running /\ p \in Blocks /\ held' = held \ {p} /\ free_blocks' = free_blocks + 1
      /\ free_head' = p
  BY Zenon DEF Deallocate, PInv, TypeOK
<1>2. PICK S : S = Blocks \ held
  BY Zenon
<1>3. PICK n, f : Chain(n, f, S)
  BY <1>1, <1>2, ListFacts, Zenon
<1>4. storage[p] \in [Cells -> Words] /\ FreedPattern \in Patterns
  BY <1>1, LayoutFacts, Zenon DEF PInv, Patterns
<1>5. /\ storage'[p]["link"] = free_head
      /\ \A b \in Blocks : b # p => storage'[b]["link"] = storage[b]["link"]
  <2>1. storage' = [storage EXCEPT ![p] = Relinked(storage[p])]
    BY Zenon DEF Deallocate
  <2>2. Relinked(storage[p])["link"] = free_head
    BY <1>4, BlockTypes, Zenon DEF PInv
  <2> QED BY <1>1, <2>1, <2>2, Zenon DEF PInv, TypeOK
<1>6. \E m, g : Chain(m, g, S \cup {p})'
  BY <1>1, <1>2, <1>3, <1>5, PushChain, Zenon
<1>7. PICK T : T = Blocks \ held'
  BY Zenon
<1>8. T = S \cup {p}
  BY <1>1, <1>2, <1>7, Zenon
<1>9. ListIs(T)'
  BY <1>6, <1>8, ListChainNext, Zenon
<1>10. ListIs(Blocks \ held)'
  BY <1>7, <1>9, Zenon DEF ListIs, FreePath
<1>11. Cardinality(held') = Cardinality(held) - 1
  BY <1>1, ListFacts, FS_RemoveElement, Zenon
<1>12. free_blocks' = BlockCount - Cardinality(held')
  <2>1. /\ free_blocks = BlockCount - Cardinality(held)
        /\ BlockCount \in Int /\ Cardinality(held) \in Int
    BY <1>1, ListFacts, BlockFacts
  <2> QED BY <1>1, <1>11, <2>1
<1> QED BY <1>10, <1>11, <1>12, Zenon

\* The list survives a step that leaves the links of its blocks alone.
LEMMA KeepList ==
  ASSUME PInv, Running, ~ dangling, UNCHANGED <<free_head, free_blocks, held>>,
         \A b \in Blocks \ held : storage'[b]["link"] = storage[b]["link"]
  PROVE  ListIs(Blocks \ held)' /\ free_blocks' = BlockCount - Cardinality(held')
<1>1. PICK S : S = Blocks \ held
  BY Zenon
<1>2. PICK n, f : Chain(n, f, S)
  BY <1>1, ListFacts, Zenon
<1>3. Chain(n, f, S)'
  BY <1>1, <1>2, KeepChain, Zenon
<1>4. ListIs(S)'
  BY <1>3, ListChainNext, Zenon
<1>5. S = Blocks \ held'
  BY <1>1, Zenon
<1>6. ListIs(Blocks \ held)'
  BY <1>4, <1>5, Zenon DEF ListIs, FreePath
<1> QED BY <1>6, ListFacts, Zenon

LEMMA NextList == PInv /\ [Next]_vars => FreeListExact'
<1> SUFFICES ASSUME PInv, [Next]_vars, Running', ~ dangling'
             PROVE  /\ ListIs(Blocks \ held)'
                    /\ free_blocks' = BlockCount - Cardinality(held')
                    /\ options'.diagnostics => states' = held'
  BY Zenon DEF FreeListExact
<1>1. CASE UNCHANGED vars
  <2>1. Running /\ ~ dangling
    BY <1>1, Zenon DEF vars, Running
  <2> QED BY <1>1, <2>1, KeepList, ListFacts, Zenon DEF vars
<1>2. CASE Next
  <2>1. Running /\ ~ dangling /\ options' = options /\ TypeOK
    BY <1>2, StepRuns DEF PInv
  <2>2. options.diagnostics => states = held
    BY <2>1, ListFacts, Zenon
  <2>3. CASE Idle
    BY <2>1, <2>2, <2>3, IdleEffect, KeepList, Zenon
  <2>4. CASE Allocate
    <3>1. options.diagnostics => states' = held'
      BY <2>2, <2>4, Zenon DEF Allocate
    <3> QED BY <2>1, <2>4, <3>1, AllocateList, Zenon
  <2>5. CASE AllocateTerminates
    BY <2>5, Zenon DEF AllocateTerminates, Running, Ends
  <2>6. ASSUME NEW p \in Blocks,
               \/ p \in held /\ (CallerWrites(p) \/ CallerOverruns(p) \/ DeallocateTwice(p))
               \/ p \notin held /\ Contained /\ DeallocateTwice(p)
        PROVE  /\ ListIs(Blocks \ held)' /\ free_blocks' = BlockCount - Cardinality(held')
               /\ options'.diagnostics => states' = held'
    <3>1. PICK w \in [Cells -> Words] :
            /\ Writes(p, w)
            /\ DeallocateTwice(p) /\ (~ options.poison \/ options.guards)
                 => w["link"] = storage[p]["link"]
      BY <2>1, <2>6, WriteEffect, Zenon
    <3>2. p \in held \/ w["link"] = storage[p]["link"]
      BY <2>6, <3>1, Zenon DEF Contained
    <3>3. /\ \A b \in Blocks \ held : storage'[b]["link"] = storage[b]["link"]
          /\ UNCHANGED <<free_head, free_blocks, held, states>>
      BY <2>1, <3>1, <3>2, Zenon DEF Writes, TypeOK
    <3> QED BY <2>1, <2>2, <3>3, KeepList, Zenon
  <2>7. ASSUME NEW p \in held, Deallocate(p)
        PROVE  /\ ListIs(Blocks \ held)' /\ free_blocks' = BlockCount - Cardinality(held')
               /\ options'.diagnostics => states' = held'
    <3>1. options.diagnostics => states' = held'
      BY <2>2, <2>7, Zenon DEF Deallocate
    <3> QED BY <2>1, <2>7, <3>1, DeallocateList, Zenon
  <2>8. ASSUME NEW p \in Blocks, p \notin held, Contained, Deallocate(p) PROVE FALSE
    BY <2>2, <2>8, Zenon DEF Contained, Deallocate, MarkFree
  <2> QED BY <1>2, <2>1, <2>3, <2>4, <2>5, <2>6, <2>7, <2>8, StepCases, Zenon
<1> QED BY <1>1, <1>2, Zenon

\* The state table marks exactly the blocks callers hold, dangling pointers or
\* not.
LEMMA NextTable ==
  ASSUME PInv, [Next]_vars
  PROVE  /\ options'.diagnostics => states' = held'
         /\ dangling' => options'.diagnostics /\ ~ options'.statistics
<1>1. /\ options.diagnostics => states = held
      /\ dangling => options.diagnostics /\ ~ options.statistics
      /\ TypeOK
  BY Zenon DEF PInv, PoolInvariant
<1>2. CASE UNCHANGED vars
  BY <1>1, <1>2, Zenon DEF vars
<1>3. CASE Next
  <2>1. options' = options /\ dangling' = dangling
    BY <1>1, <1>3, StepRuns, Zenon
  <2>2. CASE Idle
    BY <1>1, <2>1, <2>2, IdleEffect, Zenon
  <2>3. CASE Allocate \/ AllocateTerminates
    BY <1>1, <2>1, <2>3, Zenon DEF Allocate, AllocateTerminates
  <2>4. ASSUME NEW p \in Blocks,
               CallerWrites(p) \/ CallerOverruns(p) \/ CallerWritesFreed(p) \/ DeallocateTwice(p)
        PROVE  states' = states /\ held' = held
    BY <1>1, <2>4, WriteEffect, Zenon DEF Writes
  <2>5. ASSUME NEW p \in Blocks, Deallocate(p)
        PROVE  options'.diagnostics => states' = held'
    BY <1>1, <2>1, <2>5, Zenon DEF Deallocate
  <2> QED BY <1>1, <1>3, <2>1, <2>2, <2>3, <2>4, <2>5, StepCases, Zenon
<1> QED BY <1>2, <1>3, Zenon

\* What StatisticsExact says of counters s of a pool with k blocks in use.
Balanced(s, k) ==
    /\ s.current = k
    /\ s.current = s.successes - s.frees
    /\ s.peak \in s.current .. BlockCount
    /\ s.bytes = Min(MaxSize, s.requests * BlockBytes)

LEMMA RequestBytes ==
  ASSUME NEW s \in CounterType, s.bytes = Min(MaxSize, s.requests * BlockBytes)
  PROVE  RecordRequest(s).bytes = Min(MaxSize, RecordRequest(s).requests * BlockBytes)
<1>1. /\ s.bytes \in Int /\ s.requests \in Int /\ BlockBytes \in Int /\ MaxSize \in Int
      /\ BlockBytes > 0
  BY PoolAssumption DEF CounterType
<1>2. PICK total \in Int : total = s.requests * BlockBytes
  BY <1>1
<1>3. (s.requests + 1) * BlockBytes = total + BlockBytes
  BY <1>1, <1>2
<1>4. RecordRequest(s).bytes = Min(MaxSize, total + BlockBytes)
  <2>1. PICK b \in Int : b = s.bytes /\ b = Min(MaxSize, total)
    BY <1>1, <1>2, Zenon
  <2>2. RecordRequest(s).bytes = IF b > MaxSize - BlockBytes THEN MaxSize ELSE b + BlockBytes
    BY <2>1, RequestFacts, Zenon
  <2>3. (IF b > MaxSize - BlockBytes THEN MaxSize ELSE b + BlockBytes)
          = Min(MaxSize, total + BlockBytes)
    BY <1>1, <2>1 DEF Min
  <2> QED BY <2>2, <2>3, Zenon
<1> QED BY <1>3, <1>4, RequestFacts, Zenon

LEMMA NextStatistics == PInv /\ [Next]_vars => StatisticsExact'
<1> SUFFICES ASSUME PInv, [Next]_vars, options'.statistics, Running'
             PROVE  /\ Balanced(statistics', Cardinality(held'))
                    /\ statistics'.requests = statistics'.successes + statistics'.failures
  BY Zenon DEF StatisticsExact, Balanced
<1>1. Running /\ options' = options /\ options.statistics /\ ~ dangling /\ TypeOK
  <2>1. Running /\ options' = options
    BY StepRuns, Zenon DEF PInv, vars, Running
  <2> QED BY <2>1, Zenon DEF PInv, PoolInvariant
<1>2. /\ Balanced(statistics, Cardinality(held))
      /\ statistics.requests = statistics.successes + statistics.failures
  BY <1>1, Zenon DEF PInv, PoolInvariant, StatisticsExact, Balanced
<1>3. statistics \in CounterType /\ Cardinality(held) \in 0 .. BlockCount /\ BlockCount \in Nat
  BY <1>1, ListFacts, BlockFacts, Zenon DEF TypeOK, CounterType
<1>4. PICK r \in CounterType : r = RecordRequest(statistics)
  BY <1>3, RequestFacts, Zenon
<1>5. /\ Balanced(r, Cardinality(held))
      /\ r.requests = r.successes + r.failures + 1
  <2>1. r.bytes = Min(MaxSize, r.requests * BlockBytes)
    BY <1>2, <1>3, <1>4, RequestBytes, Zenon DEF Balanced
  <2>2. /\ r.requests = statistics.requests + 1 /\ r.successes = statistics.successes
        /\ r.failures = statistics.failures /\ r.frees = statistics.frees
        /\ r.current = statistics.current /\ r.peak = statistics.peak
        /\ statistics.successes \in Int /\ statistics.failures \in Int
    BY <1>3, <1>4, RequestFacts, Zenon DEF CounterType
  <2> QED BY <1>2, <2>1, <2>2, Zenon DEF Balanced
<1>6. CASE held' = held /\ statistics' = statistics
  BY <1>2, <1>6, Zenon
<1>7. CASE held' = held /\ statistics' = RecordFailure(RecordRequest(statistics))
  <2>1. /\ statistics'.requests = r.requests /\ statistics'.bytes = r.bytes
        /\ statistics'.successes = r.successes /\ statistics'.failures = r.failures + 1
        /\ statistics'.frees = r.frees /\ statistics'.current = r.current
        /\ statistics'.peak = r.peak /\ r.successes \in Int /\ r.failures \in Int
    BY <1>4, <1>7, FailureFacts, Zenon DEF CounterType
  <2>2. Balanced(statistics', Cardinality(held'))
    BY <1>5, <1>7, <2>1, Zenon DEF Balanced
  <2> QED BY <1>5, <2>1, <2>2
<1>8. CASE Allocate
  <2>1. Cardinality(held') = Cardinality(held) + 1
    BY <1>1, <1>8, AllocateList, Zenon
  <2>2. Cardinality(held') <= BlockCount
    <3>1. held \subseteq Blocks /\ free_head \in Blocks /\ held' = held \cup {free_head}
      BY <1>1, <1>8, Zenon DEF Allocate, TypeOK
    <3>2. held' \in SUBSET Blocks
      BY <3>1, Zenon
    <3> QED BY <3>2, BlockFacts
  <2>3. statistics' = RecordSuccess(r)
    BY <1>1, <1>4, <1>8, Zenon DEF Allocate, Track
  <2>4. /\ statistics'.requests = r.requests /\ statistics'.bytes = r.bytes
        /\ statistics'.successes = r.successes + 1 /\ statistics'.failures = r.failures
        /\ statistics'.frees = r.frees /\ statistics'.current = r.current + 1
        /\ statistics'.peak = Max(r.peak, r.current + 1)
        /\ r.successes \in Int /\ r.failures \in Int /\ r.frees \in Int
        /\ r.peak \in Int /\ r.current \in Int
    BY <2>3, SuccessFacts, Zenon DEF CounterType
  <2>5. /\ r.current = Cardinality(held) /\ r.current = r.successes - r.frees
        /\ r.peak \in r.current .. BlockCount
        /\ r.bytes = Min(MaxSize, r.requests * BlockBytes)
    BY <1>5, Zenon DEF Balanced
  <2>6. statistics'.peak \in statistics'.current .. BlockCount
    BY <1>3, <2>1, <2>2, <2>4, <2>5 DEF Max
  <2>7. statistics'.current = statistics'.successes - statistics'.frees
    BY <2>4, <2>5
  <2>8. statistics'.requests = statistics'.successes + statistics'.failures
    BY <1>5, <2>4
  <2> QED BY <2>1, <2>4, <2>5, <2>6, <2>7, <2>8, Zenon DEF Balanced
<1>9. ASSUME NEW p \in held, Deallocate(p)
      PROVE  /\ Balanced(statistics', Cardinality(held'))
             /\ statistics'.requests = statistics'.successes + statistics'.failures
  <2>1. Cardinality(held') = Cardinality(held) - 1
    BY <1>1, <1>9, DeallocateList, Zenon
  <2>2. statistics' = RecordDeallocation(statistics)
    BY <1>1, <1>9, Zenon DEF Deallocate, Track
  <2>3. PICK s \in CounterType : s = statistics
    BY <1>3, Zenon
  <2>4. /\ statistics'.requests = s.requests /\ statistics'.bytes = s.bytes
        /\ statistics'.successes = s.successes /\ statistics'.failures = s.failures
        /\ statistics'.frees = s.frees + 1 /\ statistics'.current = s.current - 1
        /\ statistics'.peak = s.peak
        /\ s.successes \in Int /\ s.frees \in Int /\ s.peak \in Int /\ s.current \in Int
    BY <2>2, <2>3, DeallocationFacts, Zenon DEF CounterType
  <2>5. /\ s.current = Cardinality(held) /\ s.current = s.successes - s.frees
        /\ s.peak \in s.current .. BlockCount
        /\ s.bytes = Min(MaxSize, s.requests * BlockBytes)
        /\ s.requests = s.successes + s.failures
    BY <1>2, <2>3, Zenon DEF Balanced
  <2>6. statistics'.peak \in statistics'.current .. BlockCount
    BY <1>3, <2>4, <2>5
  <2>7. statistics'.current = statistics'.successes - statistics'.frees
    BY <2>4, <2>5
  <2> QED BY <2>1, <2>4, <2>5, <2>6, <2>7, Zenon DEF Balanced
<1>10. CASE UNCHANGED vars
  BY <1>6, <1>10, Zenon DEF vars
<1>11. CASE Idle
  BY <1>1, <1>6, <1>7, <1>11, IdleEffect, Zenon
<1>12. CASE AllocateTerminates
  BY <1>12, Zenon DEF AllocateTerminates, Running, Ends
<1>13. ASSUME NEW p \in Blocks,
              CallerWrites(p) \/ CallerOverruns(p) \/ CallerWritesFreed(p) \/ DeallocateTwice(p)
       PROVE  held' = held /\ statistics' = statistics
  BY <1>1, <1>13, WriteEffect, Zenon DEF Writes
<1>14. ASSUME NEW p \in Blocks, p \notin held, Contained, Deallocate(p) PROVE FALSE
  BY <1>1, <1>14, ListFacts, Zenon DEF Contained, Deallocate, MarkFree
<1>15. CASE Next
  BY <1>1, <1>6, <1>8, <1>9, <1>11, <1>12, <1>13, <1>14, <1>15, StepCases, Zenon
<1> QED BY <1>10, <1>15, Zenon

LEMMA InitPool == CallersInit => PInv
<1> SUFFICES ASSUME CallersInit PROVE PInv
  BY Zenon
<1> USE DEF CallersInit, Init
<1>1. BlockCount \in Nat /\ BlockCount > 0 /\ 0 \in Blocks
  BY PoolAssumption DEF Blocks
<1>2. \A p \in Blocks : (IF p + 1 < BlockCount THEN p + 1 ELSE Null) \in Words
  BY <1>1 DEF Blocks, Words
<1>3. TypeOK
  <2>1. storage \in [Blocks -> [Cells -> Words]]
    BY <1>2 DEF Words, Patterns
  <2> QED BY <1>1, <2>1 DEF TypeOK, Words
<1>4. \A p \in Blocks : storage[p]["link"] = IF p + 1 < BlockCount THEN p + 1 ELSE Null
  BY DEF Cells
<1>5. ListIs(Blocks \ held)
  <2> DEFINE f == [i \in 1 .. BlockCount |-> i - 1]
  <2>1. \A i \in 1 .. BlockCount : f[i] = i - 1 /\ f[i] \in Blocks
    BY <1>1 DEF Blocks
  <2>2. f \in [1 .. BlockCount -> Blocks] /\ f[1] = 0
    BY <1>1, <2>1
  <2>3. ASSUME NEW i \in 1 .. BlockCount
        PROVE  storage[f[i]]["link"] = IF i = BlockCount THEN Null ELSE f[i + 1]
    <3>1. storage[f[i]]["link"] = IF (i - 1) + 1 < BlockCount THEN (i - 1) + 1 ELSE Null
      BY <1>4, <2>1, Zenon
    <3>2. i # BlockCount => i + 1 \in 1 .. BlockCount /\ f[i + 1] = i
      BY <1>1
    <3> QED BY <1>1, <3>1, <3>2
  <2>4. {f[i] : i \in 1 .. BlockCount} = Blocks
    <3>1. \A b \in Blocks : b + 1 \in 1 .. BlockCount /\ f[b + 1] = b
      BY <1>1 DEF Blocks
    <3> HIDE DEF f
    <3> QED BY <2>1, <3>1
  <2>5. \A i, j \in 1 .. BlockCount : f[i] = f[j] => i = j
    BY <2>1
  <2> HIDE DEF f
  <2>6. free_head = 0
    BY Zenon
  <2> HIDE DEF CallersInit, Init
  <2>7. Chain(BlockCount, f, Blocks)
    BY <2>6, <1>1, <2>2, <2>3, <2>4, <2>5 DEF Chain
  <2>8. Blocks \ held = Blocks
    BY Zenon DEF CallersInit, Init
  <2> QED BY <2>7, <2>8, ListChain, Zenon
<1>6. Cardinality(held) = 0
  BY FS_EmptySet, Zenon
<1>7. FreeListExact
  BY <1>1, <1>5, <1>6 DEF FreeListExact
<1>8. StatisticsExact
  <2>1. 0 = Min(MaxSize, 0 * BlockBytes)
    BY PoolAssumption DEF Min
  <2> QED BY <1>1, <1>6, <2>1 DEF StatisticsExact
<1> QED BY <1>3, <1>7, <1>8, Zenon DEF PInv, PoolInvariant

LEMMA NextPool == PInv /\ [Next]_vars => PInv'
  BY NextType, NextList, NextTable, NextStatistics, Zenon DEF PInv, PoolInvariant

\* The invariant behind the properties: unless callers write through dangling
\* pointers the links lead through the free blocks once each, the diagnostic
\* table marks the blocks that were handed out, and the counters count them.
THEOREM PoolInvariantHolds == Spec => [](TypeOK /\ PoolInvariant)
<1>1. PInv => TypeOK /\ PoolInvariant
  BY Zenon DEF PInv
<1> QED BY <1>1, InitPool, NextPool, PTL DEF Spec

\* Any number of blocks, any combination of options, any sequence of calls: the
\* free list holds exactly the blocks that no caller holds.
THEOREM FreeListExactHolds == Spec => []FreeListExact
<1>1. TypeOK /\ PoolInvariant => FreeListExact
  BY Zenon DEF PoolInvariant
<1> QED BY <1>1, PoolInvariantHolds, PTL

\* allocate and deallocate count every call once, whether it succeeds or fails,
\* and the gauges and their peak follow the blocks in use.
THEOREM StatisticsExactHolds == Spec => []StatisticsExact
<1>1. TypeOK /\ PoolInvariant => StatisticsExact
  BY Zenon DEF PoolInvariant
<1> QED BY <1>1, PoolInvariantHolds, PTL

\* allocate never hands out a block a caller holds: the list has none of them,
\* and where it is corrupted the state table refuses.
THEOREM NeverHandedOutTwiceHolds == Spec => NeverHandedOutTwice
<1>1. PInv /\ [Next]_vars =>
        [call'.op = "allocate" /\ call'.result = "ok" /\ call' # call => call'.ptr \notin held]_vars
  <2> SUFFICES ASSUME PInv, [Next]_vars,
                      call'.op = "allocate", call'.result = "ok", call' # call
               PROVE  call'.ptr \notin held
    BY Zenon
  <2>1. CASE Allocate
    <3>1. call'.ptr = free_head
      BY <2>1, Zenon DEF Allocate, Ends
    <3>2. CASE options.diagnostics
      BY <2>1, <3>1, <3>2, Zenon DEF Allocate, TryMarkAllocated, PInv, PoolInvariant
    <3>3. CASE ~ options.diagnostics
      <4>1. ~ dangling
        BY <3>3, Zenon DEF PInv, PoolInvariant
      <4> QED BY <2>1, <3>1, <4>1, AllocateList, Zenon
    <3> QED BY <3>2, <3>3, Zenon
  <2>2. CASE UNCHANGED vars
    <3>1. call' = call
      BY <2>2, Zenon DEF vars
    <3> QED BY <3>1, Zenon
  <2>3. CASE AllocateExhausted \/ AllocateUndefined \/ AllocateTerminates
    <3>1. call'.result \in {"null", "undefined", "terminate"}
      BY <2>3 DEF AllocateExhausted, AllocateUndefined, AllocateTerminates, Ends
    <3> QED BY <3>1, Zenon
  <2>4. CASE DeallocateForeign \/ Destroy \/ \E p \in Blocks : DeallocateBreached(p)
    <3>1. call'.op \in {"deallocate", "destroy"}
      BY <2>4 DEF DeallocateForeign, Destroy, DeallocateBreached, Ends
    <3> QED BY <3>1, Zenon
  <2>5. ASSUME NEW p \in Blocks,
               CallerWrites(p) \/ CallerOverruns(p) \/ CallerWritesFreed(p)
        PROVE  FALSE
    BY <2>5 DEF CallerWrites, CallerOverruns, CallerWritesFreed, Ends
  <2>6. ASSUME NEW p \in Blocks, DeallocateTwice(p) \/ Deallocate(p) PROVE FALSE
    BY <2>6 DEF DeallocateTwice, Deallocate, Ends
  <2>7. TypeOK
    BY Zenon DEF PInv
  <2> QED BY <2>1, <2>2, <2>3, <2>4, <2>5, <2>6, <2>7, StepCases, Zenon DEF Idle
<1>2. TypeOK /\ PoolInvariant => PInv
  BY Zenon DEF PInv
<1> QED BY <1>1, <1>2, PoolInvariantHolds, PTL DEF Spec, NeverHandedOutTwice

------------------------------------------------------------------------------
(* What validate_integrity decides.                                        *)

\* A walk through blocks that reaches nullptr after k of them stays there.
LEMMA WalkEnds ==
  ASSUME TypeOK, NEW k \in 0 .. BlockCount, FreeNodes[k] = Null,
         \A j \in 0 .. k - 1 : FreeNodes[j] \in Blocks
  PROVE  /\ \A i \in 0 .. BlockCount : FreeNodes[i] \in Blocks \cup {Null}
         /\ {i \in 0 .. BlockCount : FreeNodes[i] \in Blocks} = 0 .. k - 1
         /\ Cardinality(0 .. k - 1) = k
<1>1. BlockCount \in Nat /\ k \in Nat /\ Null \notin Blocks
  BY BlockFacts
<1> DEFINE T == {n \in Nat : k + n <= BlockCount => FreeNodes[k + n] = Null}
<1>2. 0 \in T
  BY <1>1
<1>3. ASSUME NEW n \in Nat, n \in T PROVE n + 1 \in T
  <2> SUFFICES ASSUME k + (n + 1) <= BlockCount PROVE FreeNodes[k + (n + 1)] = Null
    OBVIOUS
  <2>1. k + n \in 0 .. BlockCount - 1 /\ FreeNodes[k + n] = Null /\ k + (n + 1) = (k + n) + 1
    BY <1>1, <1>3
  <2>2. FreeNodes[(k + n) + 1] = LinkOf(Null)
    BY <2>1, WalkFacts, Zenon
  <2> QED BY <1>1, <2>1, <2>2, Zenon DEF LinkOf
<1>4. Nat \subseteq T
  <2> HIDE DEF T
  <2> QED BY <1>2, <1>3, NatSetInduction, Zenon
<1>5. ASSUME NEW i \in 0 .. BlockCount, i >= k PROVE FreeNodes[i] = Null
  <2>1. i - k \in T /\ k + (i - k) = i
    BY <1>1, <1>4, <1>5
  <2> QED BY <2>1, <1>1
<1>6. \A i \in 0 .. BlockCount : IF i < k THEN FreeNodes[i] \in Blocks ELSE FreeNodes[i] = Null
  BY <1>1, <1>5
<1>7. {i \in 0 .. BlockCount : FreeNodes[i] \in Blocks} = 0 .. k - 1
  BY <1>1, <1>6
<1>8. Cardinality(0 .. k - 1) = k
  BY <1>1, FS_Interval
<1> QED BY <1>6, <1>7, <1>8, Zenon

\* The walk over a well-formed list visits its nodes in order.
LEMMA WalkOfChain ==
  ASSUME TypeOK, NEW n \in 0 .. BlockCount, NEW f, NEW S, Chain(n, f, S)
  PROVE  FreeNodes[n] = Null /\ \A i \in 0 .. n - 1 : FreeNodes[i] = f[i + 1]
<1>1. n \in Nat /\ BlockCount \in Nat /\ f \in [1 .. n -> Blocks]
  BY BlockFacts, Zenon DEF Chain
<1> DEFINE T == {i \in Nat : i <= n => FreeNodes[i] = IF i = n THEN Null ELSE f[i + 1]}
<1>2. 0 \in T
  BY <1>1, WalkFacts DEF Chain
<1>3. ASSUME NEW i \in Nat, i \in T PROVE i + 1 \in T
  <2> SUFFICES ASSUME i + 1 <= n
               PROVE  FreeNodes[i + 1] = IF i + 1 = n THEN Null ELSE f[(i + 1) + 1]
    OBVIOUS
  <2>1. i + 1 \in 1 .. n /\ i \in 0 .. BlockCount - 1 /\ FreeNodes[i] = f[i + 1]
    BY <1>1, <1>3
  <2>2. FreeNodes[i + 1] = storage[f[i + 1]]["link"]
    BY <1>1, <2>1, WalkFacts, Zenon DEF LinkOf
  <2> QED BY <2>1, <2>2, Zenon DEF Chain
<1>4. Nat \subseteq T
  <2> HIDE DEF T
  <2> QED BY <1>2, <1>3, NatSetInduction, Zenon
<1>5. n \in T /\ \A i \in 0 .. n - 1 : i \in T /\ i < n
  BY <1>1, <1>4
<1> QED BY <1>1, <1>5

\* A walk that does not stay among blocks leaves them for the first time.
LEMMA WalkLeaves ==
  ASSUME TypeOK, NEW i \in 0 .. BlockCount, FreeNodes[i] \notin Blocks
  PROVE  \E k \in 0 .. BlockCount :
            FreeNodes[k] \notin Blocks /\ \A j \in 0 .. k - 1 : FreeNodes[j] \in Blocks
<1> DEFINE T == {n \in Nat : \A j \in 0 .. n : j <= BlockCount => FreeNodes[j] \in Blocks}
<1>1. BlockCount \in Nat /\ i \in Nat
  BY BlockFacts
<1>2. i \notin T
  BY <1>1
<1>3. \/ 0 \notin T
      \/ \E n \in Nat : n \in T /\ n + 1 \notin T
  <2> HIDE DEF T
  <2> QED BY <1>1, <1>2, NatSetInduction, Zenon
<1>4. CASE 0 \notin T
  <2>1. FreeNodes[0] \notin Blocks
    BY <1>4
  <2> QED BY <1>1, <2>1
<1>5. ASSUME NEW n \in Nat, n \in T, n + 1 \notin T
      PROVE  /\ n + 1 \in 0 .. BlockCount /\ FreeNodes[n + 1] \notin Blocks
             /\ \A j \in 0 .. (n + 1) - 1 : FreeNodes[j] \in Blocks
  <2>1. PICK j \in 0 .. n + 1 : j <= BlockCount /\ FreeNodes[j] \notin Blocks
    BY <1>5
  <2>2. j = n + 1
    BY <1>5, <2>1
  <2> QED BY <1>1, <1>5, <2>1, <2>2
<1> HIDE DEF T
<1> QED BY <1>3, <1>4, <1>5, Zenon

\* Whatever the words of the slab: validate_integrity passes exactly when the
\* list holds the blocks marked free, each once, and the counter counts them.
LEMMA IntegrityDecides ==
  ASSUME TypeOK
  PROVE  IntegrityHolds <=>
           ListIs(Blocks \ states) /\ free_blocks = Cardinality(Blocks \ states)
<1> DEFINE S == Blocks \ states
           visited == {i \in 0 .. BlockCount : FreeNodes[i] \in Blocks}
<1>1. IntegrityHolds <=>
        /\ \A i \in 0 .. BlockCount : FreeNodes[i] \in Blocks \cup {Null}
        /\ Cardinality(visited) <= BlockCount
        /\ Cardinality(visited) = free_blocks
        /\ \A i, j \in visited : FreeNodes[i] = FreeNodes[j] => i = j
        /\ {FreeNodes[i] : i \in visited} = S
  BY Zenon DEF IntegrityHolds
<1>2. BlockCount \in Nat
  BY BlockFacts, Zenon
<1>3. ASSUME IntegrityHolds PROVE ListIs(S) /\ free_blocks = Cardinality(S)
  <2>1. \E i \in 0 .. BlockCount : FreeNodes[i] \notin Blocks
    <3> SUFFICES ASSUME visited = 0 .. BlockCount PROVE FALSE
      BY Zenon
    <3>1. Cardinality(0 .. BlockCount) = BlockCount + 1
      BY <1>2, FS_Interval
    <3>2. Cardinality(visited) <= BlockCount
      BY <1>1, <1>3, Zenon
    <3> HIDE DEF visited
    <3> QED BY <1>2, <3>1, <3>2
  <2>2. PICK k \in 0 .. BlockCount :
          FreeNodes[k] \notin Blocks /\ \A j \in 0 .. k - 1 : FreeNodes[j] \in Blocks
    BY <2>1, WalkLeaves, Zenon
  <2>3. FreeNodes[k] = Null
    BY <1>1, <1>3, <2>2, Zenon
  <2>4. visited = 0 .. k - 1 /\ Cardinality(visited) = k
    BY <2>2, <2>3, WalkEnds, Zenon
  <2> HIDE DEF visited
  <2> DEFINE f == [i \in 1 .. k |-> FreeNodes[i - 1]]
  <2>5. k \in Nat /\ \A i \in 1 .. k : i - 1 \in 0 .. k - 1 /\ f[i] = FreeNodes[i - 1]
    BY <1>2
  <2>6. f \in [1 .. k -> Blocks]
    BY <2>2, <2>5, Zenon
  <2>7. free_head = IF k = 0 THEN Null ELSE f[1]
    BY <2>3, <2>5, WalkFacts
  <2>8. ASSUME NEW i \in 1 .. k
        PROVE  storage[f[i]]["link"] = IF i = k THEN Null ELSE f[i + 1]
    <3>1. i - 1 \in 0 .. BlockCount - 1 /\ (i - 1) + 1 = i /\ i - 1 \in 0 .. k - 1
      BY <1>2
    <3>2. FreeNodes[(i - 1) + 1] = storage[FreeNodes[i - 1]]["link"]
      BY <2>2, <3>1, WalkFacts, Zenon DEF LinkOf
    <3>3. storage[f[i]]["link"] = FreeNodes[i]
      BY <2>5, <3>1, <3>2, Zenon
    <3>4. i # k => f[i + 1] = FreeNodes[i]
      BY <1>2
    <3> QED BY <2>3, <3>3, <3>4, Zenon
  <2>9. ASSUME NEW i \in 1 .. k, NEW j \in 1 .. k, f[i] = f[j] PROVE i = j
    <3>1. i - 1 \in visited /\ j - 1 \in visited /\ FreeNodes[i - 1] = FreeNodes[j - 1]
      BY <2>4, <2>5, <2>9, Zenon
    <3>2. i - 1 = j - 1
      BY <1>1, <1>3, <3>1, Zenon
    <3> QED BY <3>2
  <2>10. {f[i] : i \in 1 .. k} = S
    <3>1. {FreeNodes[i] : i \in 0 .. k - 1} = S
      BY <1>1, <1>3, <2>4, Zenon
    <3>2. ASSUME NEW i \in 0 .. k - 1 PROVE i + 1 \in 1 .. k /\ f[i + 1] = FreeNodes[i]
      BY <2>5
    <3> HIDE DEF f, S
    <3> QED BY <2>5, <3>1, <3>2
  <2> HIDE DEF f
  <2>11. Chain(k, f, S)
    BY <2>5, <2>6, <2>7, <2>8, <2>9, <2>10, Zenon DEF Chain
  <2> QED BY <1>1, <1>3, <2>4, <2>11, ListChain, ChainCount, Zenon
<1>4. ASSUME ListIs(S), free_blocks = Cardinality(S) PROVE IntegrityHolds
  <2>1. PICK n, f : Chain(n, f, S)
    BY <1>4, ListChain, Zenon
  <2>2. n \in 0 .. BlockCount /\ Cardinality(S) = n
    BY <2>1, ChainCount, BlockFacts, Zenon
  <2>3. FreeNodes[n] = Null /\ \A i \in 0 .. n - 1 : FreeNodes[i] = f[i + 1]
    BY <2>1, <2>2, WalkOfChain, Zenon
  <2>4. n \in Nat /\ f \in [1 .. n -> Blocks] /\ \A i \in 0 .. n - 1 : i + 1 \in 1 .. n
    BY <2>1 DEF Chain
  <2>5. \A i \in 0 .. n - 1 : FreeNodes[i] \in Blocks
    BY <2>3, <2>4, Zenon
  <2>6. /\ \A i \in 0 .. BlockCount : FreeNodes[i] \in Blocks \cup {Null}
        /\ visited = 0 .. n - 1 /\ Cardinality(visited) = n
    BY <2>2, <2>3, <2>5, WalkEnds, Zenon
  <2> HIDE DEF visited
  <2>7. ASSUME NEW i \in visited, NEW j \in visited, FreeNodes[i] = FreeNodes[j] PROVE i = j
    <3>1. i + 1 \in 1 .. n /\ j + 1 \in 1 .. n /\ f[i + 1] = f[j + 1]
      BY <2>3, <2>4, <2>6, <2>7, Zenon
    <3>2. i + 1 = j + 1
      BY <2>1, <3>1, Zenon DEF Chain
    <3> QED BY <2>6, <3>2
  <2>8. {FreeNodes[i] : i \in visited} = S
    <3>1. {f[i] : i \in 1 .. n} = S
      BY <2>1, Zenon DEF Chain
    <3>2. ASSUME NEW i \in 1 .. n PROVE i - 1 \in visited /\ FreeNodes[i - 1] = f[i]
      <4>1. i - 1 \in 0 .. n - 1 /\ (i - 1) + 1 = i
        BY <2>4
      <4> QED BY <2>3, <2>6, <4>1, Zenon
    <3>3. ASSUME NEW i \in visited PROVE i + 1 \in 1 .. n /\ FreeNodes[i] = f[i + 1]
      BY <2>3, <2>4, <2>6, Zenon
    <3> HIDE DEF S
    <3> QED BY <3>1, <3>2, <3>3
  <2> QED BY <1>1, <1>2, <1>4, <2>2, <2>6, <2>7, <2>8
<1> QED BY <1>3, <1>4, Zenon

\* Every corruption of the free list that callers can cause is found, and no
\* intact list is reported.
THEOREM IntegrityCheckExactHolds == Spec => []IntegrityCheckExact
<1>1. TypeOK => IntegrityCheckExact
  BY IntegrityDecides, Zenon DEF IntegrityCheckExact
<1> QED BY <1>1, PoolInvariantHolds, PTL

------------------------------------------------------------------------------
(***************************************************************************)
(* ObjectPool, for any number of blocks, any depth of nested calls and any *)
(* number of objects: the lifetimes of the objects and the blocks they     *)
(* live in agree.                                                          *)
(***************************************************************************)
\* The inductive invariant.
ObjectInvariant == ObjectTypeOK /\ OneCallPerBlock /\ LostBlocksAreBreached /\ OneOwner

Frames == [op : {"create", "make_unique", "destroy", "delete"}, block : Slots]

LEMMA ObjectsInit == ObjectInit => ObjectInvariant
  BY DEF ObjectInit, ObjectInvariant, ObjectTypeOK, OneCallPerBlock, FramesMatch, LostBlocksAreBreached, OneOwner, Owners

\* The frames below the one that is entered or left do not change.
LEMMA EnterFrames ==
  ASSUME ObjectTypeOK, NEW frame \in Frames, frames' = Append(frames, frame)
  PROVE  /\ frames' \in Seq(Frames) /\ DOMAIN frames' = DOMAIN frames \cup {Len(frames) + 1}
         /\ Len(frames) + 1 \notin DOMAIN frames
         /\ \A i \in DOMAIN frames : frames'[i] = frames[i]
         /\ frames'[Len(frames) + 1] = frame
  BY DEF ObjectTypeOK, Frames

LEMMA FrontOf ==
  ASSUME NEW S, NEW s \in Seq(S), s # <<>>, NEW front, front = SubSeq(s, 1, Len(s) - 1)
  PROVE  /\ front \in Seq(S) /\ DOMAIN front = DOMAIN s \ {Len(s)}
         /\ Len(s) \in DOMAIN s
         /\ \A i \in DOMAIN front : front[i] = s[i]
         /\ s[Len(s)] \in S
  <1>1. Len(s) \in Nat /\ Len(s) # 0 /\ DOMAIN s = 1 .. Len(s) /\ \A i \in 1 .. Len(s) : s[i] \in S
    BY LenProperties, ElementOfSeq, EmptySeq, Zenon
  <1> DEFINE n == Len(s) - 1
  <1>2. n \in Int /\ 1 \in Int /\ \A i \in 1 .. n : s[i] \in S
    BY <1>1
  <1>3. /\ SubSeq(s, 1, n) \in Seq(S)
        /\ Len(SubSeq(s, 1, n)) = IF 1 <= n THEN n - 1 + 1 ELSE 0
        /\ \A i \in 1 .. n - 1 + 1 : SubSeq(s, 1, n)[i] = s[1 + i - 1]
    <2> HIDE DEF n
    <2> QED BY <1>2, SubSeqProperties
  <1>4. front \in Seq(S) /\ Len(front) = n /\ \A i \in 1 .. n : front[i] = s[i]
    BY <1>1, <1>3
  <1>5. DOMAIN front = 1 .. n
    BY <1>4, LenProperties, Zenon
  <1>6. QED
    BY <1>1, <1>4, <1>5

LEMMA LeaveFrames ==
  ASSUME ObjectTypeOK, frames # <<>>, Leave
  PROVE  /\ frames' \in Seq(Frames) /\ DOMAIN frames' = DOMAIN frames \ {Len(frames)}
         /\ Len(frames) \in DOMAIN frames
         /\ \A i \in DOMAIN frames' : frames'[i] = frames[i]
         /\ Top = frames[Len(frames)] /\ Top \in Frames
  <1>1. frames \in Seq(Frames)
    BY Zenon DEF ObjectTypeOK, Frames
  <1>2. frames' = SubSeq(frames, 1, Len(frames) - 1)
    BY Zenon DEF Leave
  <1>3. QED
    BY <1>1, <1>2, FrontOf DEF Top

LEMMA FrameTypes ==
  ASSUME ObjectTypeOK, NEW i \in DOMAIN frames
  PROVE  frames[i] \in Frames /\ frames[i].block \in Slots /\ frames[i].op \in {"create", "make_unique", "destroy", "delete"}
  <1>1. frames \in Seq(Frames) /\ i \in 1 .. Len(frames)
    BY LenProperties, Zenon DEF ObjectTypeOK, Frames
  <1>2. frames[i] \in Frames
    BY <1>1, ElementOfSeq, Zenon
  <1>3. QED
    BY <1>2, Zenon DEF Frames

LEMMA FramesAfterEnter ==
  ASSUME ObjectInvariant, NEW op \in {"create", "make_unique", "destroy", "delete"}, NEW p \in Slots, Enter(op, p),
         object[p] \in {"none", "live"},
         object' = [object EXCEPT ![p] = IF op \in {"create", "make_unique"} THEN "building" ELSE "dying"]
  PROVE  frames' \in Seq(Frames) /\ FramesMatch'
  <1> DEFINE frame == [op |-> op, block |-> p]
  <1>1. frame \in Frames /\ frame.op = op /\ frame.block = p
    BY Zenon DEF Frames
  <1>2. frames' = Append(frames, frame)
    BY Zenon DEF Enter
  <1> HIDE DEF frame
  <1>3. /\ frames' \in Seq(Frames) /\ DOMAIN frames' = DOMAIN frames \cup {Len(frames) + 1}
        /\ Len(frames) + 1 \notin DOMAIN frames
        /\ \A i \in DOMAIN frames : frames'[i] = frames[i]
        /\ frames'[Len(frames) + 1] = frame
    BY <1>1, <1>2, EnterFrames, Zenon DEF ObjectInvariant
  <1>4. \A i \in DOMAIN frames : frames[i].block \in Slots /\ frames[i].block # p
    BY FrameTypes, Zenon DEF ObjectInvariant, OneCallPerBlock, FramesMatch
  <1>5. QED
    BY <1>1, <1>3, <1>4 DEF ObjectInvariant, ObjectTypeOK, OneCallPerBlock, FramesMatch

LEMMA FramesAfterLeave ==
  ASSUME ObjectInvariant, frames # <<>>, Leave, NEW state \in {"none", "live", "failed"},
         object' = [object EXCEPT ![Top.block] = state]
  PROVE  /\ frames' \in Seq(Frames) /\ FramesMatch'
         /\ Top.block \in Slots
         /\ object[Top.block] = IF Top.op \in {"create", "make_unique"} THEN "building" ELSE "dying"
  <1> DEFINE p == Top.block
  <1>1. /\ frames' \in Seq(Frames) /\ DOMAIN frames' = DOMAIN frames \ {Len(frames)}
        /\ Len(frames) \in DOMAIN frames
        /\ \A i \in DOMAIN frames' : frames'[i] = frames[i]
        /\ Top = frames[Len(frames)]
    BY LeaveFrames, Zenon DEF ObjectInvariant
  <1>2. /\ p \in Slots /\ object[p] = IF Top.op \in {"create", "make_unique"} THEN "building" ELSE "dying"
        /\ \A i \in DOMAIN frames' : frames[i].block \in Slots /\ frames[i].block # p
    BY <1>1, FrameTypes, Zenon DEF ObjectInvariant, OneCallPerBlock, FramesMatch
  <1>3. \A q \in Slots : q # p /\ object[q] \in {"building", "dying"} => \E i \in DOMAIN frames' : frames[i].block = q
    BY <1>1, Zenon DEF ObjectInvariant, OneCallPerBlock, FramesMatch
  <1>4. \A q \in Slots : object'[q] = IF q = p THEN state ELSE object[q]
    BY <1>2, Zenon DEF ObjectInvariant, ObjectTypeOK
  <1> HIDE DEF p
  <1>5. FramesMatch'
    BY <1>1, <1>2, <1>3, <1>4 DEF ObjectInvariant, OneCallPerBlock, FramesMatch
  <1>6. QED
    BY <1>1, <1>2, <1>5, Zenon DEF p

LEMMA PoolCreateKeeps ==
  ASSUME ObjectInvariant, NEW op \in {"create", "make_unique"}, Create(op)
  PROVE  ObjectInvariant'
  <1>1. PICK p \in Slots \ allocated :
          allocated' = allocated \cup {p} /\ object' = [object EXCEPT ![p] = "building"] /\ Enter(op, p)
    BY Zenon DEF Create
  <1>2. object[p] = "none"
    BY Zenon DEF ObjectInvariant, OneCallPerBlock, ObjectTypeOK
  <1>3. frames' \in Seq(Frames) /\ FramesMatch'
    BY <1>1, <1>2, FramesAfterEnter, Zenon
  <1>4. ObjectTypeOK'
    BY <1>1, <1>3 DEF ObjectInvariant, Create, ObjectTypeOK, Frames
  <1>5. OneCallPerBlock' /\ LostBlocksAreBreached' /\ OneOwner'
    BY <1>1, <1>3, Zenon DEF ObjectInvariant, ObjectTypeOK, Create, LostBlocksAreBreached, OneOwner, OneCallPerBlock
  <1>6. QED
    BY <1>4, <1>5, Zenon DEF ObjectInvariant

LEMMA PoolConstructorReturnsKeeps ==
  ASSUME ObjectInvariant, ConstructorReturns
  PROVE  ObjectInvariant'
  <1> DEFINE p == Top.block
  <1>1. /\ frames # <<>> /\ Leave /\ object' = [object EXCEPT ![p] = "live"]
        /\ \E o \in {"raw", "PoolPtr"} : owner' = [owner EXCEPT ![p] = o]
        /\ UNCHANGED <<pool_options, allocated, breached, created, ended>>
    BY Zenon DEF ConstructorReturns, InCall
  <1>2. frames' \in Seq(Frames) /\ FramesMatch' /\ p \in Slots /\ object[p] \in {"building", "dying"}
    BY <1>1, FramesAfterLeave, Zenon
  <1> HIDE DEF p
  <1>3. ObjectTypeOK'
    BY <1>1, <1>2, Zenon DEF ObjectInvariant, ObjectTypeOK, Frames, Owners
  <1>4. OneCallPerBlock' /\ LostBlocksAreBreached' /\ OneOwner'
    BY <1>1, <1>2, Zenon DEF ObjectInvariant, ObjectTypeOK, LostBlocksAreBreached, OneOwner, OneCallPerBlock
  <1>5. QED
    BY <1>3, <1>4, Zenon DEF ObjectInvariant

\* A failed construction and a destruction end alike.
LEMMA PoolEndKeeps ==
  ASSUME ObjectInvariant, ConstructorThrows \/ DestructorReturns
  PROVE  ObjectInvariant'
  <1> DEFINE p == Top.block
  <1>1. /\ frames # <<>> /\ Leave /\ object' = [object EXCEPT ![p] = "none"]
        /\ allocated' = IF p \notin breached THEN allocated \ {p} ELSE allocated
        /\ ended' = ended + 1
        /\ UNCHANGED <<pool_options, breached, owner, created>>
    BY Zenon DEF ConstructorThrows, DestructorReturns, InCall, deallocate, Intact
  <1>2. frames' \in Seq(Frames) /\ FramesMatch' /\ p \in Slots /\ object[p] \in {"building", "dying"}
    BY <1>1, FramesAfterLeave, Zenon
  <1> HIDE DEF p
  <1>3. ObjectTypeOK'
    <2>1. object' \in [Slots -> {"none", "building", "live", "dying", "failed"}] /\ ended' \in Nat
      BY <1>1, <1>2 DEF ObjectInvariant, ObjectTypeOK
    <2>2. allocated' \subseteq Slots /\ breached' \subseteq allocated'
      BY <1>1, <1>2, Zenon DEF ObjectInvariant, ObjectTypeOK
    <2>3. QED
      BY <1>1, <1>2, <2>1, <2>2, Zenon DEF ObjectInvariant, ObjectTypeOK, Frames
  <1>4. OneCallPerBlock' /\ LostBlocksAreBreached' /\ OneOwner'
    BY <1>1, <1>2, Zenon DEF ObjectInvariant, ObjectTypeOK, LostBlocksAreBreached, OneOwner, OneCallPerBlock
  <1>5. QED
    BY <1>3, <1>4, Zenon DEF ObjectInvariant

LEMMA DestructorThrowsKeeps ==
  ASSUME ObjectInvariant, DestructorThrows
  PROVE  ObjectInvariant'
  <1> DEFINE p == Top.block
  <1>1. /\ frames # <<>> /\ Leave /\ object' = [object EXCEPT ![p] = "failed"]
        /\ ended' = ended + 1
        /\ UNCHANGED <<pool_options, allocated, breached, owner, created>>
    BY Zenon DEF DestructorThrows, InCall
  <1>2. frames' \in Seq(Frames) /\ FramesMatch' /\ p \in Slots /\ object[p] \in {"building", "dying"}
    BY <1>1, FramesAfterLeave, Zenon
  <1> HIDE DEF p
  <1>3. ObjectTypeOK'
    <2>1. object' \in [Slots -> {"none", "building", "live", "dying", "failed"}] /\ ended' \in Nat
      BY <1>1, <1>2 DEF ObjectInvariant, ObjectTypeOK
    <2>2. allocated' \subseteq Slots /\ breached' \subseteq allocated'
      BY <1>1, <1>2, Zenon DEF ObjectInvariant, ObjectTypeOK
    <2>3. QED
      BY <1>1, <1>2, <2>1, <2>2, Zenon DEF ObjectInvariant, ObjectTypeOK, Frames
  <1>4. OneCallPerBlock' /\ LostBlocksAreBreached' /\ OneOwner'
    BY <1>1, <1>2, Zenon DEF ObjectInvariant, ObjectTypeOK, LostBlocksAreBreached, OneOwner, OneCallPerBlock
  <1>5. QED
    BY <1>3, <1>4, Zenon DEF ObjectInvariant

\* Callers, and PoolPtr, only get destroy into the destructor of a live object.
LEMMA EntersLive ==
  ASSUME ObjectInvariant, NEW op, NEW p \in Slots,
         \/ op = "destroy" /\ DestroyObject(p)
         \/ op = "delete" /\ Delete(p)
  PROVE  \/ /\ object[p] = "live" /\ Enter(op, p) /\ object' = [object EXCEPT ![p] = "dying"]
            /\ owner' = [owner EXCEPT ![p] = "nobody"]
            /\ UNCHANGED <<pool_options, allocated, breached, created, ended>>
         \/ UNCHANGED <<pool_options, allocated, breached, object, owner, frames, created, ended>>
  <1>1. Enters(op, p)
    BY Zenon DEF DestroyObject, Delete
  <1>2. validate(p) => object[p] = "live"
    BY Zenon DEF DestroyObject, Delete, validate, ObjectInvariant, OneOwner, ObjectTypeOK
  <1>3. QED
    BY <1>1, <1>2, Zenon DEF Enters

LEMMA EntersKeeps ==
  ASSUME ObjectInvariant, NEW p \in Slots, DestroyObject(p) \/ Delete(p)
  PROVE  ObjectInvariant'
  <1>1. PICK op \in {"destroy", "delete"} : (op = "destroy" /\ DestroyObject(p)) \/ (op = "delete" /\ Delete(p))
    BY Zenon
  <1>2. CASE UNCHANGED <<pool_options, allocated, breached, object, owner, frames, created, ended>>
    BY <1>2, Zenon DEF ObjectInvariant, ObjectTypeOK, OneCallPerBlock, FramesMatch, LostBlocksAreBreached, OneOwner
  <1>3. CASE /\ object[p] = "live" /\ Enter(op, p) /\ object' = [object EXCEPT ![p] = "dying"]
             /\ owner' = [owner EXCEPT ![p] = "nobody"]
             /\ UNCHANGED <<pool_options, allocated, breached, created, ended>>
    <2>1. frames' \in Seq(Frames) /\ FramesMatch'
      BY <1>3, FramesAfterEnter, Zenon
    <2>2. ObjectTypeOK'
      BY <1>3, <2>1, Zenon DEF ObjectInvariant, ObjectTypeOK, Frames, Owners
    <2>3. OneCallPerBlock' /\ LostBlocksAreBreached' /\ OneOwner'
      BY <1>3, <2>1, Zenon DEF ObjectInvariant, ObjectTypeOK, LostBlocksAreBreached, OneOwner, OneCallPerBlock
    <2>4. QED
      BY <2>2, <2>3, Zenon DEF ObjectInvariant
  <1>4. QED
    BY <1>1, <1>2, <1>3, EntersLive, Zenon

LEMMA PassOwnershipKeeps ==
  ASSUME ObjectInvariant, NEW p \in Slots, PassOwnership(p)
  PROVE  ObjectInvariant'
  <1>1. PICK o \in Owners \ {"nobody"} : owner' = [owner EXCEPT ![p] = o]
    BY Zenon DEF PassOwnership
  <1>2. owner[p] # "nobody" /\ UNCHANGED <<pool_options, allocated, breached, object, frames, created, ended>>
    BY Zenon DEF PassOwnership
  <1>3. ObjectTypeOK' /\ OneOwner'
    BY <1>1, <1>2, Zenon DEF ObjectInvariant, ObjectTypeOK, OneOwner
  <1>4. QED
    BY <1>2, <1>3, Zenon DEF ObjectInvariant, OneCallPerBlock, FramesMatch, LostBlocksAreBreached

LEMMA OverrunKeeps ==
  ASSUME ObjectInvariant, NEW p \in Slots, Overrun(p)
  PROVE  ObjectInvariant'
  BY DEF Overrun, ObjectInvariant, ObjectTypeOK, OneCallPerBlock, FramesMatch, LostBlocksAreBreached, OneOwner

LEMMA RefusalsKeep ==
  ASSUME ObjectInvariant, UNCHANGED <<pool_options, allocated, breached, object, owner, frames, created, ended>>
  PROVE  ObjectInvariant'
  BY Zenon DEF ObjectInvariant, ObjectTypeOK, OneCallPerBlock, FramesMatch, LostBlocksAreBreached, OneOwner

Refusal ==
    \/ CreateRefused \/ CreateExhausted \/ DestroyForeign
    \/ (\E p \in Slots : DeleteWithoutPool(p)) \/ UNCHANGED objectVars

LEMMA RefusalsChangeNothing ==
  Refusal => UNCHANGED <<pool_options, allocated, breached, object, owner, frames, created, ended>>
  BY Zenon DEF Refusal, CreateRefused, CreateExhausted, DestroyForeign, DeleteWithoutPool, objectVars

LEMMA ObjectsNext == ObjectInvariant /\ [ObjectNext]_objectVars => ObjectInvariant'
  <1> SUFFICES ASSUME ObjectInvariant, [ObjectNext]_objectVars PROVE ObjectInvariant'
    BY Zenon
  <1>1. CASE Refusal
    BY <1>1, RefusalsChangeNothing, RefusalsKeep, Zenon
  <1>2. ASSUME NEW op \in {"create", "make_unique"}, Create(op) PROVE ObjectInvariant'
    BY <1>2, PoolCreateKeeps, Zenon
  <1>3. CASE ConstructorReturns \/ ConstructorThrows \/ DestructorReturns \/ DestructorThrows
    BY <1>3, PoolConstructorReturnsKeeps, PoolEndKeeps, DestructorThrowsKeeps, Zenon
  <1>4. ASSUME NEW p \in Slots, DestroyObject(p) \/ Delete(p) \/ PassOwnership(p) \/ Overrun(p) PROVE ObjectInvariant'
    BY <1>4, EntersKeeps, PassOwnershipKeeps, OverrunKeeps, Zenon
  <1>5. QED
    BY <1>1, <1>2, <1>3, <1>4, Zenon DEF ObjectNext, Refusal

\* The inductive invariant of the object pool: frames, objects, owners and
\* blocks agree however constructors and destructors nest and fail.
THEOREM ObjectInvariantHolds == ObjectSpec => []ObjectInvariant
  BY ObjectsInit, ObjectsNext, PTL DEF ObjectSpec

\* Every block is in one call at a time.
THEOREM OneCallPerBlockHolds == ObjectSpec => []OneCallPerBlock
  BY ObjectInvariantHolds, PTL DEF ObjectInvariant

\* create and destroy lose a block only to a breached canary or to a
\* destructor that throws.
THEOREM LostBlocksAreBreachedHolds == ObjectSpec => []LostBlocksAreBreached
  BY ObjectInvariantHolds, PTL DEF ObjectInvariant

\* No destructor is entered for a block without a live object.
THEOREM DestructorsOfLiveObjectsHolds == ObjectSpec => DestructorsOfLiveObjects
  <1> DEFINE OnlyLive == \A p \in Slots : object'[p] = "dying" /\ object[p] # "dying" => object[p] = "live"
  <1>1. ObjectInvariant /\ [ObjectNext]_objectVars => OnlyLive
    <2> SUFFICES ASSUME ObjectInvariant, [ObjectNext]_objectVars PROVE OnlyLive
      BY Zenon
    <2>1. CASE Refusal
      BY <2>1, RefusalsChangeNothing, Zenon
    <2>2. ASSUME NEW op \in {"create", "make_unique"}, Create(op) PROVE OnlyLive
      BY <2>2, Zenon DEF Create, ObjectInvariant, ObjectTypeOK
    <2>3. CASE ConstructorReturns \/ ConstructorThrows \/ DestructorReturns \/ DestructorThrows
      <3>1. PICK state \in {"live", "none", "failed"} : object' = [object EXCEPT ![Top.block] = state]
        BY <2>3, Zenon DEF ConstructorReturns, ConstructorThrows, DestructorReturns, DestructorThrows
      <3>2. QED
        BY <3>1, Zenon DEF ObjectInvariant, ObjectTypeOK
    <2>4. ASSUME NEW p \in Slots, DestroyObject(p) \/ Delete(p) PROVE OnlyLive
      BY <2>4, EntersLive, Zenon DEF ObjectInvariant, ObjectTypeOK
    <2>5. ASSUME NEW p \in Slots, PassOwnership(p) \/ Overrun(p) PROVE OnlyLive
      BY <2>5, Zenon DEF PassOwnership, Overrun
    <2>6. QED
      BY <2>1, <2>2, <2>3, <2>4, <2>5, Zenon DEF ObjectNext, Refusal
  <1>2. QED
    BY <1>1, ObjectInvariantHolds, PTL DEF ObjectSpec, DestructorsOfLiveObjects

------------------------------------------------------------------------------
(***************************************************************************)
(* Counting lifetimes.                                                     *)
(***************************************************************************)
LEMMA OneMore ==
  ASSUME IsFiniteSet(Slots), ObjectInvariant, LifetimesBalance, NEW p \in Slots, p \notin Alive, Alive' = Alive \cup {p},
         created' = created + 1, ended' = ended
  PROVE  LifetimesBalance'
  <1>1. IsFiniteSet(Alive)
    BY FS_Subset, Zenon DEF Alive
  <1>2. Cardinality(Alive \cup {p}) = Cardinality(Alive) + 1 /\ Cardinality(Alive) \in Nat
    BY <1>1, FS_AddElement, FS_CardinalityType, Zenon
  <1>3. QED
    BY <1>2 DEF LifetimesBalance, ObjectInvariant, ObjectTypeOK

LEMMA OneLess ==
  ASSUME IsFiniteSet(Slots), ObjectInvariant, LifetimesBalance, NEW p \in Alive, Alive' = Alive \ {p},
         created' = created, ended' = ended + 1
  PROVE  LifetimesBalance'
  <1>1. IsFiniteSet(Alive)
    BY FS_Subset, Zenon DEF Alive
  <1>2. Cardinality(Alive \ {p}) = Cardinality(Alive) - 1 /\ Cardinality(Alive) \in Nat
    BY <1>1, FS_RemoveElement, FS_CardinalityType, Zenon
  <1>3. QED
    BY <1>2 DEF LifetimesBalance, ObjectInvariant, ObjectTypeOK

\* Every object is ended once, for any number of blocks and calls.
THEOREM LifetimesBalanceHolds == ObjectSpec => []LifetimesBalance
  <1>1. ObjectInit => LifetimesBalance
    <2> SUFFICES ASSUME ObjectInit PROVE LifetimesBalance
      BY Zenon
    <2>1. Alive = {}
      BY Zenon DEF ObjectInit, Alive
    <2>2. QED
      BY <2>1, FS_EmptySet DEF ObjectInit, LifetimesBalance
  <1>2. ObjectInvariant /\ LifetimesBalance /\ [ObjectNext]_objectVars => LifetimesBalance'
    <2> SUFFICES ASSUME ObjectInvariant, LifetimesBalance, [ObjectNext]_objectVars PROVE LifetimesBalance'
      BY Zenon
    <2>0. IsFiniteSet(Slots)
      BY ObjectPoolAssumption
    <2> USE <2>0
    <2>1. CASE UNCHANGED <<object, created, ended>>
      BY <2>1, Zenon DEF LifetimesBalance, Alive
    <2>2. ASSUME NEW op \in {"create", "make_unique"}, Create(op) PROVE LifetimesBalance'
      <3>1. PICK p \in Slots \ allocated : object' = [object EXCEPT ![p] = "building"]
        BY <2>2, Zenon DEF Create
      <3>2. p \notin Alive /\ Alive' = Alive \cup {p}
        BY <3>1, Zenon DEF Alive, ObjectInvariant, ObjectTypeOK, OneCallPerBlock
      <3>3. QED
        BY <2>2, <3>2, OneMore, Zenon DEF Create
    <2>3. CASE ConstructorReturns
      <3>1. object' = [object EXCEPT ![Top.block] = "live"] /\ Top.block \in Slots /\ object[Top.block] \in {"building", "dying"}
            /\ UNCHANGED <<created, ended>>
        BY <2>3, FramesAfterLeave, Zenon DEF ConstructorReturns, InCall
      <3>2. Alive' = Alive
        BY <3>1, Zenon DEF Alive, ObjectInvariant, ObjectTypeOK
      <3>3. QED
        BY <3>1, <3>2, Zenon DEF LifetimesBalance
    <2>4. CASE ConstructorThrows \/ DestructorReturns \/ DestructorThrows
      <3>1. PICK state \in {"none", "failed"} :
              /\ object' = [object EXCEPT ![Top.block] = state] /\ frames # <<>> /\ Leave
              /\ created' = created /\ ended' = ended + 1
        BY <2>4, Zenon DEF ConstructorThrows, DestructorReturns, DestructorThrows, InCall
      <3>2. Top.block \in Slots /\ object[Top.block] \in {"building", "dying"}
        BY <3>1, FramesAfterLeave, Zenon
      <3>3. Top.block \in Alive /\ Alive' = Alive \ {Top.block}
        BY <3>1, <3>2, Zenon DEF Alive, ObjectInvariant, ObjectTypeOK
      <3>4. QED
        BY <3>1, <3>3, OneLess, Zenon
    <2>5. ASSUME NEW p \in Slots, DestroyObject(p) \/ Delete(p) PROVE LifetimesBalance'
      <3>1. CASE object[p] = "live" /\ object' = [object EXCEPT ![p] = "dying"] /\ UNCHANGED <<created, ended>>
        <4>1. Alive' = Alive
          BY <3>1, Zenon DEF Alive, ObjectInvariant, ObjectTypeOK
        <4>2. QED
          BY <3>1, <4>1, Zenon DEF LifetimesBalance
      <3>2. QED
        BY <2>1, <2>5, <3>1, EntersLive, Zenon
    <2>6. ASSUME NEW p \in Slots, PassOwnership(p) \/ Overrun(p) PROVE UNCHANGED <<object, created, ended>>
      BY <2>6, Zenon DEF PassOwnership, Overrun
    <2>7. CASE Refusal
      BY <2>1, <2>7, RefusalsChangeNothing, Zenon
    <2>8. QED
      BY <2>1, <2>2, <2>3, <2>4, <2>5, <2>6, <2>7, Zenon DEF ObjectNext, Refusal
  <1>3. QED
    BY <1>1, <1>2, ObjectInvariantHolds, PTL DEF ObjectSpec

------------------------------------------------------------------------------
(***************************************************************************)
(* update_peak, for any number of threads and any gauge.                   *)
(***************************************************************************)
\* Initially and after every step of a thread in or around update_peak the
\* variables keep their types.
LEMMA PeakTypeStep == PeakTypeOK /\ [PeakNext]_peakVars => PeakTypeOK'
<1> USE GaugeAssumption
<1> SUFFICES ASSUME PeakTypeOK, [PeakNext]_peakVars PROVE PeakTypeOK'
    OBVIOUS
<1>1. ASSUME NEW t \in Threads, Add(t) PROVE PeakTypeOK'
    BY <1>1 DEF PeakTypeOK, Add
<1>2. ASSUME NEW t \in Threads, Subtract(t) PROVE PeakTypeOK'
    BY <1>2 DEF PeakTypeOK, Subtract
<1>3. ASSUME NEW t \in Threads, Load(t) PROVE PeakTypeOK'
    BY <1>3 DEF PeakTypeOK, Load
<1>4. ASSUME NEW t \in Threads, LeaveLoop(t) PROVE PeakTypeOK'
    BY <1>4 DEF PeakTypeOK, LeaveLoop
<1>5. ASSUME NEW t \in Threads, Exchange(t) PROVE PeakTypeOK'
    BY <1>5 DEF PeakTypeOK, Exchange
<1>6. ASSUME NEW t \in Threads, ExchangeFails(t) PROVE PeakTypeOK'
    BY <1>6 DEF PeakTypeOK, ExchangeFails
<1>7. CASE UNCHANGED peakVars
    BY <1>7 DEF PeakTypeOK, peakVars
<1> QED BY <1>1, <1>2, <1>3, <1>4, <1>5, <1>6, <1>7 DEF PeakNext, Update

\* Each operation on the gauge or the peak keeps the largest value in the peak
\* or in the hands of a thread.
LEMMA PeakStep == PeakTypeOK /\ PeakInvariant /\ [PeakNext]_peakVars => PeakInvariant'
<1> USE GaugeAssumption
<1> SUFFICES ASSUME PeakTypeOK, PeakInvariant, [PeakNext]_peakVars PROVE PeakInvariant'
    OBVIOUS
<1>1. ASSUME NEW t \in Threads, Add(t) PROVE PeakInvariant'
  <2>1. CASE gauge + 1 > highest
    <3>1. pc'[t] # "idle" /\ candidate'[t] = highest'
        BY <1>1, <2>1 DEF PeakTypeOK, Add
    <3> QED BY <1>1, <2>1, <3>1 DEF PeakTypeOK, PeakInvariant, Add
  <2>2. CASE ~ (gauge + 1 > highest)
    <3>1. highest' = highest /\ peak' = peak
        BY <1>1, <2>2 DEF Add
    <3>2. peak # highest => \E u \in Threads : pc'[u] # "idle" /\ candidate'[u] = highest
        BY <1>1 DEF PeakTypeOK, PeakInvariant, Add
    <3> QED BY <1>1, <2>2, <3>1, <3>2 DEF PeakTypeOK, PeakInvariant, Add
  <2> QED BY <2>1, <2>2
<1>2. ASSUME NEW t \in Threads, Subtract(t) PROVE PeakInvariant'
    BY <1>2 DEF PeakTypeOK, PeakInvariant, Subtract
<1>3. ASSUME NEW t \in Threads, Load(t) PROVE PeakInvariant'
    BY <1>3 DEF PeakTypeOK, PeakInvariant, Load
<1>4. ASSUME NEW t \in Threads, LeaveLoop(t) PROVE PeakInvariant'
  <2>1. candidate[t] <= peak
      BY <1>4 DEF PeakTypeOK, PeakInvariant, LeaveLoop
  <2>2. peak # highest => \E u \in Threads : pc'[u] # "idle" /\ candidate'[u] = highest
      BY <1>4, <2>1 DEF PeakTypeOK, PeakInvariant, LeaveLoop
  <2> QED BY <1>4, <2>2 DEF PeakTypeOK, PeakInvariant, LeaveLoop
<1>5. ASSUME NEW t \in Threads, Exchange(t) PROVE PeakInvariant'
  <2>1. peak < candidate[t] /\ candidate[t] <= highest /\ peak' = candidate[t]
      BY <1>5 DEF PeakTypeOK, PeakInvariant, Exchange
  <2>2. peak' # highest => \E u \in Threads : pc'[u] # "idle" /\ candidate'[u] = highest
      BY <1>5, <2>1 DEF PeakTypeOK, PeakInvariant, Exchange
  <2> QED BY <1>5, <2>1, <2>2 DEF PeakTypeOK, PeakInvariant, Exchange
<1>6. ASSUME NEW t \in Threads, ExchangeFails(t) PROVE PeakInvariant'
    BY <1>6 DEF PeakTypeOK, PeakInvariant, ExchangeFails
<1>7. CASE UNCHANGED peakVars
    BY <1>7 DEF PeakInvariant, peakVars
<1> QED BY <1>1, <1>2, <1>3, <1>4, <1>5, <1>6, <1>7 DEF PeakNext, Update

\* The inductive invariant of the gauges holds in every behaviour.
THEOREM PeakInvariantHolds == PeakSpec => [](PeakTypeOK /\ PeakInvariant)
<1>1. PeakInit => PeakTypeOK /\ PeakInvariant
    BY GaugeAssumption DEF PeakInit, PeakTypeOK, PeakInvariant
<1>2. PeakTypeOK /\ PeakInvariant /\ [PeakNext]_peakVars => (PeakTypeOK /\ PeakInvariant)'
    BY PeakTypeStep, PeakStep
<1> QED BY <1>1, <1>2, PTL DEF PeakSpec

\* peak_live_allocations and peak_cached_blocks are exact whenever no thread is
\* inside update_peak: no interleaving of relaxed updates loses the maximum.
THEOREM PeakExactHolds == PeakSpec => []PeakExact
<1>1. PeakTypeOK /\ PeakInvariant => PeakExact
    BY DEF PeakInvariant, PeakExact
<1> QED BY <1>1, PeakInvariantHolds, PTL

\* No step of any thread lowers a peak.
THEOREM PeakNeverFallsHolds == PeakSpec => PeakNeverFalls
<1>1. PeakTypeOK /\ PeakInvariant /\ [PeakNext]_peakVars => [peak' >= peak]_peakVars
  <2> SUFFICES ASSUME PeakTypeOK, [PeakNext]_peakVars PROVE [peak' >= peak]_peakVars
      OBVIOUS
  <2>1. ASSUME NEW t \in Threads, Exchange(t) PROVE peak' >= peak
      BY <2>1 DEF PeakTypeOK, Exchange
  <2>2. ASSUME NEW t \in Threads,
               Add(t) \/ Subtract(t) \/ Load(t) \/ LeaveLoop(t) \/ ExchangeFails(t)
        PROVE peak' >= peak
      BY <2>2 DEF PeakTypeOK, Add, Subtract, Load, LeaveLoop, ExchangeFails
  <2> QED BY <2>1, <2>2 DEF PeakNext, Update
<1> QED BY <1>1, PeakInvariantHolds, PTL DEF PeakSpec, PeakNeverFalls
==============================================================================
