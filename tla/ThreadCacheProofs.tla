-------------------------- MODULE ThreadCacheProofs --------------------------
(***************************************************************************)
(* CacheInvariant is inductive, for any threads, addresses, classes,       *)
(* requests, shards and watermarks, and what follows from it.              *)
(***************************************************************************)
EXTENDS ThreadCacheInvariant, TLAPS

------------------------------------------------------------------------------
(* The frames, records, locks and bins of a state of CacheInvariant, and   *)
(* what each action does to the frame of its thread, the records, the bins *)
(* and the gauges in such a state.                                         *)

LEMMA IdleFrameType == IdleFrame \in Frame
  BY Zenon DEF IdleFrame, Frame, Labels, Operations

LEMMA KindType == \A r \in Requests : Kind(r) \in Kinds /\ Kind(r) # Free
  BY DomainAssumption, Zenon DEF Kind, Kinds

\* A record is never NoRecord, and its kind is never Free.
LEMMA RecordFacts ==
  \A x \in Record : x # NoRecord /\ x.kind # Free /\ x.kind \in Kinds
  BY DomainAssumption, RecordAssumption, Zenon DEF Record, Kinds

LEMMA CachedRecordIsCached ==
  ASSUME NEW p \in Addr, NEW t \in Threads, NEW c \in Classes, records[p] = CachedRecord(t, c)
  PROVE  IsCached(p)
<1>1. CachedRecord(t, c) \in Record /\ CachedRecord(t, c).state = "cached"
  BY Zenon DEF CachedRecord, Record, Kinds
<1> QED BY <1>1, RecordAssumption, Zenon DEF IsCached

IInv == TypeOK /\ CacheInvariant

HInv == IInv /\ HolderInvariant

\* Only thread t moves in a step.
Moves(t) ==
    /\ frame' \in [Threads -> Frame]
    /\ \A u \in Threads : u # t => frame'[u] = frame[u]

\* Whoever is busy with a block under its shard's lock keeps others out.
LEMMA LockExcludes ==
  ASSUME IInv, NEW t \in Threads, NEW u \in Threads,
         HoldsShard(t), HoldsShard(u), frame[t].ptr = frame[u].ptr
  PROVE  t = u
  BY Zenon DEF IInv, CacheInvariant, LockOK

LEMMA UnlockedFacts ==
  ASSUME IInv, NEW p \in Addr, Unlocked(p)
  PROVE  /\ ~ Erasing(p)
         /\ \A u \in Threads : HoldsShard(u) => frame[u].ptr # p
  BY DomainAssumption, Zenon DEF IInv, CacheInvariant, LockOK, HoldsShard, Erasing, Unlocked

\* The elements of a sequence, and what pop_back leaves of a vector.
LEMMA SequenceFacts ==
  ASSUME NEW S, NEW s \in Seq(S)
  PROVE  /\ Len(s) \in Nat
         /\ \A i \in 1 .. Len(s) : s[i] \in S
         /\ s = <<>> <=> Len(s) = 0
  OBVIOUS

LEMMA PopBackFacts ==
  ASSUME NEW S, NEW s \in Seq(S), s # <<>>
  PROVE  /\ PopBack(s) \in Seq(S) /\ Back(s) \in S
         /\ Len(s) > 0 /\ Len(PopBack(s)) = Len(s) - 1
         /\ \A i \in 1 .. Len(PopBack(s)) : PopBack(s)[i] = s[i]
<1>1. PICK n \in Nat : Len(s) = n + 1
  <2>1. Len(s) - 1 \in Nat /\ Len(s) = (Len(s) - 1) + 1
    OBVIOUS
  <2> QED BY <2>1, Zenon
<1>2. PopBack(s) = SubSeq(s, 1, n)
  BY <1>1 DEF PopBack
<1>3. Len(SubSeq(s, 1, n)) = n
  <2>1. CASE n = 0
    BY <1>1, <2>1
  <2>2. CASE n > 0
    BY <1>1, <2>2
  <2> QED BY <2>1, <2>2
<1>4. SubSeq(s, 1, n) \in Seq(S) /\ s[Len(s)] \in S
  BY <1>1
<1>5. \A i \in 1 .. n : SubSeq(s, 1, n)[i] = s[i]
  BY <1>1
<1> QED BY <1>1, <1>2, <1>3, <1>4, <1>5 DEF Back

LEMMA AppendFacts ==
  ASSUME NEW S, NEW s \in Seq(S), NEW x \in S
  PROVE  /\ Append(s, x) \in Seq(S) /\ Len(Append(s, x)) = Len(s) + 1
         /\ \A i \in 1 .. Len(s) : Append(s, x)[i] = s[i]
         /\ Append(s, x)[Len(s) + 1] = x
  OBVIOUS

\* Of the bins, only bin c of thread t changes in a step.
BinChanges(t, c) ==
    /\ bins' \in [Threads -> [Classes -> Seq(Addr)]]
    /\ \A u \in Threads, d \in Classes :
          u # t \/ d # c => bins'[u][d] = bins[u][d]

LEMMA AppendToBin ==
  ASSUME TypeOK, NEW t \in Threads, NEW c \in Classes, NEW p \in Addr,
         bins' = [bins EXCEPT ![t][c] = Append(@, p)]
  PROVE  BinChanges(t, c) /\ bins'[t][c] = Append(bins[t][c], p)
<1>1. bins[t][c] \in Seq(Addr)
  BY Zenon DEF TypeOK
<1>2. Append(bins[t][c], p) \in Seq(Addr)
  BY <1>1, AppendFacts, Zenon
<1> QED BY <1>2, Zenon DEF BinChanges, TypeOK

\* Under the lock, before the central call, central storage still has the
\* block, of the kind the record says.
LEMMA HeldBlock ==
  ASSUME IInv, NEW t \in Threads,
         frame[t].pc \in {"free_central", "flush_central"}
  PROVE  /\ frame[t].ptr \in Addr /\ records[frame[t].ptr] # NoRecord
         /\ ~ Erasing(frame[t].ptr)
         /\ central[frame[t].ptr] = records[frame[t].ptr].kind
         /\ central[frame[t].ptr] # Free
<1>1. PICK p \in Addr : p = frame[t].ptr
  BY Zenon DEF IInv, CacheInvariant, FrameOK, HoldsShard
<1>2. records[p] \in Record
  BY <1>1, Zenon DEF IInv, CacheInvariant, TypeOK, FreeOK, HoldsShard
<1>3. ~ Erasing(p)
  BY <1>1, LockExcludes, Zenon DEF Erasing, HoldsShard
<1>4. central[p] = records[p].kind
  BY <1>2, <1>3, RecordFacts, Zenon DEF IInv, CacheInvariant, CentralOK
<1> QED BY <1>1, <1>2, <1>3, <1>4, RecordFacts, Zenon

\* What HolderInvariant says of a thread and its bins.
LEMMA LocalFacts ==
  ASSUME HInv, NEW t \in Threads
  PROVE  /\ CallOK(t) /\ \A c \in Classes : ReserveOK(t, c)
         /\ frame[t].index \in Nat /\ frame[t].flushing \subseteq Classes
         /\ HighWatermark \in Nat /\ LowWatermark \in Nat /\ RefillBatch \in Nat
         /\ HighWatermark > 0 /\ LowWatermark <= HighWatermark
         /\ RefillBatch > 0 /\ RefillBatch <= HighWatermark
         /\ \A c \in Classes : bins[t][c] \in Seq(Addr) /\ Len(bins[t][c]) \in Nat
  BY OptionsAssumption
     DEF HInv, HolderInvariant, IInv, TypeOK, Frame, validate_cache_options

-----------------------------------------------------------------------------
(* What each action does.                                                  *)

\* The thread starts a call, in a fresh frame at the given label.
Enters(t, pc, op, arg, ptr, flushing) ==
    /\ Moves(t) /\ frame[t].pc = "idle"
    /\ frame'[t].pc = pc /\ frame'[t].op = op /\ frame'[t].arg = arg
    /\ frame'[t].ptr = ptr /\ frame'[t].flushing = flushing
    /\ frame'[t].index = 0 /\ frame'[t].result = NoAddr

\* The thread proceeds in its call.
Advances(t, pc, ptr, flushing) ==
    /\ Moves(t)
    /\ frame'[t].pc = pc /\ frame'[t].op = frame[t].op /\ frame'[t].arg = frame[t].arg
    /\ frame'[t].ptr = ptr /\ frame'[t].flushing = flushing
    /\ frame'[t].index = frame[t].index /\ frame'[t].result = frame[t].result

LEMMA EnterFacts ==
  ASSUME TypeOK, NEW t \in Threads, At(t, "idle"), NEW g \in Frame,
         g.index = 0, g.result = NoAddr, frame' = [frame EXCEPT ![t] = g]
  PROVE  Enters(t, g.pc, g.op, g.arg, g.ptr, g.flushing)
  BY Zenon DEF Enters, Moves, At, TypeOK

LEMMA AdvanceFacts ==
  ASSUME TypeOK, NEW t \in Threads, NEW g \in Frame, frame' = [frame EXCEPT ![t] = g],
         g.op = frame[t].op, g.arg = frame[t].arg, g.index = frame[t].index,
         g.result = frame[t].result
  PROVE  Advances(t, g.pc, g.ptr, g.flushing)
  BY Zenon DEF Advances, Moves, TypeOK

\* Goto changes the label alone.
LEMMA GotoFacts ==
  ASSUME TypeOK, NEW t \in Threads, NEW pc \in Labels, Goto(t, pc)
  PROVE  Advances(t, pc, frame[t].ptr, frame[t].flushing)
<1> DEFINE f == frame[t]
           g == [f EXCEPT !.pc = pc]
<1>1. f \in Frame /\ frame \in [Threads -> Frame] /\ frame' = [frame EXCEPT ![t] = g]
  BY Zenon DEF TypeOK, Goto
<1>2. /\ g \in Frame /\ g.pc = pc /\ g.op = f.op /\ g.arg = f.arg /\ g.ptr = f.ptr
      /\ g.flushing = f.flushing /\ g.index = f.index /\ g.result = f.result
  <2> HIDE DEF f
  <2> QED BY <1>1, Zenon DEF Frame
<1> HIDE DEF g
<1> QED BY <1>1, <1>2, Zenon DEF Advances, Moves

\* The call is over.
Ends(t, pc) ==
    /\ Moves(t)
    /\ frame'[t].pc = pc /\ frame'[t].op = "none" /\ frame'[t].arg = Unsized
    /\ frame'[t].ptr = NoAddr /\ frame'[t].flushing = {}
    /\ frame'[t].index = 0 /\ frame'[t].result = NoAddr

LEMMA ReturnFacts ==
  ASSUME TypeOK, NEW t \in Threads, Return(t)
  PROVE  Ends(t, "idle")
  BY IdleFrameType, Zenon DEF Return, Ends, Moves, TypeOK, IdleFrame

LEMMA AfterFailureFacts ==
  ASSUME TypeOK, NEW t \in Threads, frame' = [frame EXCEPT ![t] = AfterFailure(@)]
  PROVE  \/ frame[t].index = 0 /\ Ends(t, "idle")
         \/ frame[t].index > 0 /\ Advances(t, "note", NoAddr, frame[t].flushing)
<1>1. frame[t] \in Frame /\ frame[t].index \in Nat
  BY Zenon DEF TypeOK, Frame
<1>2. CASE frame[t].index = 0
  BY <1>2, ReturnFacts, Zenon DEF AfterFailure, Return
<1>3. CASE frame[t].index # 0
  <2> DEFINE f == frame[t]
             g == [f EXCEPT !.pc = "note", !.ptr = NoAddr]
  <2>1. frame \in [Threads -> Frame] /\ frame' = [frame EXCEPT ![t] = g]
    BY <1>3, Zenon DEF AfterFailure, TypeOK
  <2>2. /\ g \in Frame /\ g.pc = "note" /\ g.op = f.op /\ g.arg = f.arg
        /\ g.ptr = NoAddr /\ g.flushing = f.flushing /\ g.index = f.index
        /\ g.result = f.result
    <3>1. f \in Frame /\ "note" \in Labels
      BY <1>1, Zenon DEF Labels
    <3> HIDE DEF f
    <3> QED BY <3>1, Zenon DEF Frame
  <2> HIDE DEF g
  <2> QED BY <1>1, <1>3, <2>1, <2>2 DEF Advances, Moves
<1> QED BY <1>2, <1>3, Zenon

LEMMA CallAllocateEffect ==
  ASSUME IInv, NEW t \in Threads, NEW r \in Requests, CallAllocate(t, r)
  PROVE  /\ SizeClass[r] # Rejected
         /\ UNCHANGED <<records, cached, live>>
         /\ \/ \E c \in Classes :
                 /\ c = SizeClass[r] /\ bins[t][c] # <<>>
                 /\ Enters(t, "hit", "allocate", r, Back(bins[t][c]), {})
                 /\ BinChanges(t, c) /\ bins'[t][c] = PopBack(bins[t][c])
            \/ /\ SizeClass[r] \in Classes => bins[t][SizeClass[r]] = <<>>
               /\ Enters(t, "refill", "allocate", r, NoAddr, {})
               /\ bins' = bins
<1> DEFINE c == SizeClass[r]
<1>1. /\ TypeOK /\ At(t, "idle") /\ SizeClass[r] # Rejected
      /\ UNCHANGED <<records, cached, live>>
  BY Zenon DEF CallAllocate, IInv
<1>2. CASE c \in Classes /\ bins[t][c] # <<>>
  <2>1. bins[t][c] \in Seq(Addr)
    BY <1>2, Zenon DEF IInv, TypeOK
  <2>2. PICK s \in Seq(Addr), p \in Addr : s = PopBack(bins[t][c]) /\ p = Back(bins[t][c])
    BY <1>2, <2>1, PopBackFacts, Zenon
  <2> DEFINE g == [IdleFrame EXCEPT !.op = "allocate", !.arg = r, !.pc = "hit", !.ptr = p]
  <2>3. frame' = [frame EXCEPT ![t] = g] /\ bins' = [bins EXCEPT ![t][c] = s]
    BY <1>2, <2>2, Zenon DEF CallAllocate
  <2>4. /\ g \in Frame /\ g.pc = "hit" /\ g.op = "allocate" /\ g.arg = r /\ g.ptr = p
        /\ g.flushing = {} /\ g.index = 0 /\ g.result = NoAddr
    BY Zenon DEF Frame, Labels, Operations, IdleFrame
  <2> HIDE DEF g
  <2>5. Enters(t, "hit", "allocate", r, p, {})
    BY <1>1, <2>3, <2>4, EnterFacts, Zenon
  <2>6. BinChanges(t, c) /\ bins'[t][c] = s
    BY <1>2, <2>3, Zenon DEF IInv, TypeOK, BinChanges
  <2> QED BY <1>1, <1>2, <2>2, <2>5, <2>6, Zenon
<1>3. CASE ~ (c \in Classes /\ bins[t][c] # <<>>)
  <2> DEFINE g == [IdleFrame EXCEPT !.op = "allocate", !.arg = r, !.pc = "refill"]
  <2>1. frame' = [frame EXCEPT ![t] = g] /\ bins' = bins
    BY <1>3, Zenon DEF CallAllocate
  <2>2. /\ g \in Frame /\ g.pc = "refill" /\ g.op = "allocate" /\ g.arg = r
        /\ g.ptr = NoAddr /\ g.flushing = {} /\ g.index = 0 /\ g.result = NoAddr
    BY Zenon DEF Frame, Labels, Operations, IdleFrame
  <2> HIDE DEF g
  <2>3. Enters(t, "refill", "allocate", r, NoAddr, {})
    BY <1>1, <2>1, <2>2, EnterFacts, Zenon
  <2> QED BY <1>1, <1>3, <2>1, <2>3, Zenon
<1> QED BY <1>2, <1>3, Zenon

LEMMA CallDeallocateEffect ==
  ASSUME IInv, NEW t \in Threads, NEW p \in Addr,
         NEW s \in Requests \cup {Unsized}, CallDeallocate(t, p, s)
  PROVE  /\ Enters(t, "lookup", "deallocate", s, p, {})
         /\ UNCHANGED <<records, bins, cached, live>>
<1> DEFINE g == [IdleFrame EXCEPT !.pc = "lookup", !.op = "deallocate", !.ptr = p, !.arg = s]
<1>1. /\ g \in Frame /\ g.pc = "lookup" /\ g.op = "deallocate" /\ g.arg = s
      /\ g.ptr = p /\ g.flushing = {} /\ g.index = 0 /\ g.result = NoAddr
  BY Zenon DEF Frame, Labels, Operations, IdleFrame
<1>2. /\ TypeOK /\ At(t, "idle") /\ frame' = [frame EXCEPT ![t] = g]
      /\ UNCHANGED <<records, bins, cached, live>>
  BY Zenon DEF CallDeallocate, IInv
<1> HIDE DEF g
<1> QED BY <1>1, <1>2, EnterFacts, Zenon

LEMMA FlushCallEffect ==
  ASSUME IInv, NEW t \in Threads, CallRelease(t) \/ ExitThread(t)
  PROVE  /\ \E op \in {"release", "exit"} : Enters(t, "flush", op, Unsized, NoAddr, Classes)
         /\ UNCHANGED <<records, bins, cached, live>>
<1>1. PICK op \in {"release", "exit"} :
        frame' = [frame EXCEPT ![t] = [IdleFrame EXCEPT
           !.pc = "flush", !.op = op, !.flushing = Classes]]
  BY Zenon DEF CallRelease, ExitThread
<1> DEFINE g == [IdleFrame EXCEPT !.pc = "flush", !.op = op, !.flushing = Classes]
<1>2. /\ g \in Frame /\ g.pc = "flush" /\ g.op = op /\ g.arg = Unsized
      /\ g.ptr = NoAddr /\ g.flushing = Classes /\ g.index = 0 /\ g.result = NoAddr
  BY Zenon DEF Frame, Labels, Operations, IdleFrame
<1>3. TypeOK /\ At(t, "idle") /\ UNCHANGED <<records, bins, cached, live>>
  BY Zenon DEF CallRelease, ExitThread, IInv
<1>4. Enters(t, "flush", op, Unsized, NoAddr, Classes)
  <2>1. frame' = [frame EXCEPT ![t] = g]
    BY <1>1, Zenon
  <2> HIDE DEF g
  <2> QED BY <1>2, <1>3, <2>1, EnterFacts, Zenon
<1> QED BY <1>3, <1>4, Zenon

LEMMA CentralAllocateEffect ==
  ASSUME IInv, NEW t \in Threads, CentralAllocate(t)
  PROVE  /\ frame[t].pc = "refill" /\ UNCHANGED <<records, bins, cached, live>>
         /\ \E p \in Addr : Advances(t, "record", p, frame[t].flushing)
<1>1. PICK p \in Addr : frame' = [frame EXCEPT ![t].pc = "record", ![t].ptr = p]
  BY Zenon DEF CentralAllocate
<1> DEFINE f == frame[t]
           g == [f EXCEPT !.pc = "record", !.ptr = p]
<1>2. f \in Frame /\ frame \in [Threads -> Frame] /\ TypeOK
  BY Zenon DEF IInv, TypeOK
<1>3. frame' = [frame EXCEPT ![t] = g]
  BY <1>1, <1>2, Zenon
<1>4. /\ g \in Frame /\ g.pc = "record" /\ g.op = f.op /\ g.arg = f.arg /\ g.ptr = p
      /\ g.flushing = f.flushing /\ g.index = f.index /\ g.result = f.result
  <2> HIDE DEF f
  <2> QED BY <1>2, Zenon DEF Frame, Labels
<1>5. Advances(t, "record", p, frame[t].flushing)
  <2> HIDE DEF g
  <2> QED BY <1>2, <1>3, <1>4, AdvanceFacts, Zenon
<1> QED BY <1>5, Zenon DEF CentralAllocate, At

LEMMA CentralAllocateFailsEffect ==
  ASSUME IInv, NEW t \in Threads, CentralAllocateFails(t)
  PROVE  /\ frame[t].pc = "refill" /\ UNCHANGED <<records, bins, cached, live>>
         /\ \/ frame[t].index = 0 /\ Ends(t, "idle")
            \/ frame[t].index > 0 /\ Advances(t, "note", NoAddr, frame[t].flushing)
  BY AfterFailureFacts, Zenon DEF CentralAllocateFails, At, IInv

LEMMA UndoAllocationEffect ==
  ASSUME IInv, NEW t \in Threads, UndoAllocation(t)
  PROVE  /\ frame[t].pc = "undo" /\ UNCHANGED <<records, bins, cached, live>>
         /\ \/ frame[t].index = 0 /\ Ends(t, "idle")
            \/ frame[t].index > 0 /\ Advances(t, "note", NoAddr, frame[t].flushing)
<1>1. /\ frame[t].pc = "undo" /\ frame[t].arg \in Requests /\ FreshOK(t)
      /\ UNCHANGED <<records, bins, cached, live>>
  BY Zenon DEF UndoAllocation, At, IInv, CacheInvariant, FrameOK
<1>2. central[frame[t].ptr] = Kind(frame[t].arg) /\ Kind(frame[t].arg) # Free
  BY <1>1, KindType, Zenon DEF FreshOK, HoldsFresh
<1>3. Returns(frame[t].ptr, frame[t].arg)
  BY <1>2, Zenon DEF Returns, Matches
<1>4. frame' = [frame EXCEPT ![t] = AfterFailure(@)]
  BY <1>3, Zenon DEF UndoAllocation
<1> QED BY <1>1, <1>4, AfterFailureFacts, Zenon DEF IInv

\* A block found in no record gets one: active for the first of a refill,
\* inactive for the others.
LEMMA RecordAllocationEffect ==
  ASSUME IInv, NEW t \in Threads, RecordAllocation(t)
  PROVE  /\ frame[t].pc = "record" /\ frame[t].ptr \in Addr /\ frame[t].arg \in Requests
         /\ records[frame[t].ptr] = NoRecord
         /\ records' = [records EXCEPT ![frame[t].ptr] =
              [kind |-> Kind(frame[t].arg), owner |-> t,
               state |-> IF frame[t].index = 0 THEN "active" ELSE "cached"]]
         /\ Advances(t, "keep", frame[t].ptr, frame[t].flushing)
         /\ UNCHANGED <<bins, cached, live>>
<1>1. /\ frame[t].pc = "record" /\ frame[t].ptr \in Addr /\ Unlocked(frame[t].ptr)
      /\ frame[t].arg \in Requests /\ FreshOK(t) /\ TypeOK
  BY Zenon DEF RecordAllocation, At, IInv, CacheInvariant, FrameOK
<1>2. records[frame[t].ptr] = NoRecord
  BY <1>1, UnlockedFacts, Zenon DEF FreshOK, HoldsFresh
<1>3. Goto(t, "keep")
  BY <1>2, Zenon DEF RecordAllocation
<1>4. Advances(t, "keep", frame[t].ptr, frame[t].flushing)
  BY <1>1, <1>3, GotoFacts, Zenon DEF Labels
<1> QED BY <1>1, <1>2, <1>4, Zenon DEF RecordAllocation

LEMMA RecordAllocationFailsEffect ==
  ASSUME IInv, NEW t \in Threads, RecordAllocationFails(t)
  PROVE  /\ frame[t].pc = "record" /\ UNCHANGED <<records, bins, cached, live>>
         /\ Advances(t, "undo", frame[t].ptr, frame[t].flushing)
<1>1. Advances(t, "undo", frame[t].ptr, frame[t].flushing)
  BY GotoFacts, Zenon DEF RecordAllocationFails, IInv, Labels
<1> QED BY <1>1, Zenon DEF RecordAllocationFails, At

\* The block in hand becomes the result, or goes to its bin.
LEMMA KeepBlockEffect ==
  ASSUME IInv, NEW t \in Threads, KeepBlock(t)
  PROVE  /\ frame[t].pc = "keep" /\ frame[t].ptr \in Addr
         /\ frame[t].index \in Nat /\ frame[t].arg \in Requests
         /\ Moves(t) /\ UNCHANGED <<records, live>>
         /\ frame'[t].pc = IF frame[t].index + 1 < BatchOf(frame[t].arg)
                           THEN "refill" ELSE "note"
         /\ frame'[t].op = frame[t].op /\ frame'[t].arg = frame[t].arg
         /\ frame'[t].ptr = NoAddr /\ frame'[t].index = frame[t].index + 1
         /\ frame'[t].flushing = frame[t].flushing
         /\ frame'[t].result = IF frame[t].index = 0 THEN frame[t].ptr
                               ELSE frame[t].result
         /\ \/ frame[t].index = 0 /\ UNCHANGED <<bins, cached>>
            \/ /\ frame[t].index > 0 /\ cached' = cached + 1
               /\ \E c \in Classes :
                     /\ c = SizeClass[frame[t].arg] /\ BinChanges(t, c)
                     /\ bins'[t][c] = Append(bins[t][c], frame[t].ptr)
<1> DEFINE f == frame[t]
           next == IF f.index + 1 < BatchOf(f.arg) THEN "refill" ELSE "note"
           result == IF f.index = 0 THEN f.ptr ELSE f.result
           n == f.index + 1
           g == [f EXCEPT !.pc = next, !.ptr = NoAddr, !.index = n, !.result = result]
<1>1. /\ f \in Frame /\ frame \in [Threads -> Frame] /\ f.pc = "keep" /\ TypeOK
      /\ f.ptr \in Addr /\ f.arg \in Requests /\ f.index \in Nat
      /\ f.index > 0 => SizeClass[f.arg] \in Classes
      /\ UNCHANGED <<records, live>> /\ frame' = [frame EXCEPT ![t] = g]
  BY Zenon DEF KeepBlock, At, IInv, TypeOK, CacheInvariant, FrameOK, Frame
<1>2. /\ g \in Frame /\ g.pc = next /\ g.op = f.op /\ g.arg = f.arg /\ g.ptr = NoAddr
      /\ g.index = n /\ g.flushing = f.flushing /\ g.result = result
  <2>1. next \in Labels /\ result \in Addr \cup {NoAddr} /\ n \in Nat
    BY <1>1 DEF Labels, Frame
  <2> HIDE DEF f, n, next, result
  <2> QED BY <1>1, <2>1, Zenon DEF Frame
<1>3. Moves(t) /\ frame'[t] = g
  <2> HIDE DEF g
  <2> QED BY <1>1, <1>2, Zenon DEF Moves
<1>4. \/ f.index = 0 /\ UNCHANGED <<bins, cached>>
      \/ /\ f.index > 0 /\ cached' = cached + 1
         /\ \E c \in Classes :
               /\ c = SizeClass[f.arg] /\ BinChanges(t, c)
               /\ bins'[t][c] = Append(bins[t][c], f.ptr)
  <2>1. CASE f.index = 0
    BY <2>1, Zenon DEF KeepBlock
  <2>2. CASE f.index # 0
    <3>1. f.index > 0
      BY <1>1, <2>2
    <3>2. PICK c \in Classes : c = SizeClass[f.arg]
      BY <1>1, <3>1, Zenon
    <3>3. cached' = cached + 1 /\ bins' = [bins EXCEPT ![t][c] = Append(@, f.ptr)]
      BY <2>2, <3>2, Zenon DEF KeepBlock
    <3>4. BinChanges(t, c) /\ bins'[t][c] = Append(bins[t][c], f.ptr)
      BY <1>1, <3>3, AppendToBin, Zenon
    <3> QED BY <3>1, <3>2, <3>3, <3>4, Zenon
  <2> QED BY <2>1, <2>2, Zenon
<1> HIDE DEF g
<1> QED BY <1>1, <1>2, <1>3, <1>4, Zenon

LEMMA NoteLiveAllocationEffect ==
  ASSUME IInv, NEW t \in Threads, NoteLiveAllocation(t)
  PROVE  /\ frame[t].pc = "note" /\ Ends(t, "idle") /\ live' = live + 1
         /\ UNCHANGED <<records, bins, cached>>
  BY ReturnFacts, Zenon DEF NoteLiveAllocation, At, IInv

\* The block popped from its bin is inactive and becomes active.
LEMMA CacheHitEffect ==
  ASSUME IInv, NEW t \in Threads, CacheHit(t)
  PROVE  /\ frame[t].pc = "hit" /\ frame[t].ptr \in Addr /\ frame[t].arg \in Requests
         /\ SizeClass[frame[t].arg] \in Classes
         /\ records[frame[t].ptr] = CachedRecord(t, SizeClass[frame[t].arg])
         /\ IsCached(frame[t].ptr)
         /\ records' = [records EXCEPT ![frame[t].ptr] =
              [kind |-> SizeClass[frame[t].arg], owner |-> t, state |-> "active"]]
         /\ cached' = cached - 1 /\ live' = live + 1
         /\ Ends(t, "idle") /\ UNCHANGED bins
<1>1. /\ frame[t].pc = "hit" /\ frame[t].ptr \in Addr /\ frame[t].arg \in Requests
      /\ SizeClass[frame[t].arg] \in Classes /\ TypeOK
      /\ records \in [Addr -> Record \cup {NoRecord}]
  BY Zenon DEF CacheHit, At, IInv, CacheInvariant, FrameOK, TypeOK
<1>2. PICK p \in Addr, c \in Classes : p = frame[t].ptr /\ c = SizeClass[frame[t].arg]
  BY <1>1, Zenon
<1>3. records[p] = CachedRecord(t, c)
  <2>1. HoldsCached(t, c) /\ HandOK(t, c)
    BY <1>1, <1>2, Zenon DEF HoldsCached, At, IInv, CacheInvariant
  <2> QED BY <1>2, <2>1, Zenon DEF HandOK
<1>4. IsCached(p)
  BY <1>3, RecordFacts DEF IsCached, CachedRecord, Record, Kinds
<1>5. /\ records' = [records EXCEPT ![p].owner = t, ![p].state = "active"]
      /\ cached' = cached - 1 /\ live' = live + 1 /\ Return(t) /\ UNCHANGED bins
  BY <1>2, <1>4, Zenon DEF CacheHit, Return
<1>6. records' = [records EXCEPT ![p] = [kind |-> c, owner |-> t, state |-> "active"]]
  <2>1. records'[p] = [kind |-> c, owner |-> t, state |-> "active"]
    BY <1>1, <1>3, <1>5 DEF CachedRecord
  <2>2. records' = [records EXCEPT ![p] = records'[p]]
    BY <1>1, <1>5, Zenon
  <2> QED BY <2>1, <2>2, Zenon
<1> QED BY <1>1, <1>2, <1>3, <1>4, <1>5, <1>6, ReturnFacts, Zenon

LEMMA DeallocateRejectedEffect ==
  ASSUME IInv, NEW t \in Threads, DeallocateRejected(t)
  PROVE  /\ frame[t].pc = "lookup" /\ frame[t].ptr \in Addr /\ Ends(t, "idle")
         /\ ~ (IsActive(frame[t].ptr) /\ Matches(records[frame[t].ptr].kind, frame[t].arg))
         /\ UNCHANGED <<records, bins, cached, live>>
<1>1. Ends(t, "idle") /\ frame[t].pc = "lookup"
  BY ReturnFacts, Zenon DEF DeallocateRejected, At, IInv
<1>2. frame[t].ptr \in Addr
  BY <1>1, Zenon DEF IInv, CacheInvariant, FrameOK
<1> QED BY <1>1, <1>2, Zenon DEF DeallocateRejected

LEMMA DeallocateToCentralEffect ==
  ASSUME IInv, NEW t \in Threads, DeallocateToCentral(t)
  PROVE  /\ frame[t].pc = "lookup" /\ UNCHANGED <<records, bins, cached, live>>
         /\ Advances(t, "free_central", frame[t].ptr, frame[t].flushing)
<1>1. Advances(t, "free_central", frame[t].ptr, frame[t].flushing)
  BY GotoFacts, Zenon DEF DeallocateToCentral, IInv, Labels
<1> QED BY <1>1, Zenon DEF DeallocateToCentral, At

LEMMA CentralDeallocateEffect ==
  ASSUME IInv, NEW t \in Threads, CentralDeallocate(t)
  PROVE  /\ frame[t].pc = "free_central" /\ UNCHANGED <<records, bins, cached, live>>
         /\ Advances(t, "free_erase", frame[t].ptr, frame[t].flushing)
<1>1. frame[t].pc = "free_central"
  BY Zenon DEF CentralDeallocate, At
<1>2. Returns(frame[t].ptr, frame[t].arg)
  BY <1>1, HeldBlock, Zenon DEF Returns, IInv, CacheInvariant, FreeOK
<1>3. Goto(t, "free_erase") /\ UNCHANGED <<records, bins, cached, live>>
  BY <1>2, Zenon DEF CentralDeallocate
<1> QED BY <1>1, <1>3, GotoFacts, Zenon DEF IInv, Labels

LEMMA EraseRecordEffect ==
  ASSUME IInv, NEW t \in Threads, EraseRecord(t)
  PROVE  /\ frame[t].pc = "free_erase" /\ frame[t].ptr \in Addr /\ IsActive(frame[t].ptr)
         /\ Matches(records[frame[t].ptr].kind, frame[t].arg)
         /\ records' = [records EXCEPT ![frame[t].ptr] = NoRecord]
         /\ live' = live - 1 /\ Ends(t, "idle") /\ UNCHANGED <<bins, cached>>
<1>1. frame[t].pc = "free_erase" /\ Ends(t, "idle")
  BY ReturnFacts, Zenon DEF EraseRecord, At, IInv
<1>2. /\ frame[t].ptr \in Addr /\ IsActive(frame[t].ptr)
      /\ Matches(records[frame[t].ptr].kind, frame[t].arg)
  BY <1>1, Zenon DEF IInv, CacheInvariant, FrameOK, FreeOK, HoldsShard
<1> QED BY <1>1, <1>2, Zenon DEF EraseRecord

LEMMA DeallocateLocalEffect ==
  ASSUME IInv, NEW t \in Threads, DeallocateLocal(t)
  PROVE  \E c \in Classes :
           /\ frame[t].pc = "lookup" /\ frame[t].ptr \in Addr /\ IsActive(frame[t].ptr)
           /\ Matches(records[frame[t].ptr].kind, frame[t].arg)
           /\ records[frame[t].ptr].kind = c
           /\ records' = [records EXCEPT ![frame[t].ptr] = CachedRecord(t, c)]
           /\ live' = live - 1 /\ cached' = cached + 1
           /\ Advances(t, "push", frame[t].ptr, {c}) /\ UNCHANGED bins
<1>1. /\ frame[t].pc = "lookup" /\ IsActive(frame[t].ptr)
      /\ Matches(records[frame[t].ptr].kind, frame[t].arg)
      /\ records[frame[t].ptr].owner = t /\ records[frame[t].ptr].kind \in Classes
      /\ live' = live - 1 /\ cached' = cached + 1 /\ UNCHANGED bins
  BY Zenon DEF DeallocateLocal, At
<1>2. frame[t].ptr \in Addr
  BY <1>1, Zenon DEF IInv, CacheInvariant, FrameOK
<1>3. PICK p \in Addr, c \in Classes : p = frame[t].ptr /\ c = records[p].kind
  BY <1>1, <1>2, Zenon
<1>4. /\ records' = [records EXCEPT ![p].state = "cached"]
      /\ frame' = [frame EXCEPT ![t].pc = "push", ![t].flushing = {c}]
  BY <1>3, Zenon DEF DeallocateLocal
<1>5. /\ records \in [Addr -> Record \cup {NoRecord}] /\ frame \in [Threads -> Frame]
      /\ TypeOK /\ records[p] \in Record
  BY <1>1, <1>3, Zenon DEF IInv, TypeOK, IsActive
<1>6. records' = [records EXCEPT ![p] = CachedRecord(t, c)]
  <2>1. records' = [records EXCEPT ![p] = [records[p] EXCEPT !.state = "cached"]]
    BY <1>4, <1>5, Zenon
  <2>2. [records[p] EXCEPT !.state = "cached"] = CachedRecord(t, c)
    BY <1>1, <1>3, <1>5 DEF Record, CachedRecord
  <2> QED BY <2>1, <2>2, Zenon
<1> DEFINE f == frame[t]
           g == [f EXCEPT !.pc = "push", !.flushing = {c}]
<1>7. f \in Frame /\ {c} \in SUBSET Classes
  BY <1>5, Zenon
<1>8. /\ g \in Frame /\ g.pc = "push" /\ g.op = f.op /\ g.arg = f.arg /\ g.ptr = f.ptr
      /\ g.flushing = {c} /\ g.index = f.index /\ g.result = f.result
  <2> HIDE DEF f
  <2> QED BY <1>7, Zenon DEF Frame, Labels
<1>9. Advances(t, "push", frame[t].ptr, {c})
  <2>1. frame' = [frame EXCEPT ![t] = g]
    BY <1>4, <1>5, Zenon
  <2> HIDE DEF g
  <2> QED BY <1>5, <1>8, <2>1, AdvanceFacts, Zenon
<1> QED BY <1>1, <1>2, <1>3, <1>6, <1>9, Zenon

LEMMA PushLocalEffect ==
  ASSUME IInv, NEW t \in Threads, PushLocal(t)
  PROVE  \E c \in Classes :
           /\ frame[t].pc = "push" /\ frame[t].ptr \in Addr /\ frame[t].flushing = {c}
           /\ BinChanges(t, c) /\ bins'[t][c] = Append(bins[t][c], frame[t].ptr)
           /\ IF Len(bins[t][c]) + 1 > HighWatermark
              THEN Advances(t, "flush", NoAddr, {c}) ELSE Ends(t, "idle")
           /\ UNCHANGED <<records, cached, live>>
<1>1. frame[t].pc = "push" /\ TypeOK
  BY Zenon DEF PushLocal, At, IInv
<1>2. frame[t].ptr \in Addr /\ \E c \in Classes : frame[t].flushing = {c}
  BY <1>1, Zenon DEF IInv, CacheInvariant, FrameOK, At
<1>3. PICK c \in Classes : frame[t].flushing = {c}
  BY <1>2, Zenon
<1>4. /\ bins' = [bins EXCEPT ![t][c] = Append(@, frame[t].ptr)]
      /\ frame' = [frame EXCEPT ![t] =
             IF Len(bins[t][c]) + 1 > HighWatermark
             THEN [@ EXCEPT !.pc = "flush", !.ptr = NoAddr] ELSE IdleFrame]
      /\ UNCHANGED <<records, cached, live>>
  BY <1>3, Zenon DEF PushLocal
<1>5. BinChanges(t, c) /\ bins'[t][c] = Append(bins[t][c], frame[t].ptr)
  BY <1>1, <1>2, <1>4, AppendToBin, Zenon
<1>6. CASE Len(bins[t][c]) + 1 > HighWatermark
  <2> DEFINE f == frame[t]
             g == [f EXCEPT !.pc = "flush", !.ptr = NoAddr]
  <2>1. f \in Frame /\ frame' = [frame EXCEPT ![t] = g]
    BY <1>1, <1>4, <1>6, Zenon DEF TypeOK
  <2>2. /\ g \in Frame /\ g.pc = "flush" /\ g.op = f.op /\ g.arg = f.arg
        /\ g.ptr = NoAddr /\ g.flushing = f.flushing /\ g.index = f.index
        /\ g.result = f.result
    <3> HIDE DEF f
    <3> QED BY <2>1, Zenon DEF Frame, Labels
  <2>3. Advances(t, "flush", NoAddr, {c})
    <3> HIDE DEF g
    <3> QED BY <1>1, <1>3, <2>1, <2>2, AdvanceFacts, Zenon
  <2> QED BY <1>1, <1>2, <1>3, <1>4, <1>5, <1>6, <2>3, Zenon
<1>7. CASE ~ (Len(bins[t][c]) + 1 > HighWatermark)
  <2>1. Return(t)
    BY <1>4, <1>7, Zenon DEF Return
  <2>2. Ends(t, "idle")
    BY <1>1, <2>1, ReturnFacts, Zenon
  <2> QED BY <1>1, <1>2, <1>3, <1>4, <1>5, <1>7, <2>2, Zenon
<1> QED BY <1>6, <1>7, Zenon

LEMMA FlushLockEffect ==
  ASSUME IInv, NEW t \in Threads, FlushLock(t)
  PROVE  /\ frame[t].pc = "flush" /\ UNCHANGED <<records, bins, cached, live>>
         /\ \E p \in Addr : Advances(t, "flush_central", p, frame[t].flushing)
<1>1. PICK c \in Classes :
        /\ frame[t].pc = "flush" /\ Len(bins[t][c]) > FlushTarget(t)
        /\ frame' = [frame EXCEPT
             ![t].pc = IF IsCached(Back(bins[t][c])) THEN "flush_central" ELSE "broken",
             ![t].ptr = Back(bins[t][c])]
        /\ UNCHANGED <<records, bins, cached, live>>
  BY Zenon DEF FlushLock, At
<1>2. bins[t][c] \in Seq(Addr) /\ frame \in [Threads -> Frame] /\ TypeOK
  BY Zenon DEF IInv, TypeOK
<1>3. Len(bins[t][c]) \in Nat \ {0}
  BY <1>1, <1>2, OptionsAssumption DEF FlushTarget, validate_cache_options
<1>4. PICK p \in Addr : p = Back(bins[t][c])
  BY <1>2, <1>3, SequenceFacts DEF Back
<1>5. IsCached(p)
  <2>1. records[p] = CachedRecord(t, c)
    BY <1>3, <1>4 DEF IInv, CacheInvariant, BinOK, Back
  <2> QED BY <2>1, RecordFacts DEF IsCached, CachedRecord, Record, Kinds
<1> DEFINE f == frame[t]
           g == [f EXCEPT !.pc = "flush_central", !.ptr = p]
<1>6. f \in Frame
  BY <1>2, Zenon
<1>7. /\ g \in Frame /\ g.pc = "flush_central" /\ g.op = f.op /\ g.arg = f.arg
      /\ g.ptr = p /\ g.flushing = f.flushing /\ g.index = f.index
      /\ g.result = f.result
  <2> HIDE DEF f
  <2> QED BY <1>6, Zenon DEF Frame, Labels
<1>8. frame' = [frame EXCEPT ![t] = g]
  <2>1. frame' = [frame EXCEPT ![t].pc = "flush_central", ![t].ptr = p]
    BY <1>1, <1>4, <1>5, Zenon
  <2> QED BY <1>2, <2>1, Zenon
<1>9. Advances(t, "flush_central", p, frame[t].flushing)
  <2> HIDE DEF g
  <2> QED BY <1>2, <1>7, <1>8, AdvanceFacts, Zenon
<1> QED BY <1>1, <1>9, Zenon

LEMMA FlushCentralEffect ==
  ASSUME IInv, NEW t \in Threads, FlushCentral(t)
  PROVE  /\ frame[t].pc = "flush_central" /\ UNCHANGED <<records, bins, cached, live>>
         /\ Advances(t, "flush_erase", frame[t].ptr, frame[t].flushing)
<1>1. frame[t].pc = "flush_central"
  BY Zenon DEF FlushCentral, At
<1>2. Returns(frame[t].ptr, Unsized)
  BY <1>1, HeldBlock, Zenon DEF Returns, Matches
<1>3. Goto(t, "flush_erase") /\ UNCHANGED <<records, bins, cached, live>>
  BY <1>2, Zenon DEF FlushCentral
<1> QED BY <1>1, <1>3, GotoFacts, Zenon DEF IInv, Labels

\* The block at the back of the current bin leaves it and loses its record.
LEMMA FlushEraseEffect ==
  ASSUME IInv, NEW t \in Threads, FlushErase(t)
  PROVE  \E c \in Classes :
           /\ frame[t].pc = "flush_erase" /\ frame[t].ptr \in Addr
           /\ CurrentBin(t, c) /\ bins[t][c] # <<>> /\ Back(bins[t][c]) = frame[t].ptr
           /\ records[frame[t].ptr] = CachedRecord(t, c)
           /\ records' = [records EXCEPT ![frame[t].ptr] = NoRecord]
           /\ BinChanges(t, c) /\ bins'[t][c] = PopBack(bins[t][c])
           /\ Advances(t, "flush", NoAddr, frame[t].flushing)
           /\ cached' = cached - 1 /\ UNCHANGED live
<1>1. frame[t].pc = "flush_erase" /\ TypeOK /\ frame \in [Threads -> Frame]
  BY Zenon DEF FlushErase, At, IInv, TypeOK
<1>2. PICK c \in Classes :
        /\ CurrentBin(t, c)
        /\ records' = [records EXCEPT ![frame[t].ptr] = NoRecord]
        /\ bins' = [bins EXCEPT ![t][c] = PopBack(@)]
        /\ cached' = cached - 1 /\ UNCHANGED live
        /\ frame' = [frame EXCEPT ![t].pc = "flush", ![t].ptr = NoAddr]
  BY Zenon DEF FlushErase
<1>3. frame[t].ptr \in Addr
  BY <1>1, Zenon DEF IInv, CacheInvariant, FrameOK, HoldsShard
<1>4. bins[t][c] \in Seq(Addr) /\ Len(bins[t][c]) > 0 /\ Back(bins[t][c]) = frame[t].ptr
  BY <1>1, <1>2, Zenon DEF IInv, CacheInvariant, FlushOK, TypeOK
<1>5. bins[t][c] # <<>> /\ PopBack(bins[t][c]) \in Seq(Addr)
  <2>1. bins[t][c] # <<>>
    BY <1>4
  <2> QED BY <1>4, <2>1, PopBackFacts, Zenon
<1>6. BinChanges(t, c) /\ bins'[t][c] = PopBack(bins[t][c])
  BY <1>1, <1>2, <1>5, Zenon DEF BinChanges, TypeOK
<1>7. records[frame[t].ptr] = CachedRecord(t, c)
  <2>1. Len(bins[t][c]) \in 1 .. Len(bins[t][c])
    BY <1>4
  <2> QED BY <1>4, <2>1 DEF IInv, CacheInvariant, BinOK, Back
<1> DEFINE f == frame[t]
           g == [f EXCEPT !.pc = "flush", !.ptr = NoAddr]
<1>8. /\ g \in Frame /\ g.pc = "flush" /\ g.op = f.op /\ g.arg = f.arg
      /\ g.ptr = NoAddr /\ g.flushing = f.flushing /\ g.index = f.index
      /\ g.result = f.result
  <2>1. f \in Frame
    BY <1>1, Zenon
  <2> HIDE DEF f
  <2> QED BY <2>1, Zenon DEF Frame, Labels
<1>9. Advances(t, "flush", NoAddr, frame[t].flushing)
  <2>1. frame' = [frame EXCEPT ![t] = g]
    BY <1>1, <1>2, Zenon
  <2> HIDE DEF g
  <2> QED BY <1>1, <1>8, <2>1, AdvanceFacts, Zenon
<1> QED BY <1>1, <1>2, <1>3, <1>4, <1>5, <1>6, <1>7, <1>9, Zenon

LEMMA FlushBinDoneEffect ==
  ASSUME IInv, NEW t \in Threads, FlushBinDone(t)
  PROVE  \E c \in Classes :
           /\ frame[t].pc = "flush" /\ c \in frame[t].flushing
           /\ Len(bins[t][c]) <= FlushTarget(t)
           /\ UNCHANGED <<records, bins, cached, live>>
           /\ \/ \E pc \in {"idle", "exited"} :
                    frame[t].flushing = {c} /\ Moves(t) /\ frame'[t].pc = pc
                    /\ frame'[t].op = "none" /\ frame'[t].index = 0
              \/ /\ frame[t].flushing # {c}
                 /\ Advances(t, "flush", frame[t].ptr, frame[t].flushing \ {c})
<1> DEFINE f == frame[t]
<1>1. PICK c \in Classes :
        LET rest == f.flushing \ {c}
            ended == IF f.op = "exit"
                     THEN [IdleFrame EXCEPT !.pc = "exited"] ELSE IdleFrame
        IN  /\ f.pc = "flush" /\ c \in f.flushing
            /\ Len(bins[t][c]) <= FlushTarget(t)
            /\ frame' = [frame EXCEPT ![t] =
                 IF rest = {} THEN ended ELSE [f EXCEPT !.flushing = rest]]
            /\ UNCHANGED <<records, bins, cached, live>>
  BY Zenon DEF FlushBinDone, CurrentBin, At
<1>2. f \in Frame /\ frame \in [Threads -> Frame] /\ TypeOK
  BY Zenon DEF IInv, TypeOK
<1> DEFINE rest == f.flushing \ {c}
           ended == IF f.op = "exit" THEN [IdleFrame EXCEPT !.pc = "exited"] ELSE IdleFrame
           g == [f EXCEPT !.flushing = rest]
<1>3. CASE rest = {}
  <2>1. /\ ended \in Frame /\ ended.pc \in {"idle", "exited"} /\ ended.op = "none"
        /\ ended.index = 0
    <3>1. IdleFrame \in Frame /\ IdleFrame.pc = "idle" /\ IdleFrame.op = "none"
          /\ IdleFrame.index = 0
      BY IdleFrameType, Zenon DEF IdleFrame
    <3>2. /\ [IdleFrame EXCEPT !.pc = "exited"] \in Frame
          /\ [IdleFrame EXCEPT !.pc = "exited"].pc = "exited"
          /\ [IdleFrame EXCEPT !.pc = "exited"].op = "none"
          /\ [IdleFrame EXCEPT !.pc = "exited"].index = 0
      BY Zenon DEF Frame, Labels, Operations, IdleFrame
    <3> QED BY <3>1, <3>2, Zenon
  <2>2. frame' = [frame EXCEPT ![t] = ended]
    BY <1>1, <1>3, Zenon
  <2>3. f.flushing = {c}
    BY <1>1, <1>3, Zenon
  <2> HIDE DEF ended
  <2>4. Moves(t) /\ frame'[t] = ended
    BY <1>2, <2>1, <2>2, Zenon DEF Moves
  <2> QED BY <1>1, <2>1, <2>3, <2>4, Zenon
<1>4. CASE rest # {}
  <2>1. /\ g \in Frame /\ g.pc = "flush" /\ g.op = f.op /\ g.arg = f.arg
        /\ g.ptr = f.ptr /\ g.flushing = rest /\ g.index = f.index
        /\ g.result = f.result
    <3>1. rest \in SUBSET Classes /\ f.pc = "flush"
      BY <1>1, <1>2, Zenon DEF Frame
    <3> HIDE DEF f, rest
    <3> QED BY <1>2, <3>1, Zenon DEF Frame
  <2>2. frame' = [frame EXCEPT ![t] = g]
    BY <1>1, <1>4, Zenon
  <2> HIDE DEF g
  <2>3. Advances(t, "flush", frame[t].ptr, rest)
    BY <1>2, <2>1, <2>2, AdvanceFacts, Zenon
  <2> QED BY <1>1, <1>4, <2>3, Zenon
<1> QED BY <1>3, <1>4, Zenon

------------------------------------------------------------------------------
(* The steps keep CacheInvariant.                                          *)

\* The thread is at a label at which no block is in its hands.
Quiet(t) ==
    ~ HoldsShard(t) /\ ~ HoldsFresh(t) /\ \A c \in Classes : ~ HoldsCached(t, c)

\* A step between quiet labels that leaves the shared state alone.
LEMMA QuietStep ==
  ASSUME IInv, NEW t \in Threads, Moves(t), Quiet(t), Quiet(t)', FrameOK(t)',
         UNCHANGED <<records, shardLock, bins, central>>,
         cached' \in Int, live' \in Int
  PROVE  IInv'
<1> USE DEF IInv, CacheInvariant
<1>1. TypeOK'
  BY Zenon DEF TypeOK, Moves
<1>2. \A p \in Addr : Erasing(p)' <=> Erasing(p)
  BY Zenon DEF Erasing, Quiet, HoldsShard, Moves
<1>3. ASSUME NEW u \in Threads
      PROVE  FrameOK(u)' /\ LockOK(u)' /\ FreshOK(u)' /\ FreeOK(u)'
  <2>1. CASE u = t
    BY <2>1, Zenon DEF Quiet, LockOK, FreshOK, FreeOK, HoldsShard, At
  <2>2. CASE u # t
    <3>1. FrameOK(u)' /\ LockOK(u)' /\ FreeOK(u)'
      <4>1. frame'[u] = frame[u] /\ FrameOK(u) /\ LockOK(u) /\ FreeOK(u)
        BY <2>2, Zenon DEF Moves
      <4>2. FrameOK(u)'
        BY <4>1, Zenon DEF FrameOK, HoldsShard, At
      <4>3. LockOK(u)'
        BY <4>1, Zenon DEF LockOK, HoldsShard
      <4>4. FreeOK(u)'
        BY <4>1, Zenon DEF FreeOK, HoldsShard, IsActive, Matches
      <4> QED BY <4>2, <4>3, <4>4, Zenon
    <3>2. FreshOK(u)'
      BY <1>2, <2>2, Zenon DEF FreshOK, HoldsFresh, At, Moves, FrameOK
    <3> QED BY <3>1, <3>2, Zenon
  <2> QED BY <2>1, <2>2, Zenon
<1>4. ASSUME NEW u \in Threads, NEW v \in Threads PROVE FreshDistinct(u, v)'
  BY Zenon DEF FreshDistinct, Quiet, HoldsFresh, Moves
<1>5. ASSUME NEW u \in Threads, NEW c \in Classes
      PROVE  BinOK(u, c)' /\ HandOK(u, c)' /\ FlushOK(u, c)'
  <2>1. BinOK(u, c)'
    BY Zenon DEF BinOK
  <2>2. CASE u = t
    BY <2>1, <2>2, Zenon DEF Quiet, HandOK, FlushOK, HoldsShard
  <2>3. CASE u # t
    <3>1. frame'[u] = frame[u] /\ HandOK(u, c) /\ FlushOK(u, c)
      BY <2>3, Zenon DEF Moves
    <3>2. HandOK(u, c)'
      BY <3>1, Zenon DEF HandOK, HoldsCached, At
    <3>3. FlushOK(u, c)'
      BY <3>1, Zenon DEF FlushOK, CurrentBin
    <3> QED BY <2>1, <3>2, <3>3, Zenon
  <2> QED BY <2>2, <2>3, Zenon
<1>6. ASSUME NEW p \in Addr PROVE CentralOK(p)'
  <2>1. ASSUME NEW u \in Threads, HoldsFresh(u) /\ frame[u].ptr = p
        PROVE  HoldsFresh(u)' /\ frame'[u].ptr = p
    BY <2>1, Zenon DEF HoldsFresh, Quiet, Moves
  <2> QED BY <1>2, <2>1, Zenon DEF CentralOK
<1> QED BY <1>1, <1>3, <1>4, <1>5, <1>6, Zenon
------------------------------------------------------------------------------
(* The actions that only move a thread between quiet labels.               *)

LEMMA QuietLabels ==
  ASSUME NEW t \in Threads,
         frame[t].pc \in {"idle", "refill", "note", "lookup", "flush", "exited"}
  PROVE  Quiet(t)
  BY Zenon DEF Quiet, HoldsShard, HoldsFresh, HoldsCached, At

LEMMA ReturnQuiet ==
  ASSUME TypeOK, NEW t \in Threads, Return(t)
  PROVE  Moves(t) /\ Quiet(t)' /\ FrameOK(t)'
<1>1. Moves(t) /\ frame'[t] = IdleFrame
  BY IdleFrameType, Zenon DEF Return, Moves, TypeOK
<1>2. frame'[t].pc = "idle"
  BY <1>1 DEF IdleFrame
<1> QED BY <1>1, <1>2, Zenon DEF Quiet, FrameOK, HoldsShard, HoldsFresh, HoldsCached, At

LEMMA CallDeallocateInv ==
  ASSUME IInv, NEW t \in Threads, NEW p \in Addr,
         NEW s \in Requests \cup {Unsized}, CallDeallocate(t, p, s)
  PROVE  IInv'
<1>1. Moves(t) /\ frame'[t].pc = "lookup" /\ frame'[t].ptr = p
  BY Zenon DEF CallDeallocate, Moves, IInv, TypeOK, Frame, Labels, Operations, IdleFrame
<1>2. Quiet(t) /\ Quiet(t)' /\ FrameOK(t)'
  BY <1>1, Zenon DEF CallDeallocate, At, Quiet, FrameOK, HoldsShard, HoldsFresh, HoldsCached
<1> QED BY <1>1, <1>2, QuietStep, Zenon DEF CallDeallocate, IInv, TypeOK

LEMMA FlushCallInv ==
  ASSUME IInv, NEW t \in Threads, CallRelease(t) \/ ExitThread(t)
  PROVE  IInv'
<1>1. Moves(t) /\ frame'[t].pc = "flush"
  <2>1. PICK op \in {"release", "exit"} :
          frame' = [frame EXCEPT ![t] = [IdleFrame EXCEPT
             !.pc = "flush", !.op = op, !.flushing = Classes]]
    BY Zenon DEF CallRelease, ExitThread
  <2> QED BY <2>1, Zenon DEF Moves, IInv, TypeOK, Frame, Labels, Operations, IdleFrame
<1>2. Quiet(t) /\ Quiet(t)' /\ FrameOK(t)'
  BY <1>1, Zenon DEF CallRelease, ExitThread, At, Quiet, FrameOK, HoldsShard, HoldsFresh,
              HoldsCached
<1> QED BY <1>1, <1>2, QuietStep, Zenon DEF CallRelease, ExitThread, IInv, TypeOK

LEMMA NoteLiveAllocationInv ==
  ASSUME IInv, NEW t \in Threads, NoteLiveAllocation(t)
  PROVE  IInv'
<1>1. Quiet(t)
  BY QuietLabels, Zenon DEF NoteLiveAllocation, At
<1> QED BY <1>1, ReturnQuiet, QuietStep DEF NoteLiveAllocation, IInv, TypeOK

LEMMA DeallocateRejectedInv ==
  ASSUME IInv, NEW t \in Threads, DeallocateRejected(t)
  PROVE  IInv'
<1>1. Quiet(t)
  BY QuietLabels, Zenon DEF DeallocateRejected, At
<1> QED BY <1>1, ReturnQuiet, QuietStep, Zenon DEF DeallocateRejected, IInv, TypeOK

LEMMA AfterFailureQuiet ==
  ASSUME TypeOK, NEW t \in Threads,
         frame' = [frame EXCEPT ![t] = AfterFailure(@)]
  PROVE  Moves(t) /\ Quiet(t)' /\ FrameOK(t)' /\ frame'[t].pc \in {"idle", "note"}
<1>1. AfterFailure(frame[t]) \in Frame /\ AfterFailure(frame[t]).pc \in {"idle", "note"}
  <2>1. frame[t] \in Frame
    BY Zenon DEF TypeOK
  <2>2. CASE frame[t].index = 0
    BY <2>2, IdleFrameType, Zenon DEF AfterFailure, IdleFrame
  <2>3. CASE frame[t].index # 0
    BY <2>1, <2>3, Zenon DEF AfterFailure, Frame, Labels
  <2> QED BY <2>2, <2>3, Zenon
<1>2. Moves(t) /\ frame'[t].pc \in {"idle", "note"}
  BY <1>1, Zenon DEF Moves, TypeOK
<1> QED BY <1>2, Zenon DEF Quiet, FrameOK, HoldsShard, HoldsFresh, HoldsCached, At

LEMMA CentralAllocateFailsInv ==
  ASSUME IInv, NEW t \in Threads, CentralAllocateFails(t)
  PROVE  IInv'
<1>1. Quiet(t)
  BY QuietLabels, Zenon DEF CentralAllocateFails, At
<1> QED BY <1>1, AfterFailureQuiet, QuietStep, Zenon DEF CentralAllocateFails, IInv, TypeOK

LEMMA FlushBinDoneInv ==
  ASSUME IInv, NEW t \in Threads, FlushBinDone(t)
  PROVE  IInv'
<1>1. Quiet(t)
  BY QuietLabels, Zenon DEF FlushBinDone, At
<1>2. Moves(t) /\ frame'[t].pc \in {"idle", "exited", "flush"}
  <2>1. PICK c \in Classes :
          LET rest == frame[t].flushing \ {c}
              ended == IF frame[t].op = "exit"
                       THEN [IdleFrame EXCEPT !.pc = "exited"] ELSE IdleFrame
          IN  frame' = [frame EXCEPT ![t] =
                 IF rest = {} THEN ended ELSE [@ EXCEPT !.flushing = rest]]
    BY Zenon DEF FlushBinDone
  <2> DEFINE rest == frame[t].flushing \ {c}
  <2>2. frame[t] \in Frame /\ frame[t].pc = "flush" /\ frame \in [Threads -> Frame]
    BY Zenon DEF IInv, TypeOK, FlushBinDone, At
  <2>3. /\ [IdleFrame EXCEPT !.pc = "exited"] \in Frame
        /\ [IdleFrame EXCEPT !.pc = "exited"].pc = "exited"
        /\ IdleFrame.pc = "idle"
    BY IdleFrameType, Zenon DEF Frame, Labels, IdleFrame
  <2>4. /\ [frame[t] EXCEPT !.flushing = rest] \in Frame
        /\ [frame[t] EXCEPT !.flushing = rest].pc = "flush"
    BY <2>2, Zenon DEF Frame
  <2>5. /\ frame'[t] \in {IdleFrame, [IdleFrame EXCEPT !.pc = "exited"],
                          [frame[t] EXCEPT !.flushing = rest]}
        /\ \A u \in Threads : u # t => frame'[u] = frame[u]
        /\ frame' = [frame EXCEPT ![t] = frame'[t]]
    BY <2>1, <2>2, Zenon
  <2>6. frame'[t] \in Frame /\ frame'[t].pc \in {"idle", "exited", "flush"}
    BY <2>3, <2>4, <2>5, IdleFrameType, Zenon
  <2> QED BY <2>2, <2>5, <2>6, Zenon DEF Moves
<1>3. Quiet(t)' /\ FrameOK(t)'
  BY <1>2, Zenon DEF Quiet, FrameOK, HoldsShard, HoldsFresh, HoldsCached, At
<1> QED BY <1>1, <1>2, <1>3, QuietStep, Zenon DEF FlushBinDone, IInv, TypeOK
------------------------------------------------------------------------------
(* The actions that carry a block.                                         *)

LEMMA CentralAllocateInv ==
  ASSUME IInv, NEW t \in Threads, CentralAllocate(t)
  PROVE  IInv'
<1> USE DEF IInv, CacheInvariant
<1>1. PICK p \in Addr :
        /\ central[p] = Free
        /\ central' = [central EXCEPT ![p] = Kind(frame[t].arg)]
        /\ frame' = [frame EXCEPT ![t].pc = "record", ![t].ptr = p]
  BY Zenon DEF CentralAllocate
<1>2. /\ frame[t].pc = "refill" /\ frame[t].arg \in Requests
      /\ frame[t].index > 0 => SizeClass[frame[t].arg] \in Classes
      /\ UNCHANGED <<records, shardLock, bins, cached, live>>
  BY Zenon DEF CentralAllocate, At, FrameOK
<1>3. /\ Moves(t)
      /\ frame'[t].pc = "record" /\ frame'[t].ptr = p
      /\ frame'[t].arg = frame[t].arg /\ frame'[t].index = frame[t].index
  <2> DEFINE g == [frame[t] EXCEPT !.pc = "record", !.ptr = p]
  <2>1. frame \in [Threads -> Frame] /\ frame[t] \in Frame /\ "record" \in Labels
    BY Zenon DEF TypeOK, Labels
  <2>2. /\ g \in Frame /\ g.pc = "record" /\ g.ptr = p
        /\ g.arg = frame[t].arg /\ g.index = frame[t].index
    BY <2>1, Zenon DEF Frame
  <2>3. frame' = [frame EXCEPT ![t] = g]
    BY <1>1, <2>1, Zenon
  <2> HIDE DEF g
  <2> QED BY <2>1, <2>2, <2>3, Zenon DEF Moves
<1>4. /\ central' \in [Addr -> Kinds \cup {Free}]
      /\ central'[p] = Kind(frame[t].arg)
      /\ \A q \in Addr : q # p => central'[q] = central[q]
  BY <1>1, <1>2, KindType, Zenon DEF TypeOK
<1>5. TypeOK'
  BY <1>2, <1>3, <1>4, Zenon DEF TypeOK, Moves
<1>6. \A q \in Addr : Erasing(q)' <=> Erasing(q)
  BY <1>2, <1>3, Zenon DEF Erasing, Moves
<1>7. records[p] # NoRecord => Erasing(p)
  <2>1. CentralOK(p) /\ records[p] \in Record \cup {NoRecord}
    BY Zenon DEF TypeOK
  <2> QED BY <1>1, <2>1, RecordFacts, Zenon DEF CentralOK
<1>8. \A u \in Threads : HoldsFresh(u) => frame[u].ptr \in Addr \ {p}
  BY <1>1, KindType, Zenon DEF FreshOK, FrameOK, HoldsFresh
<1>9. ASSUME NEW u \in Threads
      PROVE  FrameOK(u)' /\ LockOK(u)' /\ FreshOK(u)' /\ FreeOK(u)'
  <2>1. CASE u = t
    BY <1>2, <1>3, <1>4, <1>6, <1>7, <2>1, Zenon
       DEF FrameOK, LockOK, FreshOK, FreeOK, HoldsShard, At
  <2>2. CASE u # t
    <3>1. FrameOK(u)' /\ LockOK(u)' /\ FreeOK(u)'
      BY <1>2, <1>3, <2>2, Zenon
         DEF FrameOK, LockOK, FreeOK, HoldsShard, At, Moves, IsActive, Matches
    <3>2. FreshOK(u)'
      BY <1>2, <1>3, <1>4, <1>6, <1>8, <2>2, SMT DEF FreshOK, HoldsFresh, At, Moves
    <3> QED BY <3>1, <3>2, Zenon
  <2> QED BY <2>1, <2>2, Zenon
<1>10. ASSUME NEW u \in Threads, NEW v \in Threads PROVE FreshDistinct(u, v)'
  BY <1>3, <1>8, Zenon DEF FreshDistinct, HoldsFresh, Moves
<1>11. ASSUME NEW u \in Threads, NEW c \in Classes
       PROVE  BinOK(u, c)' /\ HandOK(u, c)' /\ FlushOK(u, c)'
  BY <1>2, <1>3, SMT DEF BinOK, HandOK, FlushOK, HoldsCached, CurrentBin, At, Moves
<1>12. ASSUME NEW q \in Addr PROVE CentralOK(q)'
  <2>1. CASE q = p
    BY <1>2, <1>3, <1>6, <1>7, <2>1, Zenon DEF CentralOK, HoldsFresh
  <2>2. CASE q # p
    <3>1. ASSUME NEW u \in Threads, HoldsFresh(u) /\ frame[u].ptr = q
          PROVE  HoldsFresh(u)' /\ frame'[u].ptr = q
      BY <1>2, <1>3, <3>1, Zenon DEF HoldsFresh, Moves
    <3> QED BY <1>2, <1>4, <1>6, <2>2, <3>1, Zenon DEF CentralOK
  <2> QED BY <2>1, <2>2, Zenon
<1> QED BY <1>5, <1>9, <1>10, <1>11, <1>12, Zenon

LEMMA RecordAllocationFailsInv ==
  ASSUME IInv, NEW t \in Threads, RecordAllocationFails(t)
  PROVE  IInv'
<1> USE DEF IInv, CacheInvariant
<1> DEFINE p == frame[t].ptr
<1>1. /\ frame[t].pc = "record" /\ p \in Addr /\ Unlocked(p)
      /\ frame[t].arg \in Requests
      /\ UNCHANGED <<records, shardLock, bins, central, cached, live>>
  BY Zenon DEF RecordAllocationFails, At, FrameOK
<1>2. /\ Moves(t)
      /\ frame'[t].pc = "undo" /\ frame'[t].ptr = p
      /\ frame'[t].arg = frame[t].arg /\ frame'[t].index = frame[t].index
  <2>1. frame \in [Threads -> Frame]
    BY Zenon DEF TypeOK
  <2> QED BY <2>1, SMT DEF RecordAllocationFails, Goto, Frame, Labels, Moves
<1>3. TypeOK'
  BY <1>1, <1>2, Zenon DEF TypeOK, Moves
<1>4. \A q \in Addr : Erasing(q)' <=> Erasing(q)
  BY <1>1, <1>2, Zenon DEF Erasing, Moves
<1>5. records[p] = NoRecord
  BY <1>1, UnlockedFacts, Zenon DEF FreshOK, HoldsFresh
<1>6. ASSUME NEW u \in Threads
      PROVE  FrameOK(u)' /\ LockOK(u)' /\ FreshOK(u)' /\ FreeOK(u)'
  <2>1. CASE u = t
    BY <1>1, <1>2, <1>5, <2>1, Zenon
       DEF FrameOK, LockOK, FreshOK, FreeOK, HoldsShard, HoldsFresh, At
  <2>2. CASE u # t
    <3>1. FrameOK(u)' /\ LockOK(u)' /\ FreeOK(u)'
      BY <1>1, <1>2, <2>2, Zenon
         DEF FrameOK, LockOK, FreeOK, HoldsShard, At, Moves, IsActive, Matches
    <3>2. FreshOK(u)'
      BY <1>1, <1>2, <1>4, <2>2, Zenon DEF FreshOK, HoldsFresh, At, Moves, FrameOK
    <3> QED BY <3>1, <3>2, Zenon
  <2> QED BY <2>1, <2>2, Zenon
<1>7. ASSUME NEW u \in Threads, NEW v \in Threads PROVE FreshDistinct(u, v)'
  BY <1>1, <1>2, SMT DEF FreshDistinct, HoldsFresh, Moves
<1>8. ASSUME NEW u \in Threads, NEW c \in Classes
      PROVE  BinOK(u, c)' /\ HandOK(u, c)' /\ FlushOK(u, c)'
  BY <1>1, <1>2, SMT DEF BinOK, HandOK, FlushOK, HoldsCached, CurrentBin, At, Moves
<1>9. ASSUME NEW q \in Addr PROVE CentralOK(q)'
  <2>1. ASSUME NEW u \in Threads, HoldsFresh(u) /\ frame[u].ptr = q
        PROVE  HoldsFresh(u)' /\ frame'[u].ptr = q
    BY <1>1, <1>2, <2>1, Zenon DEF HoldsFresh, Moves
  <2> QED BY <1>1, <1>4, <2>1, Zenon DEF CentralOK
<1> QED BY <1>3, <1>6, <1>7, <1>8, <1>9, Zenon

LEMMA RecordAllocationInv ==
  ASSUME IInv, NEW t \in Threads, RecordAllocation(t)
  PROVE  IInv'
<1> USE DEF IInv, CacheInvariant
<1> DEFINE p == frame[t].ptr
           record == [kind |-> Kind(frame[t].arg), owner |-> t,
                      state |-> IF frame[t].index = 0 THEN "active" ELSE "cached"]
<1>1. /\ frame[t].pc = "record" /\ p \in Addr /\ Unlocked(p)
      /\ frame[t].arg \in Requests
      /\ frame[t].index > 0 => SizeClass[frame[t].arg] \in Classes
      /\ UNCHANGED <<shardLock, bins, central, cached, live>>
  BY Zenon DEF RecordAllocation, At, FrameOK
<1>2. records[p] = NoRecord /\ ~ Erasing(p)
  BY <1>1, UnlockedFacts, Zenon DEF FreshOK, HoldsFresh
<1>3. record \in Record /\ record # NoRecord
  BY <1>1, KindType, RecordAssumption, SMT DEF Record
<1>4. /\ records' \in [Addr -> Record \cup {NoRecord}] /\ records'[p] = record
      /\ \A q \in Addr : q # p => records'[q] = records[q]
  BY <1>1, <1>2, <1>3, Zenon DEF RecordAllocation, TypeOK
<1>5. /\ Moves(t)
      /\ frame'[t].pc = "keep" /\ frame'[t].ptr = p
      /\ frame'[t].arg = frame[t].arg /\ frame'[t].index = frame[t].index
  <2>1. frame \in [Threads -> Frame] /\ Goto(t, "keep")
    BY <1>2, Zenon DEF TypeOK, RecordAllocation
  <2> QED BY <2>1, SMT DEF Goto, Frame, Labels, Moves
<1>6. TypeOK'
  BY <1>1, <1>4, <1>5, Zenon DEF TypeOK, Moves
<1>7. \A q \in Addr : Erasing(q)' <=> Erasing(q)
  BY <1>1, <1>5, Zenon DEF Erasing, Moves
<1>8. \A u \in Threads : u # t /\ HoldsFresh(u) => frame[u].ptr \in Addr \ {p}
  BY <1>1, Zenon DEF FreshDistinct, HoldsFresh, FrameOK
<1>9. ASSUME NEW u \in Threads
      PROVE  FrameOK(u)' /\ LockOK(u)' /\ FreshOK(u)' /\ FreeOK(u)'
  <2>1. CASE u = t
    BY <1>1, <1>5, <2>1, Zenon
       DEF FrameOK, LockOK, FreshOK, FreeOK, HoldsShard, HoldsFresh, At
  <2>2. CASE u # t
    <3>1. FrameOK(u)' /\ LockOK(u)'
      BY <1>1, <1>5, <2>2, Zenon DEF FrameOK, LockOK, HoldsShard, At, Moves
    <3>2. FreeOK(u)'
      BY <1>2, <1>4, <1>5, <2>2, SMT
         DEF FreeOK, FrameOK, HoldsShard, At, Moves, IsActive, Matches
    <3>3. FreshOK(u)'
      BY <1>1, <1>4, <1>5, <1>7, <1>8, <2>2, SMT DEF FreshOK, HoldsFresh, At, Moves
    <3> QED BY <3>1, <3>2, <3>3, Zenon
  <2> QED BY <2>1, <2>2, Zenon
<1>10. ASSUME NEW u \in Threads, NEW v \in Threads PROVE FreshDistinct(u, v)'
  BY <1>1, <1>5, Zenon DEF FreshDistinct, HoldsFresh, Moves
<1>11. ASSUME NEW u \in Threads, NEW c \in Classes
       PROVE  BinOK(u, c)' /\ HandOK(u, c)' /\ FlushOK(u, c)'
  <2>1. CachedRecord(u, c) # NoRecord
    BY RecordFacts, Zenon DEF CachedRecord, Record, Kinds
  <2>2. bins[u][c] \in Seq(Addr)
    BY Zenon DEF TypeOK
  <2>3. \A i \in 1 .. Len(bins[u][c]) : bins[u][c][i] \in Addr \ {p}
    BY <1>2, <2>1, <2>2, SMT DEF BinOK
  <2>4. BinOK(u, c)'
    BY <1>1, <1>4, <2>3 DEF BinOK
  <2>5. FlushOK(u, c)'
    BY <1>1, <1>5, Zenon DEF FlushOK, CurrentBin, Moves
  <2>6. HandOK(u, c)'
    <3>1. CASE u = t
      <4>1. HoldsCached(t, c)' => frame[t].index > 0 /\ c = SizeClass[frame[t].arg]
        BY <1>5, Zenon DEF HoldsCached, At
      <4>2. HoldsCached(t, c)' => record = CachedRecord(t, c)
        BY <4>1, SMT DEF Kind, CachedRecord
      <4> QED BY <1>1, <1>4, <1>5, <2>3, <3>1, <4>2, Zenon DEF HandOK
    <3>2. CASE u # t
      <4>1. HoldsCached(u, c)' => HoldsCached(u, c) /\ frame[u].ptr \in Addr \ {p}
        BY <1>2, <1>5, <2>1, <3>2, SMT DEF HoldsCached, HandOK, FrameOK, At, Moves
      <4> QED BY <1>1, <1>4, <1>5, <3>2, <4>1, SMT DEF HandOK, Moves
    <3> QED BY <3>1, <3>2, Zenon
  <2> QED BY <2>4, <2>5, <2>6, Zenon
<1>12. ASSUME NEW q \in Addr PROVE CentralOK(q)'
  <2>1. CASE q = p
    BY <1>1, <1>2, <1>3, <1>4, <1>7, <2>1, SMT DEF CentralOK, FreshOK, HoldsFresh
  <2>2. CASE q # p
    <3>1. ASSUME NEW u \in Threads, HoldsFresh(u) /\ frame[u].ptr = q
          PROVE  HoldsFresh(u)' /\ frame'[u].ptr = q
      BY <1>5, <2>2, <3>1, Zenon DEF HoldsFresh, Moves
    <3> QED BY <1>1, <1>4, <1>7, <2>2, <3>1, Zenon DEF CentralOK
  <2> QED BY <2>1, <2>2, Zenon
<1> QED BY <1>6, <1>9, <1>10, <1>11, <1>12, Zenon

LEMMA UndoAllocationInv ==
  ASSUME IInv, NEW t \in Threads, UndoAllocation(t)
  PROVE  IInv'
<1> USE DEF IInv, CacheInvariant
<1> DEFINE p == frame[t].ptr
<1>1. /\ frame[t].pc = "undo" /\ p \in Addr
      /\ frame[t].arg \in Requests
      /\ UNCHANGED <<records, shardLock, bins, cached, live>>
  BY Zenon DEF UndoAllocation, At, FrameOK
<1>2. records[p] = NoRecord /\ central[p] = Kind(frame[t].arg)
  BY <1>1, Zenon DEF FreshOK, HoldsFresh, At
<1>3. Returns(p, frame[t].arg)
  BY <1>1, <1>2, KindType, Zenon DEF Returns, Matches
<1>4. /\ central' \in [Addr -> Kinds \cup {Free}] /\ central'[p] = Free
      /\ \A q \in Addr : q # p => central'[q] = central[q]
  BY <1>1, <1>3, Zenon DEF UndoAllocation, TypeOK
<1>5. Moves(t) /\ Quiet(t)' /\ FrameOK(t)' /\ frame'[t].pc \in {"idle", "note"}
  BY <1>3, AfterFailureQuiet, Zenon DEF UndoAllocation
<1>6. TypeOK'
  BY <1>1, <1>4, <1>5, Zenon DEF TypeOK, Moves
<1>7. \A q \in Addr : Erasing(q)' <=> Erasing(q)
  BY <1>1, <1>5, Zenon DEF Erasing, Moves
<1>8. \A u \in Threads : u # t /\ HoldsFresh(u) => frame[u].ptr \in Addr \ {p}
  BY <1>1, Zenon DEF FreshDistinct, HoldsFresh, FrameOK
<1>9. ASSUME NEW u \in Threads
      PROVE  FrameOK(u)' /\ LockOK(u)' /\ FreshOK(u)' /\ FreeOK(u)'
  <2>1. CASE u = t
    BY <1>5, <2>1, Zenon DEF LockOK, FreshOK, FreeOK, HoldsShard, HoldsFresh, At
  <2>2. CASE u # t
    <3>1. FrameOK(u)' /\ LockOK(u)' /\ FreeOK(u)'
      BY <1>1, <1>5, <2>2
         DEF FrameOK, LockOK, FreeOK, HoldsShard, At, Moves, IsActive, Matches
    <3>2. FreshOK(u)'
      BY <1>1, <1>4, <1>5, <1>7, <1>8, <2>2, SMT DEF FreshOK, HoldsFresh, At, Moves
    <3> QED BY <3>1, <3>2, Zenon
  <2> QED BY <2>1, <2>2, Zenon
<1>10. ASSUME NEW u \in Threads, NEW v \in Threads PROVE FreshDistinct(u, v)'
  BY <1>5, Zenon DEF FreshDistinct, HoldsFresh, Moves
<1>11. ASSUME NEW u \in Threads, NEW c \in Classes
       PROVE  BinOK(u, c)' /\ HandOK(u, c)' /\ FlushOK(u, c)'
  BY <1>1, <1>5, SMT DEF BinOK, HandOK, FlushOK, HoldsCached, CurrentBin, At, Moves
<1>12. ASSUME NEW q \in Addr PROVE CentralOK(q)'
  <2>1. CASE q = p
    BY <1>1, <1>2, <1>4, <2>1, Zenon DEF CentralOK
  <2>2. CASE q # p
    <3>1. ASSUME NEW u \in Threads, HoldsFresh(u) /\ frame[u].ptr = q
          PROVE  HoldsFresh(u)' /\ frame'[u].ptr = q
      BY <1>5, <2>2, <3>1, Zenon DEF HoldsFresh, Moves
    <3> QED BY <1>1, <1>4, <1>7, <2>2, <3>1, Zenon DEF CentralOK
  <2> QED BY <2>1, <2>2, Zenon
<1> QED BY <1>6, <1>9, <1>10, <1>11, <1>12, Zenon

------------------------------------------------------------------------------
(* Blocks move between a bin and the hand of its thread.                   *)

\* Thread t, not flushing, moves a block between its hand and its bin c: what
\* is left to show is about t and that bin alone.
LEMMA HandStep ==
  ASSUME IInv, NEW t \in Threads, NEW c \in Classes, Moves(t),
         ~ HoldsShard(t), ~ HoldsFresh(t), ~ HoldsShard(t)', ~ HoldsFresh(t)',
         FrameOK(t)', BinChanges(t, c), BinOK(t, c)',
         \A d \in Classes : HandOK(t, d)',
         UNCHANGED <<records, shardLock, central>>,
         cached' \in Int, live' \in Int
  PROVE  IInv'
<1> USE DEF IInv, CacheInvariant
<1>1. /\ bins' \in [Threads -> [Classes -> Seq(Addr)]]
      /\ \A u \in Threads, d \in Classes :
            u # t \/ d # c => bins'[u][d] = bins[u][d]
  BY Zenon DEF BinChanges
<1>2. TypeOK'
  BY <1>1, Zenon DEF TypeOK, Moves
<1>3. \A p \in Addr : Erasing(p)' <=> Erasing(p)
  BY Zenon DEF Erasing, HoldsShard, Moves
<1>4. ASSUME NEW u \in Threads
      PROVE  FrameOK(u)' /\ LockOK(u)' /\ FreshOK(u)' /\ FreeOK(u)'
  <2>1. CASE u = t
    BY <2>1, Zenon DEF LockOK, FreshOK, FreeOK, HoldsShard, At
  <2>2. CASE u # t
    <3>1. FrameOK(u)' /\ LockOK(u)' /\ FreeOK(u)'
      <4>1. frame'[u] = frame[u] /\ FrameOK(u) /\ LockOK(u) /\ FreeOK(u)
        BY <2>2, Zenon DEF Moves
      <4>2. FrameOK(u)'
        BY <4>1, Zenon DEF FrameOK, HoldsShard, At
      <4>3. LockOK(u)'
        BY <4>1, Zenon DEF LockOK, HoldsShard
      <4>4. FreeOK(u)'
        BY <4>1, Zenon DEF FreeOK, HoldsShard, IsActive, Matches
      <4> QED BY <4>2, <4>3, <4>4, Zenon
    <3>2. FreshOK(u)'
      BY <1>3, <2>2, Zenon DEF FreshOK, HoldsFresh, At, Moves, FrameOK
    <3> QED BY <3>1, <3>2, Zenon
  <2> QED BY <2>1, <2>2, Zenon
<1>5. ASSUME NEW u \in Threads, NEW v \in Threads PROVE FreshDistinct(u, v)'
  BY Zenon DEF FreshDistinct, HoldsFresh, Moves
<1>6. ASSUME NEW u \in Threads, NEW d \in Classes
      PROVE  BinOK(u, d)' /\ HandOK(u, d)' /\ FlushOK(u, d)'
  <2>1. CASE u = t
    <3>1. BinOK(t, d)'
      <4>1. CASE d = c
        BY <4>1, Zenon DEF BinOK
      <4>2. CASE d # c
        <5>1. bins'[t][d] = bins[t][d] /\ BinOK(t, d)
          BY <1>1, <4>2, Zenon
        <5> QED BY <5>1, Zenon DEF BinOK, CachedRecord
      <4> QED BY <4>1, <4>2, Zenon
    <3> QED BY <2>1, <3>1, Zenon DEF FlushOK, HoldsShard
  <2>2. CASE u # t
    <3>1. bins'[u][d] = bins[u][d] /\ frame'[u] = frame[u]
      BY <1>1, <2>2, Zenon DEF Moves
    <3>2. BinOK(u, d)'
      BY <3>1, SMT DEF BinOK
    <3>4. HandOK(u, d)'
      BY <3>1, SMT DEF HandOK, HoldsCached, At
    <3>3. FlushOK(u, d)'
      BY <3>1, Zenon DEF FlushOK, CurrentBin
    <3> QED BY <3>2, <3>3, <3>4, Zenon
  <2> QED BY <2>1, <2>2, Zenon
<1>7. ASSUME NEW p \in Addr PROVE CentralOK(p)'
  <2>1. ASSUME NEW u \in Threads, HoldsFresh(u) /\ frame[u].ptr = p
        PROVE  HoldsFresh(u)' /\ frame'[u].ptr = p
    BY <2>1, Zenon DEF HoldsFresh, Moves
  <2> QED BY <1>3, <2>1, Zenon DEF CentralOK
<1> QED BY <1>2, <1>4, <1>5, <1>6, <1>7, Zenon

LEMMA CallAllocateInv ==
  ASSUME IInv, NEW t \in Threads, NEW r \in Requests, CallAllocate(t, r)
  PROVE  IInv'
<1> DEFINE c == SizeClass[r]
           started == [IdleFrame EXCEPT !.op = "allocate", !.arg = r]
<1>1. /\ Quiet(t) /\ frame \in [Threads -> Frame]
      /\ UNCHANGED <<records, shardLock, central, cached, live>>
      /\ cached \in Int /\ live \in Int
  BY QuietLabels, Zenon DEF CallAllocate, At, IInv, TypeOK
<1>2. CASE c \in Classes /\ bins[t][c] # <<>>
  <2>1. PICK b \in Seq(Addr) : b = bins[t][c] /\ b # <<>>
    BY <1>2 DEF IInv, TypeOK
  <2>2. PICK s \in Seq(Addr), p \in Addr :
           /\ s = PopBack(b) /\ p = Back(b) /\ p = b[Len(b)]
           /\ Len(b) > 0 /\ Len(s) = Len(b) - 1
           /\ \A i \in 1 .. Len(s) : s[i] = b[i]
    <3>1. /\ PopBack(b) \in Seq(Addr) /\ Back(b) \in Addr
          /\ Len(b) > 0 /\ Len(PopBack(b)) = Len(b) - 1
          /\ \A i \in 1 .. Len(PopBack(b)) : PopBack(b)[i] = b[i]
      BY <2>1, PopBackFacts, Zenon
    <3>2. Back(b) = b[Len(b)]
      BY Zenon DEF Back
    <3> QED BY <3>1, <3>2, Zenon
  <2> DEFINE f == [started EXCEPT !.pc = "hit", !.ptr = p]
  <2>3. /\ f \in Frame /\ f.pc = "hit" /\ f.ptr = p /\ f.arg = r
    BY Zenon DEF Frame, Labels, Operations, IdleFrame
  <2>4. Moves(t) /\ frame'[t] = f /\ bins' = [bins EXCEPT ![t][c] = s]
    <3> HIDE DEF f
    <3>1. frame' = [frame EXCEPT ![t] = f] /\ bins' = [bins EXCEPT ![t][c] = s]
      BY <1>2, <2>1, <2>2, Zenon DEF CallAllocate, f
    <3> QED BY <1>1, <2>3, <3>1, Zenon DEF Moves
  <2>5. bins'[t][c] = s /\ BinChanges(t, c)
    BY <1>2, <2>4, Zenon DEF IInv, TypeOK, BinChanges
  <2>6. /\ \A i \in 1 .. Len(b) : records[b[i]] = CachedRecord(t, c)
        /\ \A i, j \in 1 .. Len(b) : b[i] = b[j] => i = j
    BY <1>2, <2>1, Zenon DEF IInv, CacheInvariant, BinOK
  <2>7. /\ Len(b) \in 1 .. Len(b)
        /\ \A i \in 1 .. Len(s) : i \in 1 .. Len(b) /\ i # Len(b) /\ s[i] = b[i]
    BY <2>2
  <2>8. BinOK(t, c)'
    <3>1. /\ \A i \in 1 .. Len(s) : records[s[i]] = CachedRecord(t, c)
          /\ \A i, j \in 1 .. Len(s) : s[i] = s[j] => i = j
      BY <2>6, <2>7, Zenon
    <3>2. records' = records /\ bins'[t][c] = s
      BY <1>1, <2>5, Zenon
    <3> QED BY <3>1, <3>2, Zenon DEF BinOK, CachedRecord
  <2>9. records[p] = CachedRecord(t, c) /\ \A i \in 1 .. Len(s) : s[i] # p
    BY <2>2, <2>6, <2>7
  <2>10. ASSUME NEW d \in Classes PROVE HandOK(t, d)'
    <3>1. HoldsCached(t, d)' => d = c
      BY <2>3, <2>4, Zenon DEF HoldsCached, At
    <3> HIDE DEF f
    <3> QED BY <1>1, <2>3, <2>4, <2>5, <2>9, <3>1, Zenon DEF HandOK, CachedRecord
  <2>11. FrameOK(t)' /\ ~ HoldsShard(t)' /\ ~ HoldsFresh(t)'
    BY <1>2, <2>3, <2>4, Zenon DEF FrameOK, HoldsShard, HoldsFresh, At
  <2> QED BY <1>1, <1>2, <2>4, <2>5, <2>8, <2>10, <2>11, HandStep, Zenon DEF Quiet
<1>3. CASE ~ (c \in Classes /\ bins[t][c] # <<>>)
  <2> DEFINE f == [started EXCEPT !.pc = "refill"]
  <2>1. f \in Frame /\ f.pc = "refill" /\ f.arg = r /\ f.index = 0
    BY Zenon DEF Frame, Labels, Operations, IdleFrame
  <2>2. Moves(t) /\ frame'[t] = f /\ UNCHANGED bins
    <3> HIDE DEF f
    <3>1. frame' = [frame EXCEPT ![t] = f] /\ UNCHANGED bins
      BY <1>3, Zenon DEF CallAllocate, f
    <3> QED BY <1>1, <2>1, <3>1, Zenon DEF Moves
  <2>3. Quiet(t)' /\ FrameOK(t)'
    BY <2>1, <2>2 DEF Quiet, FrameOK, HoldsShard, HoldsFresh, HoldsCached, At
  <2> QED BY <1>1, <2>2, <2>3, QuietStep, Zenon
<1> QED BY <1>2, <1>3, Zenon

\* Appending the block in hand to its bin keeps the bin in order.
LEMMA BinGrows ==
  ASSUME IInv, NEW t \in Threads, NEW c \in Classes, HoldsCached(t, c),
         BinChanges(t, c), bins'[t][c] = Append(bins[t][c], frame[t].ptr),
         UNCHANGED records
  PROVE  BinOK(t, c)'
<1> DEFINE p == frame[t].ptr
           b == bins[t][c]
<1>1. p \in Addr /\ b \in Seq(Addr)
  BY Zenon DEF IInv, CacheInvariant, FrameOK, HoldsCached, At, TypeOK
<1>2. /\ Append(b, p) \in Seq(Addr) /\ Len(Append(b, p)) = Len(b) + 1
      /\ \A i \in 1 .. Len(b) : Append(b, p)[i] = b[i]
      /\ Append(b, p)[Len(b) + 1] = p
  BY <1>1, AppendFacts
<1>3. bins'[t][c] = Append(b, p)
  BY Zenon
<1>4. /\ \A i \in 1 .. Len(b) : records[b[i]] = CachedRecord(t, c) /\ b[i] # p
      /\ \A i, j \in 1 .. Len(b) : b[i] = b[j] => i = j
      /\ records[p] = CachedRecord(t, c)
  BY Zenon DEF IInv, CacheInvariant, BinOK, HandOK
<1>5. ASSUME NEW i \in 1 .. Len(b) + 1
      PROVE  \/ i \in 1 .. Len(b) /\ Append(b, p)[i] = b[i]
             \/ i = Len(b) + 1 /\ Append(b, p)[i] = p
  <2>1. i \in 1 .. Len(b) \/ i = Len(b) + 1
    BY <1>1, SequenceFacts
  <2>2. CASE i \in 1 .. Len(b)
    BY <1>2, <2>2, Zenon
  <2>3. CASE i = Len(b) + 1
    BY <1>2, <2>3, Zenon
  <2> QED BY <2>1, <2>2, <2>3, Zenon
<1>6. \A i \in 1 .. Len(b) + 1 : records[Append(b, p)[i]] = CachedRecord(t, c)
  BY <1>4, <1>5, Zenon
<1>7. \A i, j \in 1 .. Len(b) + 1 : Append(b, p)[i] = Append(b, p)[j] => i = j
  BY <1>4, <1>5, Zenon
<1>8. PICK s : s = Append(b, p)
  BY Zenon
<1> HIDE DEF b
<1>9. /\ bins'[t][c] = s /\ Len(s) = Len(b) + 1
      /\ \A i \in 1 .. Len(s) : records[s[i]] = CachedRecord(t, c)
      /\ \A i, j \in 1 .. Len(s) : s[i] = s[j] => i = j
  BY <1>2, <1>3, <1>6, <1>7, <1>8, Zenon
<1> QED BY <1>9, Zenon DEF BinOK, CachedRecord

LEMMA KeepBlockInv ==
  ASSUME IInv, NEW t \in Threads, KeepBlock(t)
  PROVE  IInv'
<1> DEFINE f == frame[t]
           next == IF f.index + 1 < BatchOf(f.arg) THEN "refill" ELSE "note"
           result == IF f.index = 0 THEN f.ptr ELSE f.result
           g == [f EXCEPT !.pc = next, !.ptr = NoAddr, !.index = f.index + 1,
                          !.result = result]
<1>1. /\ f \in Frame /\ frame \in [Threads -> Frame] /\ f.pc = "keep"
      /\ f.arg \in Requests /\ f.index \in Nat
      /\ f.index > 0 => SizeClass[f.arg] \in Classes
      /\ UNCHANGED <<records, shardLock, central, live>>
      /\ cached \in Int /\ live \in Int
  BY Zenon DEF KeepBlock, At, IInv, TypeOK, CacheInvariant, FrameOK, Frame
<1>2. /\ g \in Frame /\ g.pc = next /\ g.arg = f.arg /\ g.index = f.index + 1
  <2>1. next \in Labels
    BY Zenon DEF Labels
  <2>2. result \in Addr \cup {NoAddr}
    BY <1>1, Zenon DEF Frame
  <2>3. f.index + 1 \in Nat
    BY <1>1
  <2> DEFINE n == f.index + 1
  <2>4. f \in Frame /\ n \in Nat /\ NoAddr \in Addr \cup {NoAddr}
    BY <1>1, <2>3, Zenon
  <2>5. g = [f EXCEPT !.pc = next, !.ptr = NoAddr, !.index = n, !.result = result]
    BY Zenon
  <2> HIDE DEF next, result, f, n, g
  <2>6. g \in Frame /\ g.pc = next /\ g.arg = f.arg /\ g.index = n
    BY <2>1, <2>2, <2>4, <2>5, Zenon DEF Frame
  <2> QED BY <2>6, Zenon DEF n
<1>3. Moves(t) /\ frame'[t] = g
  <2>1. frame' = [frame EXCEPT ![t] = g]
    BY Zenon DEF KeepBlock
  <2> HIDE DEF g
  <2> QED BY <1>1, <1>2, <2>1, Zenon DEF Moves
<1>4. next = "refill" => SizeClass[f.arg] \in Classes
  BY <1>1 DEF BatchOf
<1>5. FrameOK(t)' /\ Quiet(t)'
  BY <1>1, <1>2, <1>3, <1>4
     DEF FrameOK, Quiet, HoldsShard, HoldsFresh, HoldsCached, At
<1>6. CASE f.index = 0
  <2>1. Quiet(t) /\ UNCHANGED <<bins, cached>>
    BY <1>1, <1>6 DEF KeepBlock, Quiet, HoldsShard, HoldsFresh, HoldsCached, At
  <2> QED BY <1>1, <1>3, <1>5, <2>1, QuietStep, Zenon
<1>7. CASE f.index # 0
  <2>1. PICK c \in Classes : c = SizeClass[f.arg]
    BY <1>1, <1>7
  <2>2. HoldsCached(t, c) /\ ~ HoldsShard(t) /\ ~ HoldsFresh(t)
    BY <1>1, <1>7, <2>1 DEF HoldsShard, HoldsFresh, HoldsCached, At
  <2>3. /\ cached' = cached + 1 /\ BinChanges(t, c)
        /\ bins'[t][c] = Append(bins[t][c], f.ptr)
    <3>1. f.ptr \in Addr
      BY <1>1, Zenon DEF IInv, CacheInvariant, FrameOK
    <3>2. cached' = cached + 1 /\ bins' = [bins EXCEPT ![t][c] = Append(@, f.ptr)]
      BY <1>7, <2>1, Zenon DEF KeepBlock
    <3> QED BY <3>1, <3>2, AppendToBin, Zenon DEF IInv
  <2>4. BinOK(t, c)'
    BY <1>1, <2>2, <2>3, BinGrows, Zenon
  <2>5. ~ HoldsShard(t)' /\ ~ HoldsFresh(t)' /\ \A d \in Classes : HandOK(t, d)'
    BY <1>5, Zenon DEF Quiet, HandOK
  <2> QED BY <1>1, <1>3, <1>5, <2>2, <2>3, <2>4, <2>5, HandStep
<1> QED BY <1>6, <1>7, Zenon

LEMMA PushLocalInv ==
  ASSUME IInv, NEW t \in Threads, PushLocal(t)
  PROVE  IInv'
<1>1. PICK c \in frame[t].flushing :
        /\ frame[t].pc = "push"
        /\ bins' = [bins EXCEPT ![t][c] = Append(@, frame[t].ptr)]
        /\ frame' = [frame EXCEPT ![t] =
             IF Len(bins[t][c]) + 1 > HighWatermark
             THEN [@ EXCEPT !.pc = "flush", !.ptr = NoAddr] ELSE IdleFrame]
        /\ UNCHANGED <<records, shardLock, central, cached, live>>
  BY Zenon DEF PushLocal, At
<1>2. /\ c \in Classes /\ frame[t] \in Frame /\ frame \in [Threads -> Frame]
      /\ HoldsCached(t, c) /\ ~ HoldsShard(t) /\ ~ HoldsFresh(t)
      /\ cached \in Int /\ live \in Int
  BY <1>1, Zenon DEF IInv, TypeOK, Frame, HoldsCached, HoldsShard, HoldsFresh, At
<1>3. BinChanges(t, c) /\ BinOK(t, c)'
  <2>1. frame[t].ptr \in Addr
    BY <1>1, Zenon DEF IInv, CacheInvariant, FrameOK
  <2>2. BinChanges(t, c) /\ bins'[t][c] = Append(bins[t][c], frame[t].ptr)
    BY <1>1, <1>2, <2>1, AppendToBin, Zenon DEF IInv
  <2> QED BY <1>1, <1>2, <2>2, BinGrows, Zenon
<1>4. Moves(t) /\ frame'[t].pc \in {"idle", "flush"}
  <2> DEFINE g == [frame[t] EXCEPT !.pc = "flush", !.ptr = NoAddr]
  <2>1. g \in Frame /\ g.pc = "flush" /\ IdleFrame.pc = "idle"
    BY <1>2, Zenon DEF Frame, Labels, IdleFrame
  <2>2. frame' = [frame EXCEPT ![t] = g] \/ frame' = [frame EXCEPT ![t] = IdleFrame]
    BY <1>1, Zenon
  <2> HIDE DEF g
  <2> QED BY <1>2, <2>1, <2>2, IdleFrameType, Zenon DEF Moves
<1>5. Quiet(t)' /\ FrameOK(t)'
  BY <1>4, Zenon DEF Quiet, FrameOK, HoldsShard, HoldsFresh, HoldsCached, At
<1>6. ~ HoldsShard(t)' /\ ~ HoldsFresh(t)' /\ \A d \in Classes : HandOK(t, d)'
  BY <1>5, Zenon DEF Quiet, HandOK
<1> QED BY <1>1, <1>2, <1>3, <1>4, <1>5, <1>6, HandStep, Zenon

------------------------------------------------------------------------------
(* A record changes between active and cached.                             *)

InNoBin(p) ==
    \A u \in Threads, c \in Classes :
       \A i \in 1 .. Len(bins[u][c]) : bins[u][c][i] # p

InNoOtherHand(t, p) ==
    \A u \in Threads, c \in Classes :
       u # t /\ HoldsCached(u, c) => frame[u].ptr # p

\* Thread t, not flushing, changes the record of a block p that is in no bin
\* and in no other hand: what is left to show is about t alone.
LEMMA RecordStep ==
  ASSUME IInv, NEW t \in Threads, NEW p \in Addr, Moves(t), Unlocked(p),
         ~ HoldsShard(t), ~ HoldsFresh(t), ~ HoldsShard(t)', ~ HoldsFresh(t)',
         FrameOK(t)', \A c \in Classes : HandOK(t, c)',
         records[p] # NoRecord, records'[p] \in Record,
         records'[p].kind = records[p].kind,
         records' \in [Addr -> Record \cup {NoRecord}],
         \A q \in Addr : q # p => records'[q] = records[q],
         InNoBin(p), InNoOtherHand(t, p),
         UNCHANGED <<shardLock, bins, central>>, cached' \in Int, live' \in Int
  PROVE  IInv'
<1> USE DEF IInv, CacheInvariant
<1>1. TypeOK'
  BY Zenon DEF TypeOK, Moves
<1>2. \A q \in Addr : Erasing(q)' <=> Erasing(q)
  BY Zenon DEF Erasing, HoldsShard, Moves
<1>3. \A q \in Addr : records'[q] = NoRecord <=> records[q] = NoRecord
  BY RecordFacts, Zenon
<1>4. ASSUME NEW u \in Threads
      PROVE  FrameOK(u)' /\ LockOK(u)' /\ FreshOK(u)' /\ FreeOK(u)'
  <2>1. CASE u = t
    BY <2>1, Zenon DEF LockOK, FreshOK, FreeOK, HoldsShard, At
  <2>2. CASE u # t
    <3>1. /\ frame'[u] = frame[u] /\ shardLock' = shardLock /\ central' = central
          /\ FrameOK(u) /\ LockOK(u) /\ FreshOK(u) /\ FreeOK(u)
      BY <2>2, Zenon DEF Moves
    <3>2. FrameOK(u)' /\ LockOK(u)'
      BY <3>1, Zenon DEF FrameOK, LockOK, HoldsShard, At
    <3>3. FreeOK(u)'
      <4>1. HoldsShard(u) => frame[u].ptr \in Addr \ {p}
        BY <3>1, UnlockedFacts, Zenon DEF FrameOK
      <4>2. HoldsShard(u) => records'[frame[u].ptr] = records[frame[u].ptr]
        BY <4>1, Zenon
      <4> QED BY <3>1, <4>2, Zenon DEF FreeOK, HoldsShard, At, IsActive, Matches
    <3>4. FreshOK(u)'
      <4>1. HoldsFresh(u) => frame[u].ptr \in Addr
        BY <3>1, Zenon DEF FrameOK, HoldsFresh
      <4> QED BY <1>2, <1>3, <3>1, <4>1, Zenon DEF FreshOK, HoldsFresh, At
    <3> QED BY <3>2, <3>3, <3>4, Zenon
  <2> QED BY <2>1, <2>2, Zenon
<1>5. ASSUME NEW u \in Threads, NEW v \in Threads PROVE FreshDistinct(u, v)'
  BY Zenon DEF FreshDistinct, HoldsFresh, Moves
<1>6. ASSUME NEW u \in Threads, NEW c \in Classes
      PROVE  BinOK(u, c)' /\ HandOK(u, c)' /\ FlushOK(u, c)'
  <2>1. bins[u][c] \in Seq(Addr) /\ BinOK(u, c) /\ bins' = bins
    BY Zenon DEF TypeOK
  <2>2. BinOK(u, c)'
    <3>1. PICK b \in Seq(Addr) : b = bins[u][c]
      BY <2>1, Zenon
    <3>2. \A i \in 1 .. Len(b) : b[i] \in Addr
      BY SMT
    <3>3. \A i \in 1 .. Len(b) : records'[b[i]] = records[b[i]]
      BY <3>1, <3>2, Zenon DEF InNoBin
    <3> QED BY <2>1, <3>1, <3>3 DEF BinOK, CachedRecord
  <2>3. CASE u = t
    BY <2>2, <2>3, Zenon DEF FlushOK, HoldsShard
  <2>4. CASE u # t
    <3>1. frame'[u] = frame[u] /\ FrameOK(u) /\ HandOK(u, c) /\ FlushOK(u, c)
      BY <2>4, Zenon DEF Moves
    <3>2. FlushOK(u, c)'
      BY <2>1, <3>1, Zenon DEF FlushOK, CurrentBin
    <3>3. HoldsCached(u, c)' => HoldsCached(u, c)
      BY <3>1, Zenon DEF HoldsCached, At
    <3>4. HoldsCached(u, c) => frame[u].ptr \in Addr
      BY <3>1, Zenon DEF HoldsCached, FrameOK, At
    <3>5. HoldsCached(u, c) => records'[frame[u].ptr] = records[frame[u].ptr]
      BY <2>4, <3>4, Zenon DEF InNoOtherHand
    <3>6. HandOK(u, c)'
      BY <2>1, <3>1, <3>3, <3>5, Zenon DEF HandOK, CachedRecord
    <3> QED BY <2>2, <3>2, <3>6, Zenon
  <2> QED BY <2>3, <2>4, Zenon
<1>7. ASSUME NEW q \in Addr PROVE CentralOK(q)'
  <2>1. ASSUME NEW u \in Threads, HoldsFresh(u) /\ frame[u].ptr = q
        PROVE  HoldsFresh(u)' /\ frame'[u].ptr = q
    BY <2>1, Zenon DEF HoldsFresh, Moves
  <2>2. records[q] # NoRecord => records'[q].kind = records[q].kind
    BY Zenon
  <2> QED BY <1>2, <1>3, <2>1, <2>2, Zenon DEF CentralOK
<1> QED BY <1>1, <1>4, <1>5, <1>6, <1>7, Zenon

LEMMA CacheHitInv ==
  ASSUME IInv, NEW t \in Threads, CacheHit(t)
  PROVE  IInv'
<1>1. PICK p \in Addr : p = frame[t].ptr
  BY Zenon DEF CacheHit, At, IInv, CacheInvariant, FrameOK
<1>2. PICK c \in Classes : c = SizeClass[frame[t].arg]
  BY Zenon DEF CacheHit, At, IInv, CacheInvariant, FrameOK
<1>3. /\ HoldsCached(t, c) /\ ~ HoldsShard(t) /\ ~ HoldsFresh(t) /\ Unlocked(p)
      /\ cached \in Int /\ live \in Int
      /\ records \in [Addr -> Record \cup {NoRecord}]
  BY <1>1, <1>2, Zenon DEF CacheHit, At, HoldsCached, HoldsShard, HoldsFresh, IInv, TypeOK
<1>4. records[p] = CachedRecord(t, c)
  BY <1>1, <1>3, Zenon DEF IInv, CacheInvariant, HandOK
<1>5. IsCached(p)
  BY <1>4, RecordFacts DEF IsCached, CachedRecord, Record, Kinds
<1>6. /\ records' = [records EXCEPT ![p].owner = t, ![p].state = "active"]
      /\ Return(t) /\ cached' \in Int /\ live' \in Int
      /\ UNCHANGED <<shardLock, bins, central>>
  BY <1>1, <1>3, <1>5 DEF CacheHit, Return
<1>7. /\ records'[p] = [kind |-> c, owner |-> t, state |-> "active"]
      /\ \A q \in Addr : q # p => records'[q] = records[q]
      /\ DOMAIN records' = Addr
  BY <1>3, <1>4, <1>6 DEF CachedRecord
<1>8. records'[p] \in Record /\ records'[p].kind = records[p].kind
  BY <1>4, <1>7 DEF Record, Kinds, CachedRecord
<1>9. records' \in [Addr -> Record \cup {NoRecord}]
  BY <1>3, <1>6, <1>7, <1>8, Zenon
<1>10. Moves(t) /\ Quiet(t)' /\ FrameOK(t)'
  BY <1>6, ReturnQuiet, Zenon DEF IInv
<1>11. ASSUME NEW u \in Threads, NEW d \in Classes,
              records[p] = CachedRecord(u, d)
       PROVE  u = t /\ d = c
  BY <1>4, <1>11 DEF CachedRecord
<1>12. InNoBin(p)
  BY <1>1, <1>3, <1>11 DEF InNoBin, IInv, CacheInvariant, BinOK, HandOK
<1>13. InNoOtherHand(t, p)
  BY <1>11 DEF InNoOtherHand, IInv, CacheInvariant, HandOK
<1>14. ~ HoldsShard(t)' /\ ~ HoldsFresh(t)' /\ \A d \in Classes : HandOK(t, d)'
  BY <1>10, Zenon DEF Quiet, HandOK
<1>15. records[p] # NoRecord
  BY <1>5, Zenon DEF IsCached
<1> QED BY <1>3, <1>6, <1>7, <1>8, <1>9, <1>10, <1>12, <1>13, <1>14, <1>15, RecordStep, Zenon

LEMMA DeallocateLocalInv ==
  ASSUME IInv, NEW t \in Threads, DeallocateLocal(t)
  PROVE  IInv'
<1>1. PICK p \in Addr : p = frame[t].ptr
  BY Zenon DEF DeallocateLocal, At, IInv, CacheInvariant, FrameOK
<1>2. PICK c \in Classes : c = records[p].kind
  BY <1>1, Zenon DEF DeallocateLocal
<1>3. /\ ~ HoldsShard(t) /\ ~ HoldsFresh(t) /\ Unlocked(p)
      /\ cached' \in Int /\ live' \in Int
      /\ records \in [Addr -> Record \cup {NoRecord}] /\ frame \in [Threads -> Frame]
      /\ UNCHANGED <<shardLock, bins, central>>
  BY <1>1 DEF DeallocateLocal, At, HoldsShard, HoldsFresh, IInv, TypeOK
<1>4. /\ records[p] \in Record /\ records[p] # NoRecord
      /\ records[p].state = "active" /\ records[p].owner = t
  BY <1>1, <1>3, Zenon DEF DeallocateLocal, IsActive
<1>5. records' = [records EXCEPT ![p].state = "cached"]
  BY <1>1, Zenon DEF DeallocateLocal
<1>6. /\ records'[p] = CachedRecord(t, c)
      /\ \A q \in Addr : q # p => records'[q] = records[q]
      /\ DOMAIN records' = Addr
  BY <1>2, <1>3, <1>4, <1>5, Zenon DEF CachedRecord, Record
<1>7. records'[p] \in Record /\ records'[p].kind = records[p].kind
  BY <1>2, <1>6 DEF Record, Kinds, CachedRecord
<1>8. records' \in [Addr -> Record \cup {NoRecord}]
  BY <1>3, <1>5, <1>6, <1>7, Zenon
<1>9. /\ Moves(t) /\ frame'[t].pc = "push" /\ frame'[t].ptr = p
      /\ frame'[t].flushing = {c}
  <2>1. PICK S \in SUBSET Classes : S = {c}
    BY Zenon
  <2>2. frame' = [frame EXCEPT ![t].pc = "push", ![t].flushing = S]
    BY <1>1, <1>2, <2>1, Zenon DEF DeallocateLocal
  <2> DEFINE g == [frame[t] EXCEPT !.pc = "push", !.flushing = S]
  <2>3. g \in Frame /\ g.pc = "push" /\ g.ptr = p /\ g.flushing = S
    <3>1. frame[t] \in Frame /\ "push" \in Labels
      BY <1>3, Zenon DEF Labels
    <3> QED BY <1>1, <3>1, Zenon DEF Frame
  <2>4. frame' = [frame EXCEPT ![t] = g]
    BY <1>3, <2>2, Zenon
  <2> HIDE DEF g
  <2> QED BY <1>3, <2>1, <2>3, <2>4, Zenon DEF Moves
<1>10. ASSUME NEW u \in Threads, NEW d \in Classes PROVE records[p] # CachedRecord(u, d)
  BY <1>4 DEF CachedRecord
<1>11. InNoBin(p)
  BY <1>10 DEF InNoBin, IInv, CacheInvariant, BinOK
<1>12. InNoOtherHand(t, p)
  BY <1>10 DEF InNoOtherHand, IInv, CacheInvariant, HandOK
<1>13. FrameOK(t)' /\ ~ HoldsShard(t)' /\ ~ HoldsFresh(t)'
  BY <1>1, <1>9, Zenon DEF FrameOK, HoldsShard, HoldsFresh, At
<1>14. ASSUME NEW d \in Classes PROVE HandOK(t, d)'
  <2>1. HoldsCached(t, d)' => d = c
    BY <1>9, Zenon DEF HoldsCached, At
  <2>2. records'[p] = CachedRecord(t, c) /\ frame'[t].ptr = p /\ bins' = bins
    BY <1>3, <1>6, <1>9, Zenon
  <2>3. \A i \in 1 .. Len(bins[t][d]) : bins[t][d][i] # p
    BY <1>11, Zenon DEF InNoBin
  <2> QED BY <2>1, <2>2, <2>3, Zenon DEF HandOK, CachedRecord
<1> QED BY <1>3, <1>4, <1>6, <1>7, <1>8, <1>9, <1>11, <1>12, <1>13, <1>14, RecordStep, Zenon

------------------------------------------------------------------------------
(* A block goes back to central storage under the lock of its shard.       *)

LEMMA LockStep ==
  ASSUME IInv, NEW t \in Threads, NEW p \in Addr, Moves(t), Unlocked(p), Quiet(t),
         frame'[t].pc \in {"free_central", "flush_central"}, frame'[t].ptr = p,
         shardLock' = [shardLock EXCEPT ![ShardOf[p]] = t],
         FreeOK(t)', \A c \in Classes : FlushOK(t, c)',
         UNCHANGED <<records, bins, central, cached, live>>
  PROVE  IInv'
<1> USE DEF IInv, CacheInvariant
<1>1. /\ ShardOf \in [Addr -> Shards]
      /\ shardLock \in [Shards -> Threads \cup {NoThread}]
  BY DomainAssumption, Zenon DEF TypeOK
<1>2. /\ shardLock' \in [Shards -> Threads \cup {NoThread}]
      /\ shardLock'[ShardOf[p]] = t
      /\ \A s \in Shards : s # ShardOf[p] => shardLock'[s] = shardLock[s]
  BY <1>1, Zenon
<1>3. TypeOK'
  BY <1>2, Zenon DEF TypeOK, Moves
<1>4. \A q \in Addr : Erasing(q)' <=> Erasing(q)
  BY Zenon DEF Erasing, Quiet, HoldsShard, Moves
<1>5. ASSUME NEW u \in Threads
      PROVE  FrameOK(u)' /\ LockOK(u)' /\ FreshOK(u)' /\ FreeOK(u)'
  <2>1. CASE u = t
    <3>1. FrameOK(t)' /\ LockOK(t)' /\ FreshOK(t)'
      BY <1>2, Zenon DEF FrameOK, LockOK, FreshOK, HoldsFresh, HoldsShard, At
    <3> QED BY <2>1, <3>1, Zenon
  <2>2. CASE u # t
    <3>1. FrameOK(u)' /\ FreeOK(u)'
      BY <2>2, Zenon DEF FrameOK, FreeOK, HoldsShard, At, Moves, IsActive, Matches
    <3>2. FreshOK(u)'
      BY <1>4, <2>2, Zenon DEF FreshOK, HoldsFresh, At, Moves, FrameOK
    <3>3. LockOK(u)'
      <4>1. HoldsShard(u) => shardLock[ShardOf[frame[u].ptr]] # NoThread
                             /\ frame[u].ptr \in Addr
        BY DomainAssumption, SMT DEF LockOK, FrameOK
      <4>2. HoldsShard(u) => ShardOf[frame[u].ptr] \in Shards \ {ShardOf[p]}
        BY <1>1, <4>1, Zenon DEF Unlocked
      <4> QED BY <1>2, <2>2, <4>2, Zenon DEF LockOK, HoldsShard, Moves
    <3> QED BY <3>1, <3>2, <3>3, Zenon
  <2> QED BY <2>1, <2>2, Zenon
<1>6. ASSUME NEW u \in Threads, NEW v \in Threads PROVE FreshDistinct(u, v)'
  BY Zenon DEF FreshDistinct, Quiet, HoldsFresh, Moves
<1>7. ASSUME NEW u \in Threads, NEW c \in Classes
      PROVE  BinOK(u, c)' /\ HandOK(u, c)' /\ FlushOK(u, c)'
  <2>1. BinOK(u, c)'
    BY Zenon DEF BinOK
  <2>2. CASE u = t
    BY <2>1, <2>2, Zenon DEF HandOK, HoldsCached, At
  <2>3. CASE u # t
    <3>1. frame'[u] = frame[u] /\ HandOK(u, c) /\ FlushOK(u, c)
      BY <2>3, Zenon DEF Moves
    <3>2. HandOK(u, c)'
      BY <3>1, Zenon DEF HandOK, HoldsCached, At
    <3>3. FlushOK(u, c)'
      BY <3>1, Zenon DEF FlushOK, CurrentBin
    <3> QED BY <2>1, <3>2, <3>3, Zenon
  <2> QED BY <2>2, <2>3, Zenon
<1>8. ASSUME NEW q \in Addr PROVE CentralOK(q)'
  <2>1. ASSUME NEW u \in Threads, HoldsFresh(u) /\ frame[u].ptr = q
        PROVE  HoldsFresh(u)' /\ frame'[u].ptr = q
    BY <2>1, Zenon DEF HoldsFresh, Quiet, Moves
  <2> QED BY <1>4, <2>1, Zenon DEF CentralOK
<1> QED BY <1>3, <1>5, <1>6, <1>7, <1>8, Zenon

LEMMA DeallocateToCentralInv ==
  ASSUME IInv, NEW t \in Threads, DeallocateToCentral(t)
  PROVE  IInv'
<1>1. PICK p \in Addr : p = frame[t].ptr
  BY Zenon DEF DeallocateToCentral, At, IInv, CacheInvariant, FrameOK
<1>2. /\ Quiet(t) /\ Unlocked(p) /\ frame \in [Threads -> Frame]
      /\ IsActive(p) /\ Matches(records[p].kind, frame[t].arg)
      /\ shardLock' = [shardLock EXCEPT ![ShardOf[p]] = t]
      /\ UNCHANGED <<records, bins, central, cached, live>>
  BY <1>1, QuietLabels, Zenon DEF DeallocateToCentral, At, Lock, IInv, TypeOK
<1>3. /\ Moves(t) /\ frame'[t].pc = "free_central" /\ frame'[t].ptr = p
      /\ frame'[t].arg = frame[t].arg
  BY <1>1, <1>2 DEF DeallocateToCentral, Goto, Moves, Frame, Labels
<1>4. FreeOK(t)' /\ \A c \in Classes : FlushOK(t, c)'
  BY <1>2, <1>3, Zenon DEF FreeOK, FlushOK, IsActive, Matches, At
<1> QED BY <1>2, <1>3, <1>4, LockStep, Zenon

\* flush_bin works on one bin at a time.
LEMMA CurrentBinUnique ==
  ASSUME TypeOK, NEW t \in Threads, NEW c \in Classes, NEW d \in Classes,
         CurrentBin(t, c), CurrentBin(t, d)
  PROVE  c = d
<1>1. c \in Nat /\ d \in Nat
  BY DomainAssumption, Zenon
<1>2. c <= d /\ d <= c
  BY Zenon DEF CurrentBin
<1> QED BY <1>1, <1>2

LEMMA FlushLockInv ==
  ASSUME IInv, NEW t \in Threads, FlushLock(t)
  PROVE  IInv'
<1>1. PICK c \in Classes :
        LET p == Back(bins[t][c])
            consistent == IsCached(p)
        IN  /\ At(t, "flush")
            /\ CurrentBin(t, c)
            /\ Len(bins[t][c]) > FlushTarget(t)
            /\ Unlocked(p)
            /\ shardLock' = IF consistent THEN [shardLock EXCEPT ![ShardOf[p]] = t]
                            ELSE shardLock
            /\ frame' = [frame EXCEPT
                 ![t].pc = IF consistent THEN "flush_central" ELSE "broken",
                 ![t].ptr = p]
            /\ UNCHANGED <<records, bins, central, cached, live>>
  BY Zenon DEF FlushLock
<1>2. bins[t][c] \in Seq(Addr) /\ frame \in [Threads -> Frame] /\ TypeOK
  BY Zenon DEF IInv, TypeOK
<1>3. Len(bins[t][c]) \in Nat \ {0}
  BY <1>1, <1>2, OptionsAssumption DEF FlushTarget, validate_cache_options
<1>4. PICK p \in Addr : p = Back(bins[t][c])
  BY <1>2, <1>3, SequenceFacts DEF Back
<1>5. IsCached(p)
  <2>1. records[p] = CachedRecord(t, c)
    BY <1>3, <1>4 DEF IInv, CacheInvariant, BinOK, Back
  <2> QED BY <2>1, RecordFacts DEF IsCached, CachedRecord, Record, Kinds
<1>6. /\ Quiet(t) /\ Unlocked(p)
      /\ shardLock' = [shardLock EXCEPT ![ShardOf[p]] = t]
      /\ frame' = [frame EXCEPT ![t].pc = "flush_central", ![t].ptr = p]
      /\ UNCHANGED <<records, bins, central, cached, live>>
  BY <1>1, <1>4, <1>5, QuietLabels, Zenon DEF At
<1>7. /\ Moves(t) /\ frame'[t].pc = "flush_central" /\ frame'[t].ptr = p
      /\ frame'[t].flushing = frame[t].flushing
  <2> DEFINE g == [frame[t] EXCEPT !.pc = "flush_central", !.ptr = p]
  <2>1. frame[t] \in Frame /\ "flush_central" \in Labels
    BY <1>2, Zenon DEF Labels
  <2>2. /\ g \in Frame /\ g.pc = "flush_central" /\ g.ptr = p
        /\ g.flushing = frame[t].flushing
    BY <2>1, Zenon DEF Frame
  <2>3. frame' = [frame EXCEPT ![t] = g]
    BY <1>2, <1>6, Zenon
  <2> HIDE DEF g
  <2> QED BY <1>2, <2>2, <2>3, Zenon DEF Moves
<1>8. ASSUME NEW d \in Classes PROVE FlushOK(t, d)'
  <2>1. CurrentBin(t, d)' => CurrentBin(t, d)
    BY <1>7, Zenon DEF CurrentBin
  <2>2. CurrentBin(t, d)' => d = c
    BY <1>1, <1>2, <2>1, CurrentBinUnique, Zenon
  <2>3. bins'[t][c] = bins[t][c] /\ Back(bins[t][c]) = p /\ Len(bins[t][c]) > 0
    BY <1>3, <1>4, <1>6
  <2> QED BY <1>7, <2>2, <2>3, Zenon DEF FlushOK, Back
<1>9. FreeOK(t)'
  BY <1>5, <1>6, <1>7, Zenon DEF FreeOK, At, IsCached
<1> QED BY <1>6, <1>7, <1>8, <1>9, LockStep, Zenon

LEMMA CentralFreeStep ==
  ASSUME IInv, NEW t \in Threads, NEW p \in Addr, Moves(t),
         frame[t].pc \in {"free_central", "flush_central"}, frame[t].ptr = p,
         frame'[t].pc \in {"free_erase", "flush_erase"}, frame'[t].ptr = p,
         central' = [central EXCEPT ![p] = Free],
         FreeOK(t)', \A c \in Classes : FlushOK(t, c)',
         UNCHANGED <<records, shardLock, bins, cached, live>>
  PROVE  IInv'
<1> USE DEF IInv, CacheInvariant
<1>1. records[p] # NoRecord /\ ~ Erasing(p)
  BY HeldBlock, Zenon
<1>2. /\ central' \in [Addr -> Kinds \cup {Free}] /\ central'[p] = Free
      /\ \A q \in Addr : q # p => central'[q] = central[q]
  BY Zenon DEF TypeOK
<1>3. TypeOK'
  BY <1>2, Zenon DEF TypeOK, Moves
<1>4. \A q \in Addr : q # p => (Erasing(q)' <=> Erasing(q))
  BY Zenon DEF Erasing, Moves
<1>5. Erasing(p)'
  BY Zenon DEF Erasing
<1>6. \A u \in Threads : HoldsFresh(u) => frame[u].ptr \in Addr \ {p}
  BY <1>1, Zenon DEF FreshOK, FrameOK, HoldsFresh
<1>7. ASSUME NEW u \in Threads
      PROVE  FrameOK(u)' /\ LockOK(u)' /\ FreshOK(u)' /\ FreeOK(u)'
  <2>1. CASE u = t
    <3>1. FrameOK(t)' /\ LockOK(t)' /\ FreshOK(t)'
      BY Zenon DEF FrameOK, LockOK, FreshOK, HoldsFresh, HoldsShard, At
    <3> QED BY <2>1, <3>1, Zenon
  <2>2. CASE u # t
    <3>1. FrameOK(u)' /\ LockOK(u)' /\ FreeOK(u)'
      <4>1. frame'[u] = frame[u] /\ FrameOK(u) /\ LockOK(u) /\ FreeOK(u)
        BY <2>2, Zenon DEF Moves
      <4>2. FrameOK(u)'
        BY <4>1, Zenon DEF FrameOK, HoldsShard, At
      <4>3. LockOK(u)'
        BY <4>1, Zenon DEF LockOK, HoldsShard
      <4>4. FreeOK(u)'
        BY <4>1, Zenon DEF FreeOK, HoldsShard, IsActive, Matches
      <4> QED BY <4>2, <4>3, <4>4, Zenon
    <3>2. FreshOK(u)'
      BY <1>2, <1>4, <1>6, <2>2, Zenon DEF FreshOK, HoldsFresh, At, Moves
    <3> QED BY <3>1, <3>2, Zenon
  <2> QED BY <2>1, <2>2, Zenon
<1>8. ASSUME NEW u \in Threads, NEW v \in Threads PROVE FreshDistinct(u, v)'
  BY Zenon DEF FreshDistinct, HoldsFresh, Moves
<1>9. ASSUME NEW u \in Threads, NEW c \in Classes
      PROVE  BinOK(u, c)' /\ HandOK(u, c)' /\ FlushOK(u, c)'
  <2>1. BinOK(u, c)'
    BY Zenon DEF BinOK
  <2>2. CASE u = t
    BY <2>1, <2>2, Zenon DEF HandOK, HoldsCached, At
  <2>3. CASE u # t
    <3>1. frame'[u] = frame[u] /\ HandOK(u, c) /\ FlushOK(u, c)
      BY <2>3, Zenon DEF Moves
    <3>2. HandOK(u, c)'
      BY <3>1, Zenon DEF HandOK, HoldsCached, At
    <3>3. FlushOK(u, c)'
      BY <3>1, Zenon DEF FlushOK, CurrentBin
    <3> QED BY <2>1, <3>2, <3>3, Zenon
  <2> QED BY <2>2, <2>3, Zenon
<1>10. ASSUME NEW q \in Addr PROVE CentralOK(q)'
  <2>1. CASE q = p
    BY <1>2, <1>5, <2>1, Zenon DEF CentralOK
  <2>2. CASE q # p
    <3>1. ASSUME NEW u \in Threads, HoldsFresh(u) /\ frame[u].ptr = q
          PROVE  HoldsFresh(u)' /\ frame'[u].ptr = q
      BY <3>1, <2>2, Zenon DEF HoldsFresh, Moves
    <3> QED BY <1>2, <1>4, <2>2, <3>1, Zenon DEF CentralOK
  <2> QED BY <2>1, <2>2, Zenon
<1> QED BY <1>3, <1>7, <1>8, <1>9, <1>10, Zenon

LEMMA CentralDeallocateInv ==
  ASSUME IInv, NEW t \in Threads, CentralDeallocate(t)
  PROVE  IInv'
<1>1. frame[t].pc = "free_central" /\ frame \in [Threads -> Frame]
  BY Zenon DEF CentralDeallocate, At, IInv, TypeOK
<1>2. PICK p \in Addr : p = frame[t].ptr
  BY <1>1, HeldBlock, Zenon
<1>3. Returns(p, frame[t].arg)
  BY <1>1, <1>2, HeldBlock, Zenon DEF Returns, IInv, CacheInvariant, FreeOK, At
<1>4. /\ central' = [central EXCEPT ![p] = Free] /\ Goto(t, "free_erase")
      /\ UNCHANGED <<records, shardLock, bins, cached, live>>
  BY <1>2, <1>3, Zenon DEF CentralDeallocate
<1>5. /\ Moves(t) /\ frame'[t].pc = "free_erase" /\ frame'[t].ptr = p
      /\ frame'[t].arg = frame[t].arg
  BY <1>1, <1>2, <1>4 DEF Goto, Moves, Frame, Labels
<1>6. IsActive(p) /\ Matches(records[p].kind, frame[t].arg)
  BY <1>1, <1>2, Zenon DEF IInv, CacheInvariant, FreeOK
<1>7. FreeOK(t)' /\ \A c \in Classes : FlushOK(t, c)'
  BY <1>4, <1>5, <1>6, Zenon DEF FreeOK, FlushOK, IsActive, Matches, At
<1> QED BY <1>1, <1>2, <1>4, <1>5, <1>7, CentralFreeStep, Zenon

LEMMA FlushCentralInv ==
  ASSUME IInv, NEW t \in Threads, FlushCentral(t)
  PROVE  IInv'
<1>1. frame[t].pc = "flush_central" /\ frame \in [Threads -> Frame]
  BY Zenon DEF FlushCentral, At, IInv, TypeOK
<1>2. PICK p \in Addr : p = frame[t].ptr
  BY <1>1, HeldBlock, Zenon
<1>3. Returns(p, Unsized)
  BY <1>1, <1>2, HeldBlock, Zenon DEF Returns, Matches
<1>4. /\ central' = [central EXCEPT ![p] = Free] /\ Goto(t, "flush_erase")
      /\ UNCHANGED <<records, shardLock, bins, cached, live>>
  BY <1>2, <1>3, Zenon DEF FlushCentral
<1>5. /\ Moves(t) /\ frame'[t].pc = "flush_erase" /\ frame'[t].ptr = p
      /\ frame'[t].flushing = frame[t].flushing
  BY <1>1, <1>2, <1>4 DEF Goto, Moves, Frame, Labels
<1>6. FreeOK(t)'
  <2>1. records[p] # NoRecord
    BY <1>1, <1>2, HeldBlock, Zenon
  <2> QED BY <1>4, <1>5, <2>1, Zenon DEF FreeOK, At
<1>7. ASSUME NEW c \in Classes PROVE FlushOK(t, c)'
  <2>1. FlushOK(t, c)
    BY Zenon DEF IInv, CacheInvariant
  <2> QED BY <1>1, <1>2, <1>4, <1>5, <2>1, Zenon DEF FlushOK, CurrentBin
<1> QED BY <1>1, <1>2, <1>4, <1>5, <1>6, <1>7, CentralFreeStep, Zenon

\* What erasing a record and unlocking its shard does, point by point.
LEMMA EraseFacts ==
  ASSUME IInv, NEW p \in Addr, records' = [records EXCEPT ![p] = NoRecord],
         shardLock' = [shardLock EXCEPT ![ShardOf[p]] = NoThread]
  PROVE  /\ records' \in [Addr -> Record \cup {NoRecord}] /\ records'[p] = NoRecord
         /\ \A q \in Addr : q # p => records'[q] = records[q]
         /\ shardLock' \in [Shards -> Threads \cup {NoThread}]
         /\ \A s \in Shards : s # ShardOf[p] => shardLock'[s] = shardLock[s]
<1>1. /\ records' \in [Addr -> Record \cup {NoRecord}] /\ records'[p] = NoRecord
      /\ \A q \in Addr : q # p => records'[q] = records[q]
  BY Zenon DEF IInv, TypeOK
<1>2. /\ shardLock' \in [Shards -> Threads \cup {NoThread}]
      /\ \A s \in Shards : s # ShardOf[p] => shardLock'[s] = shardLock[s]
  BY Zenon DEF IInv, TypeOK
<1> QED BY <1>1, <1>2, Zenon

\* The record of p goes and its shard is unlocked.  No bin and no other hand
\* has p any more.
LEMMA EraseStep ==
  ASSUME IInv, NEW t \in Threads, NEW p \in Addr, Moves(t),
         frame[t].pc \in {"free_erase", "flush_erase"}, frame[t].ptr = p,
         Quiet(t)', FrameOK(t)',
         records' \in [Addr -> Record \cup {NoRecord}], records'[p] = NoRecord,
         \A q \in Addr : q # p => records'[q] = records[q],
         shardLock' \in [Shards -> Threads \cup {NoThread}],
         \A s \in Shards : s # ShardOf[p] => shardLock'[s] = shardLock[s],
         bins' \in [Threads -> [Classes -> Seq(Addr)]],
         \A u \in Threads : u # t => bins'[u] = bins[u],
         \A u \in Threads, c \in Classes : BinOK(u, c)',
         InNoOtherHand(t, p),
         central' = central, cached' \in Int, live' \in Int
  PROVE  IInv'
<1> USE DEF IInv, CacheInvariant
<1>1. TypeOK'
  BY Zenon DEF TypeOK, Moves
<1>2. \A q \in Addr : q # p => (Erasing(q)' <=> Erasing(q))
  BY Zenon DEF Erasing, Quiet, HoldsShard, Moves
<1>3. HoldsShard(t) /\ shardLock[ShardOf[p]] = t
  BY Zenon DEF HoldsShard, LockOK
<1>4. \A u \in Threads :
        u # t /\ HoldsShard(u) =>
           /\ frame[u].ptr \in Addr \ {p}
           /\ ShardOf[frame[u].ptr] \in Shards \ {ShardOf[p]}
  <2> TAKE u \in Threads
  <2> HAVE u # t /\ HoldsShard(u)
  <2>1. frame[u].ptr \in Addr /\ shardLock[ShardOf[frame[u].ptr]] = u
    BY Zenon DEF LockOK, FrameOK
  <2>2. ShardOf[frame[u].ptr] \in Shards
    BY <2>1, DomainAssumption, Zenon
  <2> QED BY <1>3, <2>1, <2>2, Zenon
<1>5. ASSUME NEW u \in Threads
      PROVE  FrameOK(u)' /\ LockOK(u)' /\ FreshOK(u)' /\ FreeOK(u)'
  <2>1. CASE u = t
    BY <2>1, Zenon DEF Quiet, LockOK, FreshOK, FreeOK, HoldsShard, At
  <2>2. CASE u # t
    <3>1. frame'[u] = frame[u] /\ FrameOK(u) /\ FreeOK(u)
      BY <2>2, Zenon DEF Moves
    <3>2. FrameOK(u)'
      BY <3>1, Zenon DEF FrameOK, HoldsShard, At
    <3>3. LockOK(u)'
      BY <1>4, <2>2, <3>1, SMT DEF LockOK, HoldsShard
    <3>4. FreeOK(u)'
      <4>1. HoldsShard(u) => records'[frame[u].ptr] = records[frame[u].ptr]
        BY <1>4, <2>2, Zenon
      <4> QED BY <3>1, <4>1, Zenon DEF FreeOK, HoldsShard, At, IsActive, Matches
    <3>5. FreshOK(u)'
      <4>1. CASE ~ HoldsFresh(u)
        BY <3>1, <4>1, Zenon DEF FreshOK, HoldsFresh
      <4>2. CASE HoldsFresh(u)
        <5>1. PICK q \in Addr : q = frame[u].ptr
          BY <3>1, <4>2, Zenon DEF FrameOK, HoldsFresh
        <5>2. /\ central[q] = Kind(frame[u].arg)
              /\ records[q] # NoRecord => At(u, "record") /\ Erasing(q)
          BY <4>2, <5>1, Zenon DEF FreshOK
        <5>3. records'[q] # NoRecord => At(u, "record") /\ Erasing(q)'
          BY <1>2, <5>2, Zenon
        <5> QED BY <3>1, <5>1, <5>2, <5>3, Zenon DEF FreshOK, At
      <4> QED BY <4>1, <4>2, Zenon
    <3> QED BY <3>2, <3>3, <3>4, <3>5, Zenon
  <2> QED BY <2>1, <2>2, Zenon
<1>6. ASSUME NEW u \in Threads, NEW v \in Threads PROVE FreshDistinct(u, v)'
  BY Zenon DEF FreshDistinct, Quiet, HoldsFresh, Moves
<1>7. ASSUME NEW u \in Threads, NEW c \in Classes
      PROVE  BinOK(u, c)' /\ HandOK(u, c)' /\ FlushOK(u, c)'
  <2>1. CASE u = t
    BY <2>1, Zenon DEF Quiet, HandOK, FlushOK, HoldsShard
  <2>2. CASE u # t
    <3>1. frame'[u] = frame[u] /\ bins'[u] = bins[u] /\ HandOK(u, c) /\ FlushOK(u, c)
      BY <2>2, Zenon DEF Moves
    <3>2. FlushOK(u, c)'
      BY <3>1, Zenon DEF FlushOK, CurrentBin
    <3>3. HoldsCached(u, c)' => HoldsCached(u, c) /\ frame[u].ptr \in Addr \ {p}
      <4>1. HoldsCached(u, c)' => HoldsCached(u, c)
        BY <3>1, Zenon DEF HoldsCached, At
      <4>2. HoldsCached(u, c) => frame[u].ptr \in Addr
        BY Zenon DEF HoldsCached, FrameOK, At
      <4> QED BY <2>2, <4>1, <4>2, Zenon DEF InNoOtherHand
    <3>4. HoldsCached(u, c)' => records'[frame[u].ptr] = records[frame[u].ptr]
      BY <3>3, Zenon
    <3>5. HandOK(u, c)'
      BY <3>1, <3>3, <3>4, Zenon DEF HandOK, CachedRecord
    <3> QED BY <3>2, <3>5, Zenon
  <2> QED BY <2>1, <2>2, Zenon
<1>8. ASSUME NEW q \in Addr PROVE CentralOK(q)'
  <2>1. ASSUME NEW u \in Threads, HoldsFresh(u) /\ frame[u].ptr = q
        PROVE  HoldsFresh(u)' /\ frame'[u].ptr = q
    BY <2>1, Zenon DEF HoldsFresh, Moves
  <2>2. CASE q = p
    <3>1. Erasing(p)
      BY Zenon DEF Erasing
    <3> QED BY <2>1, <2>2, <3>1, Zenon DEF CentralOK
  <2>3. CASE q # p
    BY <1>2, <2>1, <2>3, Zenon DEF CentralOK
  <2> QED BY <2>2, <2>3, Zenon
<1> QED BY <1>1, <1>5, <1>6, <1>7, <1>8, Zenon

LEMMA EraseRecordInv ==
  ASSUME IInv, NEW t \in Threads, EraseRecord(t)
  PROVE  IInv'
<1>1. frame[t].pc = "free_erase" /\ Moves(t) /\ Quiet(t)' /\ FrameOK(t)'
  BY ReturnQuiet, Zenon DEF EraseRecord, At, IInv
<1>2. PICK p \in Addr : p = frame[t].ptr
  BY <1>1, Zenon DEF IInv, CacheInvariant, FrameOK, HoldsShard
<1>3. /\ records' = [records EXCEPT ![p] = NoRecord]
      /\ shardLock' = [shardLock EXCEPT ![ShardOf[p]] = NoThread]
      /\ UNCHANGED <<bins, central>> /\ cached' \in Int /\ live' \in Int
      /\ records \in [Addr -> Record \cup {NoRecord}]
      /\ bins \in [Threads -> [Classes -> Seq(Addr)]]
  BY <1>2 DEF EraseRecord, Unlock, IInv, TypeOK
<1>4. ASSUME NEW u \in Threads, NEW c \in Classes PROVE records[p] # CachedRecord(u, c)
  BY <1>1, <1>2 DEF IInv, CacheInvariant, FreeOK, IsActive, CachedRecord
<1>5. ASSUME NEW u \in Threads, NEW c \in Classes PROVE BinOK(u, c)'
  <2>1. bins[u][c] \in Seq(Addr) /\ BinOK(u, c)
    BY <1>3, Zenon DEF IInv, CacheInvariant
  <2>2. \A i \in 1 .. Len(bins[u][c]) : bins[u][c][i] \in Addr \ {p}
    BY <1>4, <2>1 DEF BinOK
  <2> QED BY <1>3, <2>1, <2>2, Zenon DEF BinOK, CachedRecord
<1>6. InNoOtherHand(t, p)
  BY <1>4 DEF InNoOtherHand, IInv, CacheInvariant, HandOK
<1>7. /\ records' \in [Addr -> Record \cup {NoRecord}] /\ records'[p] = NoRecord
      /\ \A q \in Addr : q # p => records'[q] = records[q]
      /\ shardLock' \in [Shards -> Threads \cup {NoThread}]
      /\ \A s \in Shards : s # ShardOf[p] => shardLock'[s] = shardLock[s]
  BY <1>3, EraseFacts, Zenon
<1> QED BY <1>1, <1>2, <1>3, <1>5, <1>6, <1>7, EraseStep, Zenon

LEMMA FlushEraseInv ==
  ASSUME IInv, NEW t \in Threads, FlushErase(t)
  PROVE  IInv'
<1>1. frame[t].pc = "flush_erase" /\ frame \in [Threads -> Frame]
  BY Zenon DEF FlushErase, At, IInv, TypeOK
<1>2. PICK p \in Addr : p = frame[t].ptr
  BY <1>1, Zenon DEF IInv, CacheInvariant, FrameOK, HoldsShard
<1>3. PICK c \in Classes :
        /\ CurrentBin(t, c)
        /\ records' = [records EXCEPT ![p] = NoRecord]
        /\ bins' = [bins EXCEPT ![t][c] = PopBack(@)]
        /\ cached' = cached - 1
        /\ shardLock' = [shardLock EXCEPT ![ShardOf[p]] = NoThread]
        /\ frame' = [frame EXCEPT ![t].pc = "flush", ![t].ptr = NoAddr]
        /\ UNCHANGED <<central, live>>
  BY <1>2, Zenon DEF FlushErase, Unlock
<1>4. /\ records \in [Addr -> Record \cup {NoRecord}]
      /\ bins \in [Threads -> [Classes -> Seq(Addr)]]
      /\ cached' \in Int /\ live' \in Int
  BY <1>3 DEF IInv, TypeOK
<1>5. Moves(t) /\ frame'[t].pc = "flush"
  <2> DEFINE g == [frame[t] EXCEPT !.pc = "flush", !.ptr = NoAddr]
  <2>1. frame[t] \in Frame /\ "flush" \in Labels
    BY <1>1, Zenon DEF Labels
  <2>2. g \in Frame /\ g.pc = "flush"
    BY <2>1, Zenon DEF Frame
  <2>3. frame' = [frame EXCEPT ![t] = g]
    BY <1>1, <1>3, Zenon
  <2> HIDE DEF g
  <2> QED BY <1>1, <2>2, <2>3, Zenon DEF Moves
<1>6. Quiet(t)' /\ FrameOK(t)'
  BY <1>5, Zenon DEF Quiet, FrameOK, HoldsShard, HoldsFresh, HoldsCached, At
<1> DEFINE b == bins[t][c]
<1>7. b \in Seq(Addr) /\ b # <<>> /\ Back(b) = p
  BY <1>1, <1>2, <1>3, <1>4, SequenceFacts DEF IInv, CacheInvariant, FlushOK
<1>8. /\ PopBack(b) \in Seq(Addr) /\ Len(b) > 0 /\ Len(PopBack(b)) = Len(b) - 1
      /\ \A i \in 1 .. Len(PopBack(b)) : PopBack(b)[i] = b[i]
  BY <1>7, PopBackFacts, Zenon
<1>9. /\ bins' \in [Threads -> [Classes -> Seq(Addr)]] /\ bins'[t][c] = PopBack(b)
      /\ \A u \in Threads : u # t => bins'[u] = bins[u]
      /\ \A u \in Threads, d \in Classes : u # t \/ d # c => bins'[u][d] = bins[u][d]
  BY <1>3, <1>4, <1>8, Zenon
<1>10. /\ \A i \in 1 .. Len(b) : records[b[i]] = CachedRecord(t, c)
       /\ \A i, j \in 1 .. Len(b) : b[i] = b[j] => i = j
  BY Zenon DEF IInv, CacheInvariant, BinOK
<1>11. Len(b) \in Nat /\ Len(b) \in 1 .. Len(b) /\ b[Len(b)] = p
  BY <1>7, <1>8 DEF Back
<1>12. ASSUME NEW u \in Threads, NEW d \in Classes, records[p] = CachedRecord(u, d)
       PROVE  u = t /\ d = c
  BY <1>10, <1>11, <1>12 DEF CachedRecord
<1>13. ASSUME NEW u \in Threads, NEW d \in Classes PROVE BinOK(u, d)'
  <2>1. bins[u][d] \in Seq(Addr) /\ BinOK(u, d)
    BY <1>4, Zenon DEF IInv, CacheInvariant
  <2>2. CASE u = t /\ d = c
    <3>1. \A i \in 1 .. Len(PopBack(b)) :
             i \in 1 .. Len(b) /\ i # Len(b) /\ PopBack(b)[i] = b[i]
      BY <1>8, <1>11
    <3>2. \A i \in 1 .. Len(PopBack(b)) : b[i] \in Addr \ {p}
      BY <1>7, <1>10, <1>11, <3>1
    <3>3. \A q \in Addr \ {p} : records'[q] = records[q]
      BY <1>3, <1>4, Zenon
    <3> HIDE DEF b
    <3>4. \A i \in 1 .. Len(PopBack(b)) : records'[PopBack(b)[i]] = CachedRecord(t, c)
      BY <1>10, <3>1, <3>2, <3>3, Zenon
    <3>5. \A i, j \in 1 .. Len(PopBack(b)) : PopBack(b)[i] = PopBack(b)[j] => i = j
      BY <1>10, <3>1, Zenon
    <3>6. PICK s : s = PopBack(b)
      BY Zenon
    <3>7. /\ bins'[t][c] = s
          /\ \A i \in 1 .. Len(s) : records'[s[i]] = CachedRecord(t, c)
          /\ \A i, j \in 1 .. Len(s) : s[i] = s[j] => i = j
      BY <1>9, <3>4, <3>5, <3>6, Zenon
    <3> QED BY <2>2, <3>7 DEF BinOK, CachedRecord
  <2>3. CASE ~ (u = t /\ d = c)
    <3>1. \A i \in 1 .. Len(bins[u][d]) : bins[u][d][i] \in Addr \ {p}
      BY <1>12, <2>1, <2>3 DEF BinOK
    <3> QED BY <1>3, <1>4, <1>9, <2>1, <2>3, <3>1 DEF BinOK, CachedRecord
  <2> QED BY <2>2, <2>3, Zenon
<1>14. InNoOtherHand(t, p)
  BY <1>12 DEF InNoOtherHand, IInv, CacheInvariant, HandOK
<1>15. /\ records' \in [Addr -> Record \cup {NoRecord}] /\ records'[p] = NoRecord
       /\ \A q \in Addr : q # p => records'[q] = records[q]
       /\ shardLock' \in [Shards -> Threads \cup {NoThread}]
       /\ \A s \in Shards : s # ShardOf[p] => shardLock'[s] = shardLock[s]
  BY <1>3, EraseFacts, Zenon
<1> QED BY <1>1, <1>2, <1>3, <1>4, <1>5, <1>6, <1>9, <1>13, <1>14, <1>15,
           EraseStep, Zenon

------------------------------------------------------------------------------
(* The invariant, and what it gives.                                       *)

LEMMA InitInv == Init => IInv
<1> SUFFICES ASSUME Init PROVE IInv
  BY Zenon
<1>1. \A t \in Threads : frame[t].pc = "idle"
  BY Zenon DEF Init, IdleFrame
<1>2. TypeOK
  BY IdleFrameType DEF Init, TypeOK
<1>3. \A t \in Threads : FrameOK(t) /\ LockOK(t) /\ FreshOK(t) /\ FreeOK(t)
  BY <1>1, Zenon DEF FrameOK, LockOK, FreshOK, FreeOK, HoldsShard, HoldsFresh, At
<1>4. \A t, u \in Threads : FreshDistinct(t, u)
  BY <1>1, Zenon DEF FreshDistinct, HoldsFresh
<1>5. \A t \in Threads, c \in Classes : BinOK(t, c) /\ HandOK(t, c) /\ FlushOK(t, c)
  BY <1>1 DEF Init, BinOK, HandOK, FlushOK, HoldsCached, At
<1>6. \A p \in Addr : CentralOK(p)
  BY Zenon DEF Init, CentralOK
<1> QED BY <1>2, <1>3, <1>4, <1>5, <1>6, Zenon DEF IInv, CacheInvariant

LEMMA StutterInv ==
  ASSUME IInv, UNCHANGED vars
  PROVE  IInv'
<1> USE DEF vars, IInv, CacheInvariant
<1>1. TypeOK'
  BY Zenon DEF TypeOK
<1>2. ASSUME NEW t \in Threads
      PROVE  FrameOK(t)' /\ LockOK(t)' /\ FreeOK(t)' /\ FreshOK(t)'
  <2>1. FrameOK(t)' /\ LockOK(t)' /\ FreeOK(t)'
    BY Zenon DEF FrameOK, LockOK, FreeOK, HoldsShard, At, IsActive, Matches
  <2>2. FreshOK(t)'
    BY Zenon DEF FreshOK, HoldsFresh, At, Erasing
  <2> QED BY <2>1, <2>2, Zenon
<1>3. ASSUME NEW t \in Threads, NEW u \in Threads PROVE FreshDistinct(t, u)'
  BY Zenon DEF FreshDistinct, HoldsFresh
<1>4. ASSUME NEW t \in Threads, NEW c \in Classes
      PROVE  BinOK(t, c)' /\ HandOK(t, c)' /\ FlushOK(t, c)'
  BY Zenon DEF BinOK, HandOK, FlushOK, HoldsCached, CurrentBin, CachedRecord, At
<1>5. ASSUME NEW p \in Addr PROVE CentralOK(p)'
  BY Zenon DEF CentralOK, Erasing, HoldsFresh
<1> QED BY <1>1, <1>2, <1>3, <1>4, <1>5, Zenon

LEMMA NextInv == IInv /\ [Next]_vars => IInv'
<1> SUFFICES ASSUME IInv, [Next]_vars PROVE IInv'
  BY Zenon
<1>1. CASE UNCHANGED vars
  BY <1>1, StutterInv, Zenon
<1>2. CASE Next
  <2>1. PICK t \in Threads : Call(t) \/ Step(t)
    BY <1>2, Zenon DEF Next
  <2>2. CASE Call(t)
    BY <2>2, CallAllocateInv, CallDeallocateInv, FlushCallInv, Zenon DEF Call
  <2>3. CASE CacheHit(t) \/ NoteLiveAllocation(t)
    BY <2>3, CacheHitInv, NoteLiveAllocationInv, Zenon
  <2>4. CASE Proceed(t)
    BY <2>4, CentralAllocateInv, CentralAllocateFailsInv, RecordAllocationInv,
       RecordAllocationFailsInv, UndoAllocationInv, KeepBlockInv,
       DeallocateRejectedInv, DeallocateToCentralInv, DeallocateLocalInv,
       CentralDeallocateInv, EraseRecordInv, PushLocalInv, FlushLockInv,
       FlushCentralInv, FlushEraseInv, FlushBinDoneInv, Zenon DEF Proceed
  <2> QED BY <2>1, <2>2, <2>3, <2>4, Zenon DEF Step
<1> QED BY <1>1, <1>2, Zenon

\* TypeOK and CacheInvariant hold in every reachable state of ThreadCacheState
\* and the registry, for any number of threads, blocks, classes and shards and
\* any watermarks validate_cache_options accepts.
THEOREM CacheInvariantHolds == Spec => [](TypeOK /\ CacheInvariant)
<1>1. Init => IInv
  BY InitInv, Zenon
<1>2. IInv /\ [Next]_vars => IInv'
  BY NextInv, Zenon
<1>3. IInv => TypeOK /\ CacheInvariant
  BY Zenon DEF IInv
<1> QED BY <1>1, <1>2, <1>3, PTL DEF Spec

\* Every variable keeps its type: in particular no call leaves a thread at a
\* label with a request or pointer of the wrong sort.
THEOREM TypeCorrect == Spec => []TypeOK
  BY CacheInvariantHolds, PTL

\* The logic_error throws of record_allocation, allocate and flush_bin are dead
\* code, and central storage never rejects what the cache returns to it,
\* whatever addresses and sizes callers free, from whatever threads.
THEOREM NoInternalErrorHolds == Spec => []NoInternalError
<1>1. TypeOK /\ CacheInvariant => NoInternalError
  BY Zenon DEF CacheInvariant, FrameOK, NoInternalError
<1> QED BY <1>1, CacheInvariantHolds, PTL

\* owns and owning_size_class never observe a half-completed transition: under
\* the shard lock, the record and central storage agree.
THEOREM OwnershipQueryHolds == Spec => []OwnershipQueryConsistent
<1>1. TypeOK /\ CacheInvariant => OwnershipQueryConsistent
  <2> SUFFICES ASSUME TypeOK, CacheInvariant, NEW p \in Addr, Unlocked(p)
               PROVE  IF records[p] # NoRecord
                      THEN central[p] = records[p].kind
                      ELSE central[p] = Free \/ \E t \in Threads :
                              frame[t].ptr = p /\ frame[t].pc \in {"record", "undo"}
    BY Zenon DEF OwnershipQueryConsistent
  <2>1. ~ Erasing(p)
    BY UnlockedFacts, Zenon DEF IInv
  <2> QED BY <2>1, Zenon DEF CacheInvariant, CentralOK, HoldsFresh
<1> QED BY <1>1, CacheInvariantHolds, PTL
==============================================================================
