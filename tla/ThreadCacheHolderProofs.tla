----------------------- MODULE ThreadCacheHolderProofs -----------------------
(***************************************************************************)
(* HolderInvariant is inductive, given CacheInvariant: where the blocks of *)
(* the thread caches are and how many.  Given both, ClientInvariant is     *)
(* inductive: the pointers in the hands of callers that free only what     *)
(* they hold, and those in the calls in progress.                          *)
(***************************************************************************)
EXTENDS ThreadCacheProofs, ThreadCacheClients

------------------------------------------------------------------------------
(* CallOK and ReserveOK: what a step of thread t says about t alone.       *)

LocalOK(t) == CallOK(t) /\ \A c \in Classes : ReserveOK(t, c)

LEMMA CallAllocateLocal ==
  ASSUME HInv, NEW t \in Threads, NEW r \in Requests, CallAllocate(t, r)
  PROVE  LocalOK(t)'
<1>1. /\ CallOK(t) /\ \A c \in Classes : ReserveOK(t, c)
      /\ HighWatermark \in Nat /\ RefillBatch \in Nat /\ RefillBatch > 0
      /\ \A c \in Classes : bins[t][c] \in Seq(Addr) /\ Len(bins[t][c]) \in Nat
  BY LocalFacts, Zenon
<1>2. CASE \E c \in Classes :
             /\ c = SizeClass[r] /\ bins[t][c] # <<>>
             /\ Enters(t, "hit", "allocate", r, Back(bins[t][c]), {})
             /\ BinChanges(t, c) /\ bins'[t][c] = PopBack(bins[t][c])
  <2>1. PICK c \in Classes :
             /\ bins[t][c] # <<>>
             /\ Enters(t, "hit", "allocate", r, Back(bins[t][c]), {})
             /\ BinChanges(t, c) /\ bins'[t][c] = PopBack(bins[t][c])
    BY <1>2, Zenon
  <2>2. Len(bins'[t][c]) = Len(bins[t][c]) - 1 /\ Len(bins[t][c]) > 0
    BY <1>1, <2>1, PopBackFacts, Zenon
  <2>3. /\ frame[t].pc = "idle" /\ frame'[t].pc = "hit" /\ frame'[t].op = "allocate"
        /\ frame'[t].index = 0
    BY <2>1, Zenon DEF Enters
  <2>4. CallOK(t)'
    BY <2>3, Zenon DEF CallOK, Refilling, Flushing, At
  <2>5. ASSUME NEW d \in Classes PROVE ReserveOK(t, d)'
    <3>1. Len(bins[t][d]) <= HighWatermark
      BY <1>1, <2>3 DEF ReserveOK, Flushing
    <3>2. Len(bins'[t][d]) \in Nat /\ Len(bins'[t][d]) <= Len(bins[t][d])
      <4>1. CASE d = c
        BY <1>1, <2>2, <4>1
      <4>2. CASE d # c
        BY <1>1, <2>1, <4>2 DEF BinChanges
      <4> QED BY <4>1, <4>2, Zenon
    <3> QED BY <1>1, <2>3, <3>1, <3>2 DEF ReserveOK, Flushing, Refilling
  <2> QED BY <2>4, <2>5, Zenon DEF LocalOK
<1>3. CASE /\ SizeClass[r] \in Classes => bins[t][SizeClass[r]] = <<>>
           /\ Enters(t, "refill", "allocate", r, NoAddr, {})
           /\ bins' = bins
  <2>1. /\ frame[t].pc = "idle" /\ frame'[t].pc = "refill" /\ frame'[t].op = "allocate"
        /\ frame'[t].index = 0 /\ frame'[t].arg = r
    BY <1>3, Zenon DEF Enters
  <2>2. BatchOf(r) > 0
    BY <1>1 DEF BatchOf
  <2>3. CallOK(t)'
    BY <2>1, <2>2, Zenon DEF CallOK, Refilling, Flushing, At
  <2>4. ASSUME NEW d \in Classes PROVE ReserveOK(t, d)'
    <3>1. Len(bins[t][d]) <= HighWatermark
      BY <1>1, <2>1 DEF ReserveOK, Flushing
    <3>2. d = SizeClass[r] => Len(bins[t][d]) = 0
      BY <1>3
    <3> QED BY <1>1, <1>3, <2>1, <3>1, <3>2 DEF ReserveOK, Flushing, Refilling
  <2> QED BY <2>3, <2>4, Zenon DEF LocalOK
<1> QED BY <1>2, <1>3, CallAllocateEffect, Zenon DEF HInv

LEMMA OtherCallsLocal ==
  ASSUME HInv, NEW t \in Threads,
         \/ \E p \in Addr, s \in Requests \cup {Unsized} : CallDeallocate(t, p, s)
         \/ CallRelease(t) \/ ExitThread(t)
  PROVE  LocalOK(t)'
<1>1. PICK pc, op, arg, ptr, flushing :
        /\ pc \in {"lookup", "flush"} /\ op \in {"deallocate", "release", "exit"}
        /\ Enters(t, pc, op, arg, ptr, flushing) /\ bins' = bins
        /\ pc = "lookup" <=> op = "deallocate"
  BY CallDeallocateEffect, FlushCallEffect DEF HInv
<1>2. /\ frame[t].pc = "idle" /\ frame'[t].pc = pc /\ frame'[t].op = op
      /\ frame'[t].index = 0
  BY <1>1, Zenon DEF Enters
<1>3. CallOK(t)'
  BY <1>1, <1>2, Zenon DEF CallOK, Refilling, Flushing, At
<1>4. ASSUME NEW d \in Classes PROVE ReserveOK(t, d)'
  <2>1. ReserveOK(t, d) /\ Len(bins[t][d]) \in Nat /\ HighWatermark \in Nat
    BY LocalFacts, Zenon
  <2>2. Len(bins[t][d]) <= HighWatermark
    BY <1>2, <2>1 DEF ReserveOK, Flushing
  <2> QED BY <1>1, <1>2, <2>1, <2>2, Zenon DEF ReserveOK, Flushing, Refilling
<1> QED BY <1>3, <1>4, Zenon DEF LocalOK

\* The steps of a call that leave the bins alone.
LEMMA BinsUnchangedLocal ==
  ASSUME HInv, NEW t \in Threads,
         \/ CacheHit(t) \/ NoteLiveAllocation(t)
         \/ CentralAllocate(t) \/ CentralAllocateFails(t)
         \/ RecordAllocation(t) \/ RecordAllocationFails(t) \/ UndoAllocation(t)
         \/ DeallocateRejected(t) \/ DeallocateToCentral(t) \/ DeallocateLocal(t)
         \/ CentralDeallocate(t) \/ EraseRecord(t)
         \/ FlushLock(t) \/ FlushCentral(t)
  PROVE  LocalOK(t)' /\ bins' = bins /\ Moves(t)
<1> USE DEF HInv
<1>1. /\ bins' = bins /\ ~ At(t, "keep")
      /\ \/ Ends(t, "idle") /\ ~ Flushing(t)
         \/ \E pc \in Labels, ptr \in Addr \cup {NoAddr}, flushing \in SUBSET Classes :
              /\ Advances(t, pc, ptr, flushing)
              /\ \/ Refilling(t) /\ pc \in {"record", "undo", "keep"}
                 \/ Refilling(t) /\ frame[t].index > 0 /\ pc = "note"
                 \/ frame[t].pc \in {"lookup", "free_central"}
                    /\ pc \in {"free_central", "free_erase", "push"}
                 \/ Flushing(t) /\ pc \in {"flush_central", "flush_erase"}
                    /\ flushing = frame[t].flushing
  <2>1. frame[t].flushing \in SUBSET Classes /\ frame[t].ptr \in Addr \cup {NoAddr}
    BY Zenon DEF IInv, TypeOK, Frame
  <2>2. CASE CacheHit(t)
    BY <2>2, CacheHitEffect, Zenon DEF At, Flushing
  <2>3. CASE NoteLiveAllocation(t)
    BY <2>3, NoteLiveAllocationEffect, Zenon DEF At, Flushing
  <2>4. CASE CentralAllocate(t)
    BY <2>1, <2>4, CentralAllocateEffect, Zenon DEF At, Refilling, Labels
  <2>5. CASE CentralAllocateFails(t)
    BY <2>1, <2>5, CentralAllocateFailsEffect, Zenon DEF At, Refilling, Flushing, Labels
  <2>6. CASE RecordAllocation(t)
    BY <2>1, <2>6, RecordAllocationEffect, Zenon DEF At, Refilling, Labels
  <2>7. CASE RecordAllocationFails(t)
    BY <2>1, <2>7, RecordAllocationFailsEffect, Zenon DEF At, Refilling, Labels
  <2>8. CASE UndoAllocation(t)
    BY <2>1, <2>8, UndoAllocationEffect, Zenon DEF At, Refilling, Flushing, Labels
  <2>9. CASE DeallocateRejected(t)
    BY <2>9, DeallocateRejectedEffect, Zenon DEF At, Flushing
  <2>10. CASE DeallocateToCentral(t)
    BY <2>1, <2>10, DeallocateToCentralEffect, Zenon DEF At, Labels
  <2>11. CASE DeallocateLocal(t)
    <3>1. PICK c \in Classes :
            frame[t].pc = "lookup" /\ Advances(t, "push", frame[t].ptr, {c}) /\ bins' = bins
      BY <2>11, DeallocateLocalEffect, Zenon
    <3>2. {c} \in SUBSET Classes /\ "push" \in Labels
      BY Zenon DEF Labels
    <3> QED BY <2>1, <3>1, <3>2, Zenon DEF At
  <2>12. CASE CentralDeallocate(t)
    BY <2>1, <2>12, CentralDeallocateEffect, Zenon DEF At, Labels
  <2>13. CASE EraseRecord(t)
    BY <2>13, EraseRecordEffect, Zenon DEF At, Flushing
  <2>14. CASE FlushLock(t)
    BY <2>1, <2>14, FlushLockEffect, Zenon DEF At, Flushing, Labels
  <2>15. CASE FlushCentral(t)
    BY <2>1, <2>15, FlushCentralEffect, Zenon DEF At, Flushing, Labels
  <2> QED BY <2>2, <2>3, <2>4, <2>5, <2>6, <2>7, <2>8, <2>9, <2>10, <2>11, <2>12,
             <2>13, <2>14, <2>15, Zenon
<1>2. CallOK(t) /\ \A c \in Classes : ReserveOK(t, c)
  BY LocalFacts, Zenon
<1>3. CASE Ends(t, "idle") /\ ~ Flushing(t)
  <2>1. /\ Moves(t) /\ frame'[t].pc = "idle" /\ frame'[t].op = "none"
        /\ frame'[t].index = 0
    BY <1>3, Zenon DEF Ends
  <2>2. CallOK(t)'
    BY <2>1, Zenon DEF CallOK, Refilling, Flushing, At
  <2>3. \A c \in Classes : ReserveOK(t, c)'
    BY <1>1, <1>2, <1>3, <2>1, Zenon DEF ReserveOK, Flushing, Refilling
  <2> QED BY <1>1, <2>1, <2>2, <2>3, Zenon DEF LocalOK
<1>4. ASSUME NEW pc \in Labels, NEW ptr, NEW flushing \in SUBSET Classes,
             Advances(t, pc, ptr, flushing),
             \/ Refilling(t) /\ pc \in {"record", "undo", "keep"}
             \/ Refilling(t) /\ frame[t].index > 0 /\ pc = "note"
             \/ frame[t].pc \in {"lookup", "free_central"}
                /\ pc \in {"free_central", "free_erase", "push"}
             \/ Flushing(t) /\ pc \in {"flush_central", "flush_erase"}
                /\ flushing = frame[t].flushing
      PROVE  LocalOK(t)' /\ Moves(t)
  <2>1. /\ Moves(t) /\ frame'[t].pc = pc /\ frame'[t].op = frame[t].op
        /\ frame'[t].arg = frame[t].arg /\ frame'[t].index = frame[t].index
        /\ frame'[t].flushing = flushing
    BY <1>4, Zenon DEF Advances
  <2>2. CallOK(t)'
    BY <1>2, <1>4, <2>1, Zenon DEF CallOK, Refilling, Flushing, At
  <2>3. \A c \in Classes : ReserveOK(t, c)'
    BY <1>1, <1>2, <1>4, <2>1, Zenon DEF ReserveOK, Flushing, Refilling
  <2> QED BY <2>1, <2>2, <2>3, Zenon DEF LocalOK
<1> QED BY <1>1, <1>3, <1>4, Zenon

LEMMA KeepBlockLocal ==
  ASSUME HInv, NEW t \in Threads, KeepBlock(t)
  PROVE  LocalOK(t)'
<1> DEFINE f == frame[t]
<1>1. /\ CallOK(t) /\ \A c \in Classes : ReserveOK(t, c)
      /\ HighWatermark \in Nat /\ RefillBatch \in Nat /\ RefillBatch > 0
      /\ RefillBatch <= HighWatermark
      /\ \A c \in Classes : bins[t][c] \in Seq(Addr) /\ Len(bins[t][c]) \in Nat
  BY LocalFacts, Zenon
<1>2. /\ f.pc = "keep" /\ f.ptr \in Addr /\ f.index \in Nat
      /\ frame'[t].pc = (IF f.index + 1 < BatchOf(f.arg) THEN "refill" ELSE "note")
      /\ frame'[t].op = f.op /\ frame'[t].arg = f.arg /\ frame'[t].index = f.index + 1
  BY KeepBlockEffect, Zenon DEF HInv
<1>3. f.index < BatchOf(f.arg)
  BY <1>1, <1>2, Zenon DEF CallOK, Refilling
<1>4. CallOK(t)'
  BY <1>1, <1>2 DEF CallOK, Refilling, Flushing, At
<1>5. ASSUME NEW d \in Classes PROVE ReserveOK(t, d)'
  <2>1. /\ Len(bins[t][d]) <= HighWatermark
        /\ d = SizeClass[f.arg] => Len(bins[t][d]) <= f.index
    BY <1>1, <1>2 DEF ReserveOK, Flushing, Refilling
  <2>2. CASE bins'[t][d] = bins[t][d]
    BY <1>1, <1>2, <2>1, <2>2 DEF ReserveOK, Flushing, Refilling
  <2>3. CASE d = SizeClass[f.arg] /\ bins'[t][d] = Append(bins[t][d], f.ptr)
    <3>1. Len(bins'[t][d]) = Len(bins[t][d]) + 1
      <4>1. bins[t][d] \in Seq(Addr) /\ f.ptr \in Addr
        BY <1>1, <1>2, Zenon
      <4>2. Len(Append(bins[t][d], f.ptr)) = Len(bins[t][d]) + 1
        BY <4>1, AppendFacts
      <4> QED BY <2>3, <4>2, Zenon
    <3>2. f.index + 1 <= HighWatermark
      <4>1. BatchOf(f.arg) = RefillBatch
        BY <2>3, Zenon DEF BatchOf
      <4> HIDE DEF f
      <4> QED BY <1>1, <1>2, <1>3, <4>1
    <3>3. Len(bins[t][d]) \in Nat /\ HighWatermark \in Nat
      BY <1>1, Zenon
    <3>4. Len(bins'[t][d]) <= frame'[t].index /\ Len(bins'[t][d]) <= HighWatermark
      <4>1. Len(bins[t][d]) <= f.index /\ f.index \in Nat /\ frame'[t].index = f.index + 1
        BY <1>2, <2>1, <2>3, Zenon
      <4> HIDE DEF f
      <4> QED BY <3>1, <3>2, <3>3, <4>1
    <3>5. Len(bins'[t][d]) \in Nat
      BY <3>1, <3>3
    <3> QED BY <3>3, <3>4, <3>5 DEF ReserveOK
  <2> QED BY <2>2, <2>3, KeepBlockEffect, Zenon DEF HInv, BinChanges
<1> QED BY <1>4, <1>5, Zenon DEF LocalOK

LEMMA PushLocalLocal ==
  ASSUME HInv, NEW t \in Threads, PushLocal(t)
  PROVE  LocalOK(t)'
<1>1. /\ CallOK(t) /\ \A c \in Classes : ReserveOK(t, c)
      /\ HighWatermark \in Nat
      /\ \A c \in Classes : bins[t][c] \in Seq(Addr) /\ Len(bins[t][c]) \in Nat
  BY LocalFacts, Zenon
<1>2. PICK c \in Classes :
        /\ frame[t].pc = "push" /\ frame[t].ptr \in Addr /\ frame[t].flushing = {c}
        /\ BinChanges(t, c) /\ bins'[t][c] = Append(bins[t][c], frame[t].ptr)
        /\ IF Len(bins[t][c]) + 1 > HighWatermark
           THEN Advances(t, "flush", NoAddr, {c}) ELSE Ends(t, "idle")
  BY PushLocalEffect, Zenon DEF HInv
<1>3. frame[t].op = "deallocate" /\ frame[t].index = 0
  BY <1>1, <1>2, Zenon DEF CallOK, Refilling, At
<1>4. Len(bins'[t][c]) = Len(bins[t][c]) + 1
  BY <1>1, <1>2, AppendFacts
<1>5. /\ \A d \in Classes : Len(bins[t][d]) <= HighWatermark
      /\ \A d \in Classes : d # c => bins'[t][d] = bins[t][d]
  BY <1>1, <1>2 DEF ReserveOK, Flushing, BinChanges
<1>6. CASE Len(bins[t][c]) + 1 > HighWatermark
  <2>1. /\ frame'[t].pc = "flush" /\ frame'[t].op = "deallocate"
        /\ frame'[t].flushing = {c} /\ frame'[t].index = 0
    BY <1>2, <1>3, <1>6, Zenon DEF Advances
  <2>2. CallOK(t)'
    BY <2>1, Zenon DEF CallOK, Refilling, Flushing, At
  <2>3. \A d \in Classes : ReserveOK(t, d)'
    BY <1>1, <1>4, <1>5, <2>1 DEF ReserveOK, Flushing, Refilling
  <2> QED BY <2>2, <2>3, Zenon DEF LocalOK
<1>7. CASE ~ (Len(bins[t][c]) + 1 > HighWatermark)
  <2>1. frame'[t].pc = "idle" /\ frame'[t].op = "none" /\ frame'[t].index = 0
    BY <1>2, <1>7, Zenon DEF Ends
  <2>2. CallOK(t)'
    BY <2>1, Zenon DEF CallOK, Refilling, Flushing, At
  <2>3. \A d \in Classes : ReserveOK(t, d)'
    BY <1>1, <1>4, <1>5, <1>7, <2>1 DEF ReserveOK, Flushing, Refilling
  <2> QED BY <2>2, <2>3, Zenon DEF LocalOK
<1> QED BY <1>6, <1>7, Zenon

LEMMA FlushEraseLocal ==
  ASSUME HInv, NEW t \in Threads, FlushErase(t)
  PROVE  LocalOK(t)'
<1>1. /\ CallOK(t) /\ \A c \in Classes : ReserveOK(t, c)
      /\ HighWatermark \in Nat
      /\ \A c \in Classes : bins[t][c] \in Seq(Addr) /\ Len(bins[t][c]) \in Nat
  BY LocalFacts, Zenon
<1>2. PICK c \in Classes :
        /\ frame[t].pc = "flush_erase" /\ bins[t][c] # <<>>
        /\ BinChanges(t, c) /\ bins'[t][c] = PopBack(bins[t][c])
        /\ Advances(t, "flush", NoAddr, frame[t].flushing)
  BY FlushEraseEffect, Zenon DEF HInv
<1>3. /\ frame'[t].pc = "flush" /\ frame'[t].op = frame[t].op
      /\ frame'[t].flushing = frame[t].flushing /\ frame'[t].index = frame[t].index
  BY <1>2, Zenon DEF Advances
<1>4. Len(bins'[t][c]) = Len(bins[t][c]) - 1 /\ Len(bins[t][c]) > 0
  BY <1>1, <1>2, PopBackFacts, Zenon
<1>5. CallOK(t)'
  BY <1>1, <1>2, <1>3, Zenon DEF CallOK, Refilling, Flushing, At
<1>6. ASSUME NEW d \in Classes PROVE ReserveOK(t, d)'
  <2>1. CASE d = c
    BY <1>1, <1>2, <1>3, <1>4, <2>1 DEF ReserveOK, Flushing, Refilling
  <2>2. CASE d # c
    BY <1>1, <1>2, <1>3, <2>2, Zenon DEF ReserveOK, Flushing, Refilling, BinChanges
  <2> QED BY <2>1, <2>2, Zenon
<1> QED BY <1>5, <1>6, Zenon DEF LocalOK

LEMMA FlushBinDoneLocal ==
  ASSUME HInv, NEW t \in Threads, FlushBinDone(t)
  PROVE  LocalOK(t)' /\ Moves(t)
<1>1. /\ CallOK(t) /\ \A c \in Classes : ReserveOK(t, c)
      /\ HighWatermark \in Nat /\ LowWatermark \in Nat /\ LowWatermark <= HighWatermark
      /\ \A c \in Classes : Len(bins[t][c]) \in Nat
  BY LocalFacts, Zenon
<1>2. PICK c \in Classes :
        /\ frame[t].pc = "flush" /\ c \in frame[t].flushing
        /\ Len(bins[t][c]) <= FlushTarget(t) /\ bins' = bins
        /\ \/ \E pc \in {"idle", "exited"} :
                 frame[t].flushing = {c} /\ Moves(t) /\ frame'[t].pc = pc
                 /\ frame'[t].op = "none" /\ frame'[t].index = 0
           \/ /\ frame[t].flushing # {c}
              /\ Advances(t, "flush", frame[t].ptr, frame[t].flushing \ {c})
  BY FlushBinDoneEffect, Zenon DEF HInv
<1>3. Len(bins[t][c]) <= HighWatermark
  BY <1>1, <1>2 DEF FlushTarget
<1>4. CASE \E pc \in {"idle", "exited"} :
             frame[t].flushing = {c} /\ Moves(t) /\ frame'[t].pc = pc
             /\ frame'[t].op = "none" /\ frame'[t].index = 0
  <2>1. CallOK(t)' /\ Moves(t)
    BY <1>4, Zenon DEF CallOK, Refilling, Flushing, At
  <2>2. \A d \in Classes : ReserveOK(t, d)'
    BY <1>1, <1>2, <1>3, <1>4 DEF ReserveOK, Flushing, Refilling
  <2> QED BY <2>1, <2>2, Zenon DEF LocalOK
<1>5. CASE /\ frame[t].flushing # {c}
           /\ Advances(t, "flush", frame[t].ptr, frame[t].flushing \ {c})
  <2>1. /\ Moves(t) /\ frame'[t].pc = "flush" /\ frame'[t].op = frame[t].op
        /\ frame'[t].flushing = frame[t].flushing \ {c}
        /\ frame'[t].index = frame[t].index
    BY <1>5, Zenon DEF Advances
  <2>2. frame[t].op # "deallocate"
    BY <1>1, <1>2, <1>5, Zenon DEF CallOK, Flushing
  <2>3. CallOK(t)'
    BY <1>1, <1>2, <2>1, <2>2, Zenon DEF CallOK, Refilling, Flushing, At
  <2>4. \A d \in Classes : ReserveOK(t, d)'
    BY <1>1, <1>2, <2>1, <2>2, Zenon DEF ReserveOK, Flushing, Refilling
  <2> QED BY <2>1, <2>3, <2>4, Zenon DEF LocalOK
<1> QED BY <1>2, <1>4, <1>5, Zenon

------------------------------------------------------------------------------
(* PlaceOK: no inactive block is lost.                                     *)

LEMMA KeptByOthers ==
  ASSUME NEW t \in Threads, Moves(t), NEW u \in Threads, NEW c \in Classes, NEW p \in Addr,
         u # t, bins'[u][c] = bins[u][c], KeptBy(u, c, p)
  PROVE  KeptBy(u, c, p)'
<1>1. frame'[u] = frame[u]
  BY Zenon DEF Moves
<1>2. HoldsCached(u, c) => HoldsCached(u, c)'
  BY <1>1, Zenon DEF HoldsCached, At
<1> QED BY <1>1, <1>2, Zenon DEF KeptBy

LEMMA PlaceKept ==
  ASSUME NEW p \in Addr, PlaceOK(p), records'[p] = records[p],
         \A u \in Threads, c \in Classes :
            records[p] = CachedRecord(u, c) /\ KeptBy(u, c, p) => KeptBy(u, c, p)'
  PROVE  PlaceOK(p)'
<1>1. IsCached(p)' => IsCached(p)
  BY Zenon DEF IsCached
<1>2. ASSUME NEW u \in Threads, NEW c \in Classes, records[p] = CachedRecord(u, c)
      PROVE  (records[p] = CachedRecord(u, c))'
  BY <1>2, Zenon DEF CachedRecord
<1> QED BY <1>1, <1>2, Zenon DEF PlaceOK

\* The bins stay as they are, and no inactive block but q is in t's hand.
LEMMA HandsOff ==
  ASSUME HInv, NEW t \in Threads, Moves(t), bins' = bins, NEW q,
         \A c \in Classes : HoldsCached(t, c) => frame[t].ptr = q,
         NEW p \in Addr, p # q, records'[p] = records[p]
  PROVE  PlaceOK(p)'
<1>1. PlaceOK(p)
  BY Zenon DEF HInv, HolderInvariant
<1>2. ASSUME NEW u \in Threads, NEW c \in Classes, KeptBy(u, c, p) PROVE KeptBy(u, c, p)'
  <2>1. CASE u # t
    BY <1>2, <2>1, KeptByOthers, Zenon
  <2>2. CASE u = t
    BY <1>2, <2>2, Zenon DEF KeptBy
  <2> QED BY <2>1, <2>2, Zenon
<1> QED BY <1>1, <1>2, PlaceKept, Zenon

LEMMA CallAllocatePlace ==
  ASSUME HInv, NEW t \in Threads, NEW r \in Requests, CallAllocate(t, r), NEW p \in Addr
  PROVE  PlaceOK(p)'
<1>1. CASE \E c \in Classes :
             /\ c = SizeClass[r] /\ bins[t][c] # <<>>
             /\ Enters(t, "hit", "allocate", r, Back(bins[t][c]), {})
             /\ BinChanges(t, c) /\ bins'[t][c] = PopBack(bins[t][c])
  <2>1. PICK c \in Classes :
             /\ c = SizeClass[r] /\ bins[t][c] # <<>>
             /\ Enters(t, "hit", "allocate", r, Back(bins[t][c]), {})
             /\ BinChanges(t, c) /\ bins'[t][c] = PopBack(bins[t][c])
    BY <1>1, Zenon
  <2>2. /\ Moves(t) /\ frame[t].pc = "idle" /\ frame'[t].pc = "hit" /\ frame'[t].arg = r
        /\ frame'[t].ptr = Back(bins[t][c])
    BY <2>1, Zenon DEF Enters
  <2>3. HoldsCached(t, c)' /\ \A d \in Classes : ~ HoldsCached(t, d)
    BY <2>1, <2>2, Zenon DEF HoldsCached, At
  <2>4. bins[t][c] \in Seq(Addr)
    BY Zenon DEF HInv, IInv, TypeOK
  <2>5. /\ Len(bins[t][c]) > 0 /\ Len(bins'[t][c]) = Len(bins[t][c]) - 1
        /\ \A i \in 1 .. Len(bins'[t][c]) : bins'[t][c][i] = bins[t][c][i]
    <3> DEFINE b == bins[t][c]
    <3>1. b \in Seq(Addr) /\ b # <<>> /\ bins'[t][c] = PopBack(b)
      BY <2>1, <2>4, Zenon
    <3> HIDE DEF b
    <3>2. /\ Len(b) > 0 /\ Len(PopBack(b)) = Len(b) - 1
          /\ \A i \in 1 .. Len(PopBack(b)) : PopBack(b)[i] = b[i]
      BY <3>1, PopBackFacts, Zenon
    <3> QED BY <3>1, <3>2, Zenon DEF b
  <2>6. ASSUME NEW u \in Threads, NEW d \in Classes, KeptBy(u, d, p) PROVE KeptBy(u, d, p)'
    <3>1. CASE u # t
      BY <2>1, <2>2, <2>6, <3>1, KeptByOthers, Zenon DEF BinChanges
    <3>2. CASE u = t /\ d # c
      <4>1. bins'[t][d] = bins[t][d]
        BY <2>1, <3>2, Zenon DEF BinChanges
      <4> QED BY <2>3, <2>6, <3>2, <4>1, Zenon DEF KeptBy
    <3>3. CASE u = t /\ d = c
      <4>1. PICK i \in 1 .. Len(bins[t][c]) : bins[t][c][i] = p
        BY <2>3, <2>6, <3>3, Zenon DEF KeptBy
      <4>2. CASE i = Len(bins[t][c])
        BY <2>2, <2>3, <3>3, <4>1, <4>2, Zenon DEF KeptBy, Back
      <4>3. CASE i # Len(bins[t][c])
        <5>1. i \in 1 .. Len(bins'[t][c])
          BY <2>4, <2>5, <4>3
        <5> QED BY <2>5, <3>3, <4>1, <5>1, Zenon DEF KeptBy
      <4> QED BY <4>2, <4>3, Zenon
    <3> QED BY <3>1, <3>2, <3>3, Zenon
  <2>7. PlaceOK(p) /\ records' = records
    BY CallAllocateEffect, Zenon DEF HInv, HolderInvariant
  <2> QED BY <2>6, <2>7, PlaceKept, Zenon
<1>2. CASE Enters(t, "refill", "allocate", r, NoAddr, {}) /\ bins' = bins
  <2>1. Moves(t) /\ \A d \in Classes : ~ HoldsCached(t, d)
    BY <1>2, Zenon DEF Enters, HoldsCached, At
  <2>2. records' = records
    BY CallAllocateEffect, Zenon DEF HInv
  <2> QED BY <1>2, <2>1, <2>2, DomainAssumption, HandsOff, Zenon
<1> QED BY <1>1, <1>2, CallAllocateEffect, Zenon DEF HInv

\* The steps of a call that change no record and no bin.
LEMMA QuietPlace ==
  ASSUME HInv, NEW t \in Threads, Moves(t), NEW p \in Addr,
         UNCHANGED <<records, bins>>,
         \A c \in Classes : ~ HoldsCached(t, c)
  PROVE  PlaceOK(p)'
  BY DomainAssumption, HandsOff, Zenon

LEMMA CacheHitPlace ==
  ASSUME HInv, NEW t \in Threads, CacheHit(t), NEW p \in Addr
  PROVE  PlaceOK(p)'
<1>1. PICK q \in Addr : q = frame[t].ptr
  BY CacheHitEffect, Zenon DEF HInv
<1>2. /\ bins' = bins /\ Moves(t)
      /\ records' = [records EXCEPT ![q] =
              [kind |-> SizeClass[frame[t].arg], owner |-> t, state |-> "active"]]
      /\ records \in [Addr -> Record \cup {NoRecord}]
  BY <1>1, CacheHitEffect, Zenon DEF HInv, Ends, IInv, TypeOK
<1>3. CASE p = q
  BY <1>2, <1>3, Zenon DEF PlaceOK, IsCached
<1>4. CASE p # q
  BY <1>1, <1>2, <1>4, HandsOff, Zenon
<1> QED BY <1>3, <1>4, Zenon

LEMMA RecordAllocationPlace ==
  ASSUME HInv, NEW t \in Threads, RecordAllocation(t), NEW p \in Addr
  PROVE  PlaceOK(p)'
<1>1. PICK q \in Addr : q = frame[t].ptr
  BY RecordAllocationEffect, Zenon DEF HInv
<1>2. /\ frame[t].pc = "record" /\ bins' = bins /\ Moves(t) /\ frame[t].arg \in Requests
      /\ frame'[t].pc = "keep" /\ frame'[t].ptr = q /\ frame'[t].index = frame[t].index
      /\ frame'[t].arg = frame[t].arg
      /\ records \in [Addr -> Record \cup {NoRecord}] /\ frame[t].index \in Nat
  BY <1>1, RecordAllocationEffect, LocalFacts, Zenon DEF HInv, Advances, IInv, TypeOK
<1>3. records' = [records EXCEPT ![q] =
          [kind |-> Kind(frame[t].arg), owner |-> t,
           state |-> IF frame[t].index = 0 THEN "active" ELSE "cached"]]
  BY <1>1, RecordAllocationEffect, Zenon DEF HInv
<1>4. CASE p # q
  <2>1. \A c \in Classes : ~ HoldsCached(t, c)
    BY <1>2, Zenon DEF HoldsCached, At
  <2> QED BY <1>2, <1>3, <1>4, <2>1, HandsOff, Zenon
<1>5. CASE p = q /\ frame[t].index = 0
  BY <1>2, <1>3, <1>5, Zenon DEF PlaceOK, IsCached
<1>6. CASE p = q /\ frame[t].index > 0
  <2>1. PICK c \in Classes : c = SizeClass[frame[t].arg]
    BY <1>2, <1>6, Zenon DEF HInv, IInv, CacheInvariant, FrameOK
  <2>2. records'[p] = [kind |-> c, owner |-> t, state |-> "cached"]
    BY <1>2, <1>3, <1>6, <2>1 DEF Kind
  <2>3. KeptBy(t, c, p)'
    BY <1>2, <1>6, <2>1, Zenon DEF KeptBy, HoldsCached, At
  <2> QED BY <2>2, <2>3, Zenon DEF PlaceOK, CachedRecord
<1> QED BY <1>2, <1>4, <1>5, <1>6

\* The block in t's hand goes to the back of its bin.
LEMMA AppendPlace ==
  ASSUME HInv, NEW t \in Threads, NEW c \in Classes, Moves(t), frame[t].ptr \in Addr,
         BinChanges(t, c), bins'[t][c] = Append(bins[t][c], frame[t].ptr),
         \A d \in Classes : HoldsCached(t, d) => d = c,
         UNCHANGED records, NEW p \in Addr
  PROVE  PlaceOK(p)'
<1>1. ASSUME NEW u \in Threads, NEW d \in Classes, KeptBy(u, d, p) PROVE KeptBy(u, d, p)'
  <2>1. CASE u # t
    BY <1>1, <2>1, KeptByOthers, Zenon DEF BinChanges
  <2>2. CASE u = t /\ d # c
    <3>1. bins'[t][d] = bins[t][d]
      BY <2>2, Zenon DEF BinChanges
    <3> QED BY <1>1, <2>2, <3>1, Zenon DEF KeptBy
  <2>3. CASE u = t /\ d = c
    <3>1. bins[t][c] \in Seq(Addr) /\ Len(bins[t][c]) \in Nat
      BY LocalFacts, Zenon
    <3>2. /\ Len(bins'[t][c]) = Len(bins[t][c]) + 1
          /\ \A i \in 1 .. Len(bins[t][c]) : bins'[t][c][i] = bins[t][c][i]
          /\ bins'[t][c][Len(bins[t][c]) + 1] = frame[t].ptr
      BY <3>1, AppendFacts
    <3>3. CASE \E i \in 1 .. Len(bins[t][c]) : bins[t][c][i] = p
      <4>1. PICK i \in 1 .. Len(bins[t][c]) : bins[t][c][i] = p
        BY <3>3, Zenon
      <4>2. i \in 1 .. Len(bins'[t][c]) /\ bins'[t][c][i] = p
        BY <3>1, <3>2, <4>1
      <4> QED BY <2>3, <4>2, Zenon DEF KeptBy
    <3>4. CASE frame[t].ptr = p
      <4>1. Len(bins[t][c]) + 1 \in 1 .. Len(bins'[t][c])
        BY <3>1, <3>2
      <4> QED BY <2>3, <3>2, <3>4, <4>1, Zenon DEF KeptBy
    <3> QED BY <1>1, <2>3, <3>3, <3>4, Zenon DEF KeptBy
  <2> QED BY <2>1, <2>2, <2>3, Zenon
<1>2. PlaceOK(p)
  BY Zenon DEF HInv, HolderInvariant
<1> QED BY <1>1, <1>2, PlaceKept, Zenon

LEMMA KeepBlockPlace ==
  ASSUME HInv, NEW t \in Threads, KeepBlock(t), NEW p \in Addr
  PROVE  PlaceOK(p)'
<1>1. /\ frame[t].pc = "keep" /\ Moves(t) /\ UNCHANGED records /\ frame[t].index \in Nat
      /\ frame[t].ptr \in Addr
  BY KeepBlockEffect, Zenon DEF HInv
<1>2. CASE frame[t].index = 0
  <2>1. bins' = bins
    BY <1>2, KeepBlockEffect DEF HInv
  <2>2. \A c \in Classes : ~ HoldsCached(t, c)
    BY <1>1, <1>2 DEF HoldsCached, At
  <2> QED BY <1>1, <2>1, <2>2, QuietPlace, Zenon
<1>3. CASE frame[t].index > 0
  <2>1. PICK c \in Classes : /\ c = SizeClass[frame[t].arg] /\ BinChanges(t, c)
                             /\ bins'[t][c] = Append(bins[t][c], frame[t].ptr)
    BY <1>3, KeepBlockEffect DEF HInv
  <2>2. \A d \in Classes : HoldsCached(t, d) => d = c
    BY <1>1, <2>1, Zenon DEF HoldsCached, At
  <2> QED BY <1>1, <2>1, <2>2, AppendPlace, Zenon
<1> QED BY <1>1, <1>2, <1>3

LEMMA DeallocateLocalPlace ==
  ASSUME HInv, NEW t \in Threads, DeallocateLocal(t), NEW p \in Addr
  PROVE  PlaceOK(p)'
<1>1. PICK c \in Classes :
           /\ frame[t].pc = "lookup" /\ frame[t].ptr \in Addr
           /\ records' = [records EXCEPT ![frame[t].ptr] = CachedRecord(t, c)]
           /\ Advances(t, "push", frame[t].ptr, {c}) /\ UNCHANGED bins
  BY DeallocateLocalEffect, Zenon DEF HInv
<1>2. /\ Moves(t) /\ frame'[t].pc = "push" /\ frame'[t].ptr = frame[t].ptr
      /\ frame'[t].flushing = {c} /\ records \in [Addr -> Record \cup {NoRecord}]
  BY <1>1, Zenon DEF Advances, HInv, IInv, TypeOK
<1>3. CASE p = frame[t].ptr
  <2>1. records'[p] = [kind |-> c, owner |-> t, state |-> "cached"]
    BY <1>1, <1>2, <1>3, Zenon DEF CachedRecord
  <2>2. KeptBy(t, c, p)'
    BY <1>2, <1>3, Zenon DEF KeptBy, HoldsCached, At
  <2> QED BY <2>1, <2>2, Zenon DEF PlaceOK, CachedRecord
<1>4. CASE p # frame[t].ptr
  <2>1. \A d \in Classes : ~ HoldsCached(t, d)
    BY <1>1, Zenon DEF HoldsCached, At
  <2> QED BY <1>1, <1>2, <1>4, <2>1, HandsOff, Zenon
<1> QED BY <1>3, <1>4, Zenon

LEMMA PushLocalPlace ==
  ASSUME HInv, NEW t \in Threads, PushLocal(t), NEW p \in Addr
  PROVE  PlaceOK(p)'
<1>1. PICK c \in Classes :
           /\ frame[t].pc = "push" /\ frame[t].ptr \in Addr /\ frame[t].flushing = {c}
           /\ BinChanges(t, c) /\ bins'[t][c] = Append(bins[t][c], frame[t].ptr)
           /\ IF Len(bins[t][c]) + 1 > HighWatermark
              THEN Advances(t, "flush", NoAddr, {c}) ELSE Ends(t, "idle")
           /\ UNCHANGED records
  BY PushLocalEffect, Zenon DEF HInv
<1>2. Moves(t)
  BY <1>1, Zenon DEF Advances, Ends
<1>3. \A d \in Classes : HoldsCached(t, d) => d = c
  BY <1>1, Zenon DEF HoldsCached, At
<1> QED BY <1>1, <1>2, <1>3, AppendPlace, Zenon

LEMMA EraseRecordPlace ==
  ASSUME HInv, NEW t \in Threads, EraseRecord(t), NEW p \in Addr
  PROVE  PlaceOK(p)'
<1>1. /\ frame[t].pc = "free_erase" /\ frame[t].ptr \in Addr
      /\ records' = [records EXCEPT ![frame[t].ptr] = NoRecord]
      /\ Moves(t) /\ UNCHANGED bins /\ records \in [Addr -> Record \cup {NoRecord}]
  BY EraseRecordEffect, Zenon DEF HInv, Ends, IInv, TypeOK
<1>2. CASE p = frame[t].ptr
  BY <1>1, <1>2, Zenon DEF PlaceOK, IsCached
<1>3. CASE p # frame[t].ptr
  <2>1. \A d \in Classes : ~ HoldsCached(t, d)
    BY <1>1, Zenon DEF HoldsCached, At
  <2> QED BY <1>1, <1>3, <2>1, HandsOff, Zenon
<1> QED BY <1>2, <1>3, Zenon

LEMMA FlushErasePlace ==
  ASSUME HInv, NEW t \in Threads, FlushErase(t), NEW p \in Addr
  PROVE  PlaceOK(p)'
<1>1. PICK c \in Classes :
           /\ frame[t].pc = "flush_erase" /\ frame[t].ptr \in Addr
           /\ bins[t][c] # <<>> /\ Back(bins[t][c]) = frame[t].ptr
           /\ records' = [records EXCEPT ![frame[t].ptr] = NoRecord]
           /\ BinChanges(t, c) /\ bins'[t][c] = PopBack(bins[t][c])
           /\ Advances(t, "flush", NoAddr, frame[t].flushing)
  BY FlushEraseEffect, Zenon DEF HInv
<1>2. Moves(t) /\ records \in [Addr -> Record \cup {NoRecord}]
  BY <1>1, Zenon DEF Advances, HInv, IInv, TypeOK
<1>3. CASE p = frame[t].ptr
  BY <1>1, <1>2, <1>3, Zenon DEF PlaceOK, IsCached
<1>4. CASE p # frame[t].ptr
  <2>1. bins[t][c] \in Seq(Addr) /\ Len(bins[t][c]) \in Nat
    BY LocalFacts, Zenon
  <2>2. /\ Len(bins'[t][c]) = Len(bins[t][c]) - 1
        /\ \A i \in 1 .. Len(bins'[t][c]) : bins'[t][c][i] = bins[t][c][i]
    BY <1>1, <2>1, PopBackFacts
  <2>3. \A d \in Classes : ~ HoldsCached(t, d)
    BY <1>1, Zenon DEF HoldsCached, At
  <2>4. ASSUME NEW u \in Threads, NEW d \in Classes, KeptBy(u, d, p) PROVE KeptBy(u, d, p)'
    <3>1. CASE u # t
      BY <1>1, <1>2, <2>4, <3>1, KeptByOthers, Zenon DEF BinChanges
    <3>2. CASE u = t /\ d # c
      <4>1. bins'[t][d] = bins[t][d]
        BY <1>1, <3>2, Zenon DEF BinChanges
      <4> QED BY <2>3, <2>4, <3>2, <4>1, Zenon DEF KeptBy
    <3>3. CASE u = t /\ d = c
      <4>1. PICK i \in 1 .. Len(bins[t][c]) : bins[t][c][i] = p
        BY <2>3, <2>4, <3>3, Zenon DEF KeptBy
      <4>2. i # Len(bins[t][c])
        BY <1>1, <1>4, <4>1, Zenon DEF Back
      <4>3. i \in 1 .. Len(bins'[t][c])
        BY <2>1, <2>2, <4>2
      <4> QED BY <2>2, <3>3, <4>1, <4>3, Zenon DEF KeptBy
    <3> QED BY <3>1, <3>2, <3>3, Zenon
  <2>5. PlaceOK(p) /\ records'[p] = records[p]
    BY <1>1, <1>2, <1>4, Zenon DEF HInv, HolderInvariant
  <2> QED BY <2>4, <2>5, PlaceKept, Zenon
<1> QED BY <1>3, <1>4, Zenon

\* The other steps change no record and no bin, and begin without an inactive
\* block in hand.
LEMMA OtherStepsPlace ==
  ASSUME HInv, NEW t \in Threads,
         \/ \E q \in Addr, s \in Requests \cup {Unsized} : CallDeallocate(t, q, s)
         \/ CallRelease(t) \/ ExitThread(t)
         \/ NoteLiveAllocation(t) \/ CentralAllocate(t) \/ CentralAllocateFails(t)
         \/ RecordAllocationFails(t) \/ UndoAllocation(t)
         \/ DeallocateRejected(t) \/ DeallocateToCentral(t) \/ CentralDeallocate(t)
         \/ FlushLock(t) \/ FlushCentral(t) \/ FlushBinDone(t),
         NEW p \in Addr
  PROVE  PlaceOK(p)'
<1>1. Moves(t)
  <2>1. CASE \E q \in Addr, s \in Requests \cup {Unsized} : CallDeallocate(t, q, s)
    BY <2>1, CallDeallocateEffect, Zenon DEF HInv, Enters
  <2>2. CASE CallRelease(t) \/ ExitThread(t)
    BY <2>2, FlushCallEffect, Zenon DEF HInv, Enters
  <2>3. CASE FlushBinDone(t)
    BY <2>3, FlushBinDoneLocal, Zenon
  <2> QED BY <2>1, <2>2, <2>3, BinsUnchangedLocal, Zenon
<1>2. UNCHANGED <<records, bins>>
  BY Zenon DEF CallDeallocate, CallRelease, ExitThread, NoteLiveAllocation, CentralAllocate,
         CentralAllocateFails, RecordAllocationFails, UndoAllocation, DeallocateRejected,
         DeallocateToCentral, CentralDeallocate, FlushLock, FlushCentral, FlushBinDone
<1>3. frame[t].pc \in {"idle", "note", "refill", "record", "undo", "lookup", "free_central",
                       "flush", "flush_central"}
  BY Zenon DEF CallDeallocate, CallRelease, ExitThread, NoteLiveAllocation, CentralAllocate,
         CentralAllocateFails, RecordAllocationFails, UndoAllocation, DeallocateRejected,
         DeallocateToCentral, CentralDeallocate, FlushLock, FlushCentral, FlushBinDone, At
<1>4. \A c \in Classes : ~ HoldsCached(t, c)
  BY <1>3, Zenon DEF HoldsCached, At
<1> QED BY <1>1, <1>2, <1>4, QuietPlace, Zenon

LEMMA NextPlace ==
  ASSUME HInv, Next, NEW p \in Addr
  PROVE  PlaceOK(p)'
<1>1. PICK t \in Threads : Call(t) \/ Step(t)
  BY Zenon DEF Next
<1>2. CASE \E r \in Requests : CallAllocate(t, r)
  BY <1>2, CallAllocatePlace, Zenon
<1>3. CASE Call(t) /\ ~ \E r \in Requests : CallAllocate(t, r)
  BY <1>3, OtherStepsPlace, Zenon DEF Call
<1>4. CASE Step(t)
  BY <1>4, CacheHitPlace, RecordAllocationPlace, KeepBlockPlace, DeallocateLocalPlace,
     PushLocalPlace, EraseRecordPlace, FlushErasePlace, OtherStepsPlace, Zenon DEF Step, Proceed
<1> QED BY <1>1, <1>2, <1>3, <1>4, Zenon

\* The other threads' frames and bins are not touched.
LEMMA NextLocal ==
  ASSUME HInv, Next, NEW u \in Threads
  PROVE  LocalOK(u)'
<1>1. PICK t \in Threads : Call(t) \/ Step(t)
  BY Zenon DEF Next
<1>2. LocalOK(t)'
  <2>1. CASE \E r \in Requests : CallAllocate(t, r)
    BY <2>1, CallAllocateLocal, Zenon
  <2>2. CASE Call(t) /\ ~ \E r \in Requests : CallAllocate(t, r)
    BY <2>2, OtherCallsLocal, Zenon DEF Call
  <2>3. CASE Step(t)
    BY <2>3, BinsUnchangedLocal, KeepBlockLocal, PushLocalLocal, FlushEraseLocal,
       FlushBinDoneLocal, Zenon DEF Step, Proceed
  <2> QED BY <1>1, <2>1, <2>2, <2>3, Zenon
<1>3. ASSUME u # t PROVE frame'[u] = frame[u] /\ \A c \in Classes : bins'[u][c] = bins[u][c]
  <2>0. frame \in [Threads -> Frame] /\ bins \in [Threads -> [Classes -> Seq(Addr)]]
    BY Zenon DEF HInv, IInv, TypeOK
  <2>1. CASE Call(t)
    BY <1>3, <2>0, <2>1, Zenon DEF Call, CallAllocate, CallDeallocate, CallRelease, ExitThread
  <2>2. CASE Step(t) /\ ~ Proceed(t)
    BY <1>3, <2>0, <2>2, Zenon DEF Step, CacheHit, NoteLiveAllocation, Return
  <2>3. CASE CentralAllocate(t) \/ CentralAllocateFails(t) \/ RecordAllocation(t)
             \/ RecordAllocationFails(t) \/ UndoAllocation(t) \/ KeepBlock(t)
    BY <1>3, <2>0, <2>3, Zenon DEF CentralAllocate, CentralAllocateFails, RecordAllocation,
       RecordAllocationFails, UndoAllocation, KeepBlock, Goto
  <2>4. CASE DeallocateRejected(t) \/ DeallocateToCentral(t) \/ DeallocateLocal(t)
             \/ CentralDeallocate(t) \/ EraseRecord(t) \/ PushLocal(t)
    BY <1>3, <2>0, <2>4, Zenon DEF DeallocateRejected, DeallocateToCentral, DeallocateLocal,
       CentralDeallocate, EraseRecord, PushLocal, Goto, Return
  <2>5. CASE FlushLock(t) \/ FlushCentral(t) \/ FlushErase(t) \/ FlushBinDone(t)
    BY <1>3, <2>0, <2>5, Zenon DEF FlushLock, FlushCentral, FlushErase, FlushBinDone, Goto
  <2> QED BY <1>1, <2>1, <2>2, <2>3, <2>4, <2>5, Zenon DEF Step, Proceed
<1>4. ASSUME u # t PROVE LocalOK(u)'
  <2>1. LocalOK(u)
    BY LocalFacts, Zenon DEF LocalOK
  <2>2. CallOK(u)'
    BY <1>3, <1>4, <2>1, Zenon DEF LocalOK, CallOK, Refilling, Flushing, At
  <2>3. \A c \in Classes : ReserveOK(u, c)'
    BY <1>3, <1>4, <2>1, Zenon DEF LocalOK, ReserveOK, Refilling, Flushing, At
  <2> QED BY <2>2, <2>3, Zenon DEF LocalOK
<1> QED BY <1>2, <1>4, Zenon

LEMMA InitHolder == Init => HolderInvariant
<1> SUFFICES ASSUME Init PROVE HolderInvariant
  BY Zenon
<1>1. \A t \in Threads : /\ frame[t].pc = "idle" /\ frame[t].op = "none"
                         /\ frame[t].index = 0 /\ frame[t].flushing = {}
  BY Zenon DEF Init, IdleFrame
<1>2. \A t \in Threads : CallOK(t)
  BY <1>1, Zenon DEF CallOK, Refilling, Flushing, At
<1>3. ASSUME NEW t \in Threads, NEW c \in Classes PROVE ReserveOK(t, c)
  <2>1. bins[t][c] = <<>> /\ Len(bins[t][c]) = 0 /\ HighWatermark \in Nat
    BY OptionsAssumption, Zenon DEF Init, validate_cache_options
  <2> QED BY <1>1, <2>1 DEF ReserveOK, Refilling, At
<1>4. \A p \in Addr : PlaceOK(p)
  BY Zenon DEF Init, PlaceOK, IsCached
<1> QED BY <1>2, <1>3, <1>4, Zenon DEF HolderInvariant

LEMMA StutterHolder ==
  ASSUME HInv, UNCHANGED vars
  PROVE  HolderInvariant'
<1>1. \A t \in Threads : CallOK(t)'
  BY Zenon DEF HInv, HolderInvariant, CallOK, Refilling, Flushing, At, vars
<1>2. \A t \in Threads, c \in Classes : ReserveOK(t, c)'
  BY Zenon DEF HInv, HolderInvariant, ReserveOK, Refilling, Flushing, At, vars
<1>3. ASSUME NEW p \in Addr PROVE PlaceOK(p)'
  <2>1. \A u \in Threads, c \in Classes : KeptBy(u, c, p) => KeptBy(u, c, p)'
    BY Zenon DEF KeptBy, HoldsCached, At, vars
  <2>2. PlaceOK(p) /\ records'[p] = records[p]
    BY Zenon DEF HInv, HolderInvariant, vars
  <2> QED BY <2>1, <2>2, PlaceKept, Zenon
<1> QED BY <1>1, <1>2, <1>3, Zenon DEF HolderInvariant

LEMMA NextHolder == HInv /\ IInv' /\ [Next]_vars => HInv'
<1> SUFFICES ASSUME HInv, IInv', [Next]_vars PROVE HInv'
  BY Zenon
<1>1. CASE Next
  BY <1>1, NextLocal, NextPlace, Zenon DEF HInv, HolderInvariant, LocalOK
<1>2. CASE UNCHANGED vars
  BY <1>2, StutterHolder, Zenon DEF HInv
<1> QED BY <1>1, <1>2, Zenon

\* The bound on the bins, from HolderInvariant.
LEMMA WithinReserve == HInv => BinsWithinReserve
<1> SUFFICES ASSUME HInv, NEW t \in Threads, NEW c \in Classes
             PROVE  /\ Len(bins[t][c]) <= HighWatermark + 1
                    /\ At(t, "idle") => Len(bins[t][c]) <= HighWatermark
  BY Zenon DEF BinsWithinReserve
<1>1. ReserveOK(t, c) /\ Len(bins[t][c]) \in Nat /\ HighWatermark \in Nat
  BY LocalFacts, Zenon
<1> QED BY <1>1 DEF ReserveOK, Flushing, At

------------------------------------------------------------------------------
(* The callers and their pointers.                                         *)

CInv == HInv /\ ClientInvariant

\* A refill that has been round its loop has a block to return.
ResultOK(t) == frame[t].index > 0 => frame[t].result \in Addr

\* A thread outside the calls that claim a pointer claims none.
LEMMA NoClaim ==
  ASSUME HInv, NEW t \in Threads,
         frame[t].pc \in {"idle", "hit", "push", "flush", "flush_central", "flush_erase", "exited"}
  PROVE  Claim(t) = NoAddr
<1>1. frame[t].index = 0
  BY Zenon DEF HInv, HolderInvariant, CallOK, Refilling, At
<1> QED BY <1>1 DEF Claim, At

\* The claim of t as its next frame has it.
LEMMA ClaimNext ==
  ASSUME NEW t \in Threads
  PROVE  /\ frame'[t].pc \in {"lookup", "free_central", "free_erase"} => Claim(t)' = frame'[t].ptr
         /\ frame'[t].pc \notin {"lookup", "free_central", "free_erase", "keep"} /\ frame'[t].index = 0
              => Claim(t)' = NoAddr
         /\ frame'[t].pc = "keep" /\ frame'[t].index = 0 => Claim(t)' = frame'[t].ptr
         /\ frame'[t].pc \notin {"lookup", "free_central", "free_erase"} /\ frame'[t].index > 0
              /\ frame'[t].index \in Nat => Claim(t)' = frame'[t].result
  BY DEF Claim, At

LEMMA ClaimNow ==
  ASSUME NEW t \in Threads
  PROVE  /\ frame[t].pc \in {"lookup", "free_central", "free_erase"} => Claim(t) = frame[t].ptr
         /\ frame[t].pc = "keep" /\ frame[t].index = 0 => Claim(t) = frame[t].ptr
         /\ frame[t].pc \notin {"lookup", "free_central", "free_erase"} /\ frame[t].index > 0
              /\ frame[t].index \in Nat => Claim(t) = frame[t].result
  BY DEF Claim, At

\* A step of t that changes no record and takes no pointer: its claim stays or
\* is given up.
LEMMA QuietClaims ==
  ASSUME CInv, NEW t \in Threads, Moves(t), records' = records, held' = held,
         Claim(t)' \in {Claim(t), NoAddr}, ResultOK(t)',
         frame'[t].pc \in {"flush_central", "flush_erase"} => IsCached(frame'[t].ptr)
  PROVE  ClientInvariant'
<1>1. \A u \in Threads : u # t => frame'[u] = frame[u]
  BY Zenon DEF Moves
<1>2. \A u \in Threads : u # t => Claim(u)' = Claim(u)
  BY <1>1, Zenon DEF Claim, At
<1>3. \A p \in held' : p \in Addr /\ IsActive(p)'
  BY Zenon DEF CInv, ClientInvariant, IsActive
<1>4. ASSUME NEW u \in Threads, Claim(u)' # NoAddr
      PROVE  /\ Claim(u)' = Claim(u)
             /\ Claim(u) \in Addr /\ Claim(u) \notin held' /\ IsActive(Claim(u))
  BY <1>2, <1>4, Zenon DEF CInv, ClientInvariant
<1>5. \A u \in Threads : Claim(u)' # NoAddr =>
          Claim(u)' \in Addr /\ Claim(u)' \notin held' /\ IsActive(Claim(u))'
  BY <1>4, Zenon DEF IsActive
<1>6. \A u, v \in Threads : Claim(u)' = Claim(v)' /\ Claim(u)' # NoAddr => u = v
  BY <1>4, Zenon DEF CInv, ClientInvariant
<1>7. \A u \in Threads : frame'[u].pc \in {"flush_central", "flush_erase"} =>
          IsCached(frame[u].ptr)'
  BY <1>1, Zenon DEF CInv, ClientInvariant, IsCached
<1>8. \A u \in Threads : frame'[u].index > 0 => frame'[u].result \in Addr
  BY <1>1, Zenon DEF CInv, ClientInvariant, ResultOK
<1> QED BY <1>3, <1>5, <1>6, <1>7, <1>8, Zenon DEF ClientInvariant

\* A step of t in which one block, p, may change its record, its holder or its
\* claim, and which no other thread claims or flushes.
LEMMA BlockClaims ==
  ASSUME CInv, NEW t \in Threads, Moves(t), NEW p \in Addr,
         \A q \in Addr : q # p => records'[q] = records[q],
         held' \subseteq held \cup {p}, p \in held' => IsActive(p)',
         \/ Claim(t)' = NoAddr
         \/ Claim(t)' = Claim(t) /\ Claim(t) # p
         \/ Claim(t)' = p /\ p \notin held' /\ IsActive(p)',
         \A u \in Threads : u # t => Claim(u) # p,
         \A u \in Threads : u # t /\ frame[u].pc \in {"flush_central", "flush_erase"}
            => frame[u].ptr # p,
         frame'[t].pc \notin {"flush_central", "flush_erase"}, ResultOK(t)'
  PROVE  ClientInvariant'
<1>1. \A u \in Threads : u # t => frame'[u] = frame[u]
  BY Zenon DEF Moves
<1>2. \A u \in Threads : u # t => Claim(u)' = Claim(u)
  BY <1>1, Zenon DEF Claim, At
<1>3. \A q \in held' : q \in Addr /\ IsActive(q)'
  BY Zenon DEF CInv, ClientInvariant, IsActive
<1>4. ASSUME NEW u \in Threads, Claim(u)' # NoAddr, Claim(u)' # p
      PROVE  /\ Claim(u)' = Claim(u) /\ Claim(u) \in Addr /\ Claim(u) \notin held'
             /\ records'[Claim(u)] = records[Claim(u)] /\ IsActive(Claim(u))
  <2>1. Claim(u)' = Claim(u)
    BY <1>2, <1>4, Zenon
  <2>2. Claim(u) \in Addr /\ Claim(u) \notin held /\ IsActive(Claim(u))
    BY <1>4, <2>1, Zenon DEF CInv, ClientInvariant
  <2> QED BY <1>4, <2>1, <2>2, Zenon
<1>5. \A u \in Threads : Claim(u)' = p => u = t
  BY <1>2, Zenon
<1>6. \A u \in Threads : Claim(u)' # NoAddr =>
          Claim(u)' \in Addr /\ Claim(u)' \notin held' /\ IsActive(Claim(u))'
  <2> SUFFICES ASSUME NEW u \in Threads, Claim(u)' # NoAddr
               PROVE  Claim(u)' \in Addr /\ Claim(u)' \notin held' /\ IsActive(Claim(u))'
    BY Zenon
  <2>1. CASE Claim(u)' = p
    <3>1. u = t
      BY <2>1, <1>5, Zenon
    <3>2. Claim(u)' = p /\ p \notin held' /\ records'[p] # NoRecord /\ records'[p].state = "active"
      BY <3>1, <2>1, Zenon DEF IsActive
    <3> QED BY <3>2, Zenon DEF IsActive
  <2>2. CASE Claim(u)' # p
    <3>1. PICK q \in Addr : /\ Claim(u)' = q /\ q \notin held' /\ records'[q] = records[q]
                            /\ records[q] # NoRecord /\ records[q].state = "active"
      BY <1>4, <2>2, Zenon DEF IsActive
    <3> QED BY <3>1, Zenon DEF IsActive
  <2> QED BY <2>1, <2>2, Zenon
<1>7. \A u, v \in Threads : Claim(u)' = Claim(v)' /\ Claim(u)' # NoAddr => u = v
  BY <1>4, <1>5 DEF CInv, ClientInvariant
<1>8. \A u \in Threads : frame'[u].pc \in {"flush_central", "flush_erase"} =>
          IsCached(frame[u].ptr)'
  <2> SUFFICES ASSUME NEW u \in Threads, frame'[u].pc \in {"flush_central", "flush_erase"}
               PROVE  IsCached(frame[u].ptr)'
    BY Zenon
  <2>1. u # t /\ frame'[u] = frame[u]
    BY <1>1, Zenon
  <2>2. frame[u].ptr \in Addr /\ frame[u].ptr # p /\ IsCached(frame[u].ptr)
    BY <2>1, Zenon DEF CInv, ClientInvariant, HInv, IInv, CacheInvariant, FrameOK, HoldsShard
  <2> QED BY <2>1, <2>2, Zenon DEF IsCached
<1>9. \A u \in Threads : frame'[u].index > 0 => frame'[u].result \in Addr
  BY <1>1, Zenon DEF CInv, ClientInvariant, ResultOK
<1> QED BY <1>3, <1>6, <1>7, <1>8, <1>9, Zenon DEF ClientInvariant

\* A block whose record is not active is held and claimed by nobody.
LEMMA InactiveUnclaimed ==
  ASSUME CInv, NEW p \in Addr, ~ IsActive(p)
  PROVE  p \notin held /\ \A u \in Threads : Claim(u) # p
<1>1. p # NoAddr
  BY DomainAssumption, Zenon
<1> QED BY <1>1, Zenon DEF CInv, ClientInvariant

\* A claimed block is held by nobody, claimed by nobody else and not flushed.
LEMMA ClaimedOnce ==
  ASSUME CInv, NEW t \in Threads, Claim(t) # NoAddr
  PROVE  /\ Claim(t) \in Addr /\ Claim(t) \notin held /\ IsActive(Claim(t))
         /\ \A u \in Threads : u # t => Claim(u) # Claim(t)
         /\ \A u \in Threads : frame[u].pc \in {"flush_central", "flush_erase"}
              => frame[u].ptr # Claim(t)
  BY Zenon DEF CInv, ClientInvariant, IsActive, IsCached

\* The steps that begin a call other than deallocate, or end one.
LEMMA StartClaims ==
  ASSUME CInv, NEW t \in Threads, UNCHANGED <<records, held>>,
         \/ \E r \in Requests : CallAllocate(t, r)
         \/ CallRelease(t) \/ ExitThread(t)
         \/ FlushBinDone(t) \/ PushLocal(t)
         \/ DeallocateRejected(t)
  PROVE  ClientInvariant'
<1> USE DEF CInv, HInv
<1>1. /\ Moves(t) /\ frame'[t].index = 0
      /\ frame'[t].pc \in {"hit", "refill", "flush", "idle", "exited"}
  <2>1. CASE \E r \in Requests : CallAllocate(t, r)
    BY <2>1, CallAllocateEffect, Zenon DEF Enters
  <2>2. CASE CallRelease(t) \/ ExitThread(t)
    BY <2>2, FlushCallEffect, Zenon DEF Enters
  <2>3. CASE FlushBinDone(t)
    <3>1. frame[t].pc = "flush"
      BY <2>3, Zenon DEF FlushBinDone, At
    <3>2. frame[t].index = 0
      BY <3>1, Zenon DEF HolderInvariant, CallOK, Refilling, At
    <3> QED BY <2>3, <3>2, FlushBinDoneEffect, Zenon DEF Advances
  <2>4. CASE PushLocal(t)
    <3>1. frame[t].pc = "push"
      BY <2>4, Zenon DEF PushLocal, At
    <3>2. frame[t].index = 0
      BY <3>1, Zenon DEF HolderInvariant, CallOK, Refilling, At
    <3> QED BY <2>4, <3>2, PushLocalEffect, Zenon DEF Advances, Ends
  <2>5. CASE DeallocateRejected(t)
    BY <2>5, DeallocateRejectedEffect, Zenon DEF Ends
  <2> QED BY <2>1, <2>2, <2>3, <2>4, <2>5, Zenon
<1>2. Claim(t)' = NoAddr /\ ResultOK(t)'
  BY <1>1, ClaimNext DEF ResultOK
<1> QED BY <1>1, <1>2, QuietClaims, Zenon

\* The steps of a refill that record nothing: the claim on the first block, if
\* there is one, stays until the call returns it.
LEMMA RefillClaims ==
  ASSUME CInv, NEW t \in Threads, UNCHANGED <<records, held>>,
         \/ CentralAllocate(t) \/ CentralAllocateFails(t)
         \/ UndoAllocation(t) \/ RecordAllocationFails(t) \/ KeepBlock(t)
  PROVE  ClientInvariant'
<1> USE DEF CInv, HInv
<1>1. frame[t].index \in Nat /\ ResultOK(t)
  BY LocalFacts, Zenon DEF ClientInvariant, ResultOK
<1>2. CASE KeepBlock(t)
  <2>1. /\ frame[t].pc = "keep" /\ Moves(t) /\ frame[t].ptr \in Addr /\ frame'[t].pc \in {"refill", "note"}
        /\ frame'[t].index = frame[t].index + 1
        /\ frame'[t].result = IF frame[t].index = 0 THEN frame[t].ptr ELSE frame[t].result
    BY <1>2, KeepBlockEffect, Zenon
  <2>2. Claim(t) = frame'[t].result
    BY <1>1, <2>1, ClaimNow
  <2>3. Claim(t)' = frame'[t].result /\ ResultOK(t)'
    BY <1>1, <2>1, ClaimNext DEF ResultOK
  <2> QED BY <2>1, <2>2, <2>3, QuietClaims, Zenon
<1>3. CASE ~ KeepBlock(t)
  <2>1. /\ frame[t].pc \in {"refill", "record", "undo"} /\ Moves(t)
        /\ \/ frame'[t].pc = "idle" /\ frame'[t].index = 0
           \/ /\ frame'[t].pc \in {"record", "undo", "note"}
              /\ frame'[t].index = frame[t].index /\ frame'[t].result = frame[t].result
    BY <1>3, CentralAllocateEffect, CentralAllocateFailsEffect, UndoAllocationEffect,
       RecordAllocationFailsEffect, Zenon DEF Advances, Ends
  <2>2. Claim(t)' \in {Claim(t), NoAddr} /\ ResultOK(t)'
    BY <1>1, <2>1, ClaimNow, ClaimNext DEF ResultOK
  <2> QED BY <2>1, <2>2, QuietClaims, Zenon
<1> QED BY <1>2, <1>3, Zenon

\* The steps of deallocate and of a flush under the lock that erase nothing.
LEMMA LockedClaims ==
  ASSUME CInv, NEW t \in Threads, UNCHANGED <<records, held>>,
         \/ DeallocateToCentral(t) \/ CentralDeallocate(t)
         \/ FlushLock(t) \/ FlushCentral(t)
  PROVE  ClientInvariant'
<1> USE DEF CInv, HInv
<1>1. CASE DeallocateToCentral(t) \/ CentralDeallocate(t)
  <2>1. /\ frame[t].pc \in {"lookup", "free_central"} /\ Moves(t)
        /\ frame'[t].pc \in {"free_central", "free_erase"} /\ frame'[t].ptr = frame[t].ptr
        /\ frame'[t].index = frame[t].index /\ frame'[t].result = frame[t].result
    BY <1>1, DeallocateToCentralEffect, CentralDeallocateEffect, Zenon DEF Advances
  <2>2. Claim(t)' = Claim(t) /\ ResultOK(t)'
    BY <2>1, ClaimNow, ClaimNext, Zenon DEF ClientInvariant, ResultOK
  <2> QED BY <2>1, <2>2, QuietClaims, Zenon
<1>2. CASE FlushLock(t) \/ FlushCentral(t)
  <2>1. /\ frame[t].pc \in {"flush", "flush_central"} /\ Moves(t)
        /\ frame'[t].pc \in {"flush_central", "flush_erase"}
        /\ frame'[t].index = frame[t].index
    BY <1>2, FlushLockEffect, FlushCentralEffect, Zenon DEF Advances
  <2>2. frame[t].index = 0
    BY <2>1, Zenon DEF HolderInvariant, CallOK, Refilling, At
  <2>3. Claim(t)' = NoAddr /\ ResultOK(t)'
    BY <2>1, <2>2, ClaimNext DEF ResultOK
  <2>4. IsCached(frame'[t].ptr)
    <3>1. CASE FlushCentral(t)
      BY <3>1, FlushCentralEffect, Zenon DEF ClientInvariant, Advances
    <3>2. CASE FlushLock(t)
      <4>1. PICK p : frame' = [frame EXCEPT
                 ![t].pc = IF IsCached(p) THEN "flush_central" ELSE "broken", ![t].ptr = p]
        BY <3>2, Zenon DEF FlushLock
      <4>2. frame \in [Threads -> Frame]
        BY Zenon DEF IInv, TypeOK
      <4>3. frame[t] \in Frame
        BY <4>2, Zenon
      <4>4. /\ frame'[t].pc = IF IsCached(p) THEN "flush_central" ELSE "broken"
            /\ frame'[t].ptr = p
        BY <4>1, <4>2, <4>3, Zenon DEF Frame
      <4> QED BY <2>1, <4>4, Zenon
    <3> QED BY <1>2, <3>1, <3>2, Zenon
  <2> QED BY <2>1, <2>3, <2>4, QuietClaims, Zenon
<1> QED BY <1>1, <1>2, Zenon

\* A caller passes a pointer it holds to deallocate.
LEMMA DeallocatesClaims ==
  ASSUME CInv, NEW t \in Threads, ClientDeallocates(t)
  PROVE  ClientInvariant'
<1> USE DEF CInv, HInv
<1>1. PICK p \in held, s \in Requests \cup {Unsized} :
         CallDeallocate(t, p, s) /\ held' = held \ {p}
  BY Zenon DEF ClientDeallocates
<1>2. p \in Addr /\ IsActive(p) /\ p # NoAddr
  BY DomainAssumption, Zenon DEF ClientInvariant
<1>3. /\ Moves(t) /\ records' = records
      /\ frame'[t].pc = "lookup" /\ frame'[t].ptr = p /\ frame'[t].index = 0
  BY <1>1, <1>2, CallDeallocateEffect, Zenon DEF Enters
<1>4. Claim(t)' = p /\ ResultOK(t)'
  BY <1>3, ClaimNext DEF ResultOK
<1>5. \A u \in Threads : Claim(u) # p
  BY <1>2, Zenon DEF ClientInvariant
<1>6. \A u \in Threads : frame[u].pc \in {"flush_central", "flush_erase"} => frame[u].ptr # p
  BY <1>2, Zenon DEF ClientInvariant, IsActive, IsCached
<1>7. IsActive(p)'
  BY <1>2, <1>3, Zenon DEF IsActive
<1> QED BY <1>1, <1>2, <1>3, <1>4, <1>5, <1>6, <1>7, BlockClaims, Zenon

\* allocate returns the first block of a refill.
LEMMA ReturnsFreshClaims ==
  ASSUME CInv, NEW t \in Threads, AllocateReturnsFresh(t)
  PROVE  ClientInvariant'
<1> USE DEF CInv, HInv
<1>1. /\ frame[t].pc = "note" /\ Ends(t, "idle") /\ records' = records
      /\ held' = held \cup {frame[t].result}
  BY NoteLiveAllocationEffect, Zenon DEF AllocateReturnsFresh
<1>2. frame[t].index \in Nat /\ frame[t].index > 0
  BY <1>1, LocalFacts, Zenon DEF CallOK, At
<1>3. Claim(t) = frame[t].result
  BY <1>1, <1>2, ClaimNow, Zenon
<1>4. Moves(t) /\ frame'[t].pc = "idle" /\ Claim(t)' = NoAddr /\ ResultOK(t)'
  BY <1>1, ClaimNext DEF Ends, ResultOK
<1>5. PICK p \in Addr : p = Claim(t) /\ p # NoAddr
  BY <1>2, <1>3, DomainAssumption, Zenon DEF ClientInvariant
<1>6. IsActive(p)'
  BY <1>1, <1>5, ClaimedOnce, Zenon DEF IsActive
<1>7. /\ \A u \in Threads : u # t => Claim(u) # p
      /\ \A u \in Threads : frame[u].pc \in {"flush_central", "flush_erase"}
           => frame[u].ptr # p
  BY <1>5, ClaimedOnce, Zenon
<1>8. held' \subseteq held \cup {p}
  BY <1>1, <1>3, <1>5, Zenon
<1>9. /\ \A q \in Addr : q # p => records'[q] = records[q]
      /\ frame'[t].pc \notin {"flush_central", "flush_erase"}
  BY <1>1, <1>4, Zenon
<1> QED BY <1>4, <1>6, <1>7, <1>8, <1>9, BlockClaims, Zenon

\* allocate returns a block from the bin.
LEMMA ReturnsCachedClaims ==
  ASSUME CInv, NEW t \in Threads, AllocateReturnsCached(t)
  PROVE  ClientInvariant'
<1> USE DEF CInv, HInv
<1>1. CacheHit(t) /\ held' = held \cup {frame[t].ptr}
  BY Zenon DEF AllocateReturnsCached
<1>2. PICK p \in Addr : p = frame[t].ptr
  BY <1>1, CacheHitEffect, Zenon
<1>3. /\ IsCached(p) /\ Moves(t) /\ frame'[t].pc = "idle" /\ frame'[t].index = 0
      /\ records' = [records EXCEPT ![p] =
           [kind |-> SizeClass[frame[t].arg], owner |-> t, state |-> "active"]]
      /\ SizeClass[frame[t].arg] \in Classes
  BY <1>1, <1>2, CacheHitEffect, Zenon DEF Ends
<1>4. Claim(t)' = NoAddr /\ ResultOK(t)'
  BY <1>3, ClaimNext DEF ResultOK
<1>5. \A u \in Threads : Claim(u) # p
  BY <1>3, InactiveUnclaimed, Zenon DEF IsActive, IsCached
<1>6. \A u \in Threads : frame[u].pc \in {"flush_central", "flush_erase"} => frame[u].ptr # p
  <2>1. Unlocked(p)
    BY <1>1, <1>2, Zenon DEF CacheHit
  <2> QED BY <2>1, UnlockedFacts, Zenon DEF HoldsShard
<1>7. records \in [Addr -> Record \cup {NoRecord}]
  BY Zenon DEF IInv, TypeOK
<1>8. /\ IsActive(p)'
      /\ \A q \in Addr : q # p => records'[q] = records[q]
  <2> DEFINE x == [kind |-> SizeClass[frame[t].arg], owner |-> t, state |-> "active"]
  <2>1. x \in Record /\ x.state = "active"
    BY <1>3, Zenon DEF Record, Kinds
  <2>2. x # NoRecord
    BY <2>1, RecordFacts, Zenon
  <2>3. records'[p] = x /\ \A q \in Addr : q # p => records'[q] = records[q]
    BY <1>3, <1>7, Zenon
  <2> QED BY <2>1, <2>2, <2>3, Zenon DEF IsActive
<1>9. held' \subseteq held \cup {p} /\ frame'[t].pc \notin {"flush_central", "flush_erase"}
  BY <1>1, <1>2, <1>3, Zenon
<1> QED BY <1>3, <1>4, <1>5, <1>6, <1>8, <1>9, BlockClaims, Zenon

\* A block of a refill gets its record; the first one is claimed from then on.
LEMMA RecordClaims ==
  ASSUME CInv, NEW t \in Threads, RecordAllocation(t), held' = held
  PROVE  ClientInvariant'
<1> USE DEF CInv, HInv
<1> DEFINE x == [kind |-> Kind(frame[t].arg), owner |-> t,
                 state |-> IF frame[t].index = 0 THEN "active" ELSE "cached"]
<1>1. PICK p \in Addr : p = frame[t].ptr
  BY RecordAllocationEffect, Zenon
<1>2. /\ frame[t].pc = "record" /\ frame[t].arg \in Requests /\ records[p] = NoRecord
      /\ records' = [records EXCEPT ![p] = x]
      /\ Moves(t) /\ frame'[t].pc = "keep" /\ frame'[t].ptr = p
      /\ frame'[t].index = frame[t].index /\ frame'[t].result = frame[t].result
  BY <1>1, RecordAllocationEffect, Zenon DEF Advances
<1>3. frame[t].index \in Nat /\ ResultOK(t)'
  BY <1>2, LocalFacts, Zenon DEF ClientInvariant, ResultOK
<1>4. p \notin held /\ \A u \in Threads : Claim(u) # p
  BY <1>2, InactiveUnclaimed, Zenon DEF IsActive
<1>5. \A u \in Threads : frame[u].pc \in {"flush_central", "flush_erase"} => frame[u].ptr # p
  BY <1>2, Zenon DEF ClientInvariant, IsCached
<1>6. records \in [Addr -> Record \cup {NoRecord}]
  BY Zenon DEF IInv, TypeOK
<1>7. \A q \in Addr : q # p => records'[q] = records[q]
  BY <1>2, <1>6, Zenon
<1>8. CASE frame[t].index = 0
  <2>1. Claim(t)' = p
    BY <1>2, <1>8, ClaimNext, Zenon
  <2>2. x \in Record /\ x.state = "active"
    BY <1>2, <1>8, KindType, Zenon DEF Record
  <2>3. IsActive(p)'
    <3>1. records'[p] = x
      BY <1>2, <1>6, Zenon
    <3> QED BY <3>1, <2>2, RecordFacts, Zenon DEF IsActive
  <2> QED BY <1>2, <1>3, <1>4, <1>5, <1>7, <2>1, <2>3, BlockClaims, Zenon
<1>9. CASE frame[t].index > 0
  <2>1. Claim(t)' = Claim(t)
    BY <1>2, <1>3, <1>9, ClaimNow, ClaimNext, Zenon
  <2> QED BY <1>2, <1>3, <1>4, <1>5, <1>7, <2>1, BlockClaims
<1> QED BY <1>3, <1>8, <1>9

\* The record of a claimed block is erased, or marked inactive, by the thread
\* that claims it; a flushed block is claimed by nobody.
LEMMA ReleaseClaims ==
  ASSUME CInv, NEW t \in Threads, held' = held,
         EraseRecord(t) \/ DeallocateLocal(t) \/ FlushErase(t)
  PROVE  ClientInvariant'
<1> USE DEF CInv, HInv
<1>1. records \in [Addr -> Record \cup {NoRecord}]
  BY Zenon DEF IInv, TypeOK
<1>2. PICK p \in Addr :
         /\ p = frame[t].ptr /\ Moves(t)
         /\ \A q \in Addr : q # p => records'[q] = records[q]
         /\ frame[t].pc \in {"free_erase", "lookup", "flush_erase"}
         /\ frame'[t].pc \in {"idle", "push", "flush"}
         /\ frame'[t].index \in {0, frame[t].index}
         /\ frame[t].pc = "flush_erase" => IsCached(p)
  <2>1. CASE EraseRecord(t)
    <3>1. /\ frame[t].ptr \in Addr /\ frame[t].pc = "free_erase" /\ Ends(t, "idle")
          /\ records' = [records EXCEPT ![frame[t].ptr] = NoRecord]
      BY <2>1, EraseRecordEffect, Zenon
    <3> QED BY <1>1, <3>1, Zenon DEF Ends
  <2>2. CASE DeallocateLocal(t)
    <3>1. PICK c \in Classes : /\ frame[t].ptr \in Addr /\ frame[t].pc = "lookup"
          /\ Advances(t, "push", frame[t].ptr, {c})
          /\ records' = [records EXCEPT ![frame[t].ptr] = CachedRecord(t, c)]
      BY <2>2, DeallocateLocalEffect, Zenon
    <3> QED BY <1>1, <3>1, Zenon DEF Advances
  <2>3. CASE FlushErase(t)
    <3>1. /\ frame[t].ptr \in Addr /\ frame[t].pc = "flush_erase"
          /\ Advances(t, "flush", NoAddr, frame[t].flushing)
          /\ records' = [records EXCEPT ![frame[t].ptr] = NoRecord]
      BY <2>3, FlushEraseEffect, Zenon
    <3>2. IsCached(frame[t].ptr)
      BY <3>1, Zenon DEF ClientInvariant
    <3> QED BY <1>1, <3>1, <3>2, Zenon DEF Advances
  <2> QED BY <2>1, <2>2, <2>3, Zenon
<1>3. frame'[t].index = 0
  BY <1>2, Zenon DEF HolderInvariant, CallOK, Refilling, At
<1>4. Claim(t)' = NoAddr /\ ResultOK(t)'
  BY <1>2, <1>3, ClaimNext DEF ResultOK
<1>5. /\ p \notin held
      /\ \A u \in Threads : u # t => Claim(u) # p
      /\ \A u \in Threads : u # t /\ frame[u].pc \in {"flush_central", "flush_erase"}
           => frame[u].ptr # p
  <2>1. CASE frame[t].pc = "flush_erase"
    <3>1. p \notin held /\ \A u \in Threads : Claim(u) # p
      BY <1>2, <2>1, InactiveUnclaimed, Zenon DEF IsActive, IsCached
    <3> QED BY <1>2, <2>1, <3>1, LockExcludes, Zenon DEF HoldsShard
  <2>2. CASE frame[t].pc \in {"free_erase", "lookup"}
    <3>1. Claim(t) = p /\ p # NoAddr
      BY <1>2, <2>2, ClaimNow, DomainAssumption, Zenon
    <3> QED BY <3>1, ClaimedOnce, Zenon
  <2> QED BY <1>2, <2>1, <2>2, Zenon
<1>6. /\ held' \subseteq held \cup {p} /\ p \notin held'
      /\ frame'[t].pc \notin {"flush_central", "flush_erase"}
  BY <1>2, <1>5, Zenon
<1> QED BY <1>2, <1>4, <1>5, <1>6, BlockClaims, Zenon

\* Every step of the composition is a step of the cache or leaves it alone.
LEMMA ClientStepIsStep ==
  ASSUME CInv, [ClientNext]_clientVars
  PROVE  [Next]_vars
<1>1. CASE UNCHANGED clientVars
  BY <1>1, Zenon DEF clientVars
<1>2. ASSUME NEW t \in Threads, ClientDeallocates(t) PROVE Call(t)
  BY <1>2, Zenon DEF ClientDeallocates, Call, CInv, ClientInvariant
<1>3. ASSUME NEW t \in Threads,
             ClientAllocates(t) \/ ClientReleases(t) \/ ClientExits(t) \/ ClientStep(t)
      PROVE  Call(t) \/ Step(t)
  BY <1>3, Zenon DEF ClientAllocates, ClientReleases, ClientExits, ClientStep, CallProceeds,
     AllocateReturnsCached, AllocateReturnsFresh, Call, Step
<1> QED BY <1>1, <1>2, <1>3, Zenon DEF ClientNext, Next

LEMMA ProceedClaims ==
  ASSUME CInv, NEW t \in Threads, CallProceeds(t)
  PROVE  ClientInvariant'
<1>1. Proceed(t) /\ held' = held
  BY Zenon DEF CallProceeds
<1>2. CASE FlushBinDone(t) \/ PushLocal(t) \/ DeallocateRejected(t)
  <2>1. records' = records
    BY <1>2, Zenon DEF FlushBinDone, PushLocal, DeallocateRejected
  <2> QED BY <1>1, <1>2, <2>1, StartClaims, Zenon
<1>3. CASE \/ CentralAllocate(t) \/ CentralAllocateFails(t)
           \/ UndoAllocation(t) \/ RecordAllocationFails(t) \/ KeepBlock(t)
  <2>1. records' = records
    BY <1>3, Zenon DEF CentralAllocate, CentralAllocateFails, UndoAllocation,
       RecordAllocationFails, KeepBlock
  <2> QED BY <1>1, <1>3, <2>1, RefillClaims, Zenon
<1>4. CASE \/ DeallocateToCentral(t) \/ CentralDeallocate(t)
           \/ FlushLock(t) \/ FlushCentral(t)
  <2>1. records' = records
    BY <1>4, Zenon DEF DeallocateToCentral, CentralDeallocate, FlushLock, FlushCentral
  <2> QED BY <1>1, <1>4, <2>1, LockedClaims, Zenon
<1>5. CASE RecordAllocation(t)
  BY <1>1, <1>5, RecordClaims, Zenon
<1>6. CASE EraseRecord(t) \/ DeallocateLocal(t) \/ FlushErase(t)
  BY <1>1, <1>6, ReleaseClaims, Zenon
<1> QED BY <1>1, <1>2, <1>3, <1>4, <1>5, <1>6, Zenon DEF Proceed

LEMMA NextClaims ==
  ASSUME CInv, [ClientNext]_clientVars
  PROVE  ClientInvariant'
<1>1. CASE UNCHANGED clientVars
  <2>1. UNCHANGED <<frame, records, held>>
    BY <1>1, Zenon DEF clientVars, vars
  <2>2. \A t \in Threads : Claim(t)' = Claim(t)
    BY <2>1, Zenon DEF Claim, At
  <2> QED BY <2>1, <2>2 DEF CInv, ClientInvariant, IsActive, IsCached
<1>2. CASE ClientNext
  <2>1. PICK t \in Threads :
           \/ ClientAllocates(t) \/ ClientDeallocates(t)
           \/ ClientReleases(t) \/ ClientExits(t) \/ ClientStep(t)
    BY <1>2, Zenon DEF ClientNext
  <2>2. CASE ClientAllocates(t) \/ ClientReleases(t) \/ ClientExits(t)
    <3>1. /\ held' = held
          /\ (\E r \in Requests : CallAllocate(t, r)) \/ CallRelease(t) \/ ExitThread(t)
      BY <2>2, Zenon DEF ClientAllocates, ClientReleases, ClientExits
    <3>2. records' = records
      BY <3>1, Zenon DEF CallAllocate, CallRelease, ExitThread
    <3> QED BY <3>1, <3>2, StartClaims, Zenon
  <2>3. CASE ClientDeallocates(t)
    BY <2>3, DeallocatesClaims, Zenon
  <2>4. CASE ClientStep(t)
    BY <2>4, ReturnsCachedClaims, ReturnsFreshClaims, ProceedClaims, Zenon DEF ClientStep
  <2> QED BY <2>1, <2>2, <2>3, <2>4, Zenon
<1> QED BY <1>1, <1>2, Zenon

LEMMA InitClaims == ClientInit => ClientInvariant
<1> SUFFICES ASSUME ClientInit PROVE ClientInvariant
  BY Zenon
<1>1. held = {} /\ \A t \in Threads : frame[t].pc = "idle" /\ frame[t].index = 0
  BY Zenon DEF ClientInit, Init, IdleFrame
<1>2. \A t \in Threads : Claim(t) = NoAddr
  BY <1>1 DEF Claim, At
<1> QED BY <1>1, <1>2 DEF ClientInvariant

\* The claims exclude that a pointer in a caller's hands is being erased.
LEMMA HeldLive == CInv => HeldPointersStayLive
<1> SUFFICES ASSUME CInv, NEW p \in Addr,
                    p \in held \/ \E t \in Threads : At(t, "lookup") /\ frame[t].ptr = p
             PROVE  IsActive(p) /\ central[p] = records[p].kind
  BY Zenon DEF HeldPointersStayLive
<1>1. p # NoAddr
  BY DomainAssumption, Zenon
<1>2. /\ IsActive(p)
      /\ \A u \in Threads : frame[u].pc = "free_erase" => frame[u].ptr # p
  <2>1. CASE p \in held
    BY <2>1, <1>1, ClaimNow, Zenon DEF CInv, ClientInvariant
  <2>2. CASE \E t \in Threads : At(t, "lookup") /\ frame[t].ptr = p
    <3>1. PICK t \in Threads : frame[t].pc = "lookup" /\ frame[t].ptr = p
      BY <2>2, Zenon DEF At
    <3>2. Claim(t) = p
      BY <3>1, ClaimNow, Zenon
    <3> QED BY <1>1, <3>1, <3>2, ClaimNow, ClaimedOnce, Zenon
  <2> QED BY <2>1, <2>2, Zenon
<1>3. \A u \in Threads : frame[u].pc = "flush_erase" => frame[u].ptr # p
  BY <1>2, Zenon DEF CInv, ClientInvariant, IsActive, IsCached
<1>4. ~ Erasing(p)
  BY <1>2, <1>3, Zenon DEF Erasing
<1> QED BY <1>2, <1>4, Zenon DEF CInv, HInv, IInv, CacheInvariant, CentralOK, IsActive
==============================================================================
