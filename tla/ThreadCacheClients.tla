-------------------------- MODULE ThreadCacheClients --------------------------
(***************************************************************************)
(* ThreadCache composed with callers that keep the rules: they free only a *)
(* pointer they hold, once, from any thread, with no size or one that      *)
(* selects its kind.  Pointers travel freely between threads, so a block   *)
(* may be freed by a thread that did not allocate it, also after the       *)
(* allocating thread has exited.  The threads make MaxCalls calls at most.  *)
(***************************************************************************)
EXTENDS ThreadCache

CONSTANT MaxCalls

ASSUME MaxCallsAssumption == MaxCalls \in Nat

VARIABLES
    held,           \* the pointers callers were given and have not freed
    calls           \* the calls made so far

clientVars == <<vars, held, calls>>

ClientInit ==
    /\ Init
    /\ held = {}
    /\ calls = 0

Counted ==
    /\ calls < MaxCalls
    /\ calls' = calls + 1

ClientAllocates(t) ==
    /\ \E r \in Requests : CallAllocate(t, r)
    /\ Counted
    /\ UNCHANGED held

ClientDeallocates(t) ==
    /\ \E p \in held, s \in Requests \cup {Unsized} :
          /\ Matches(records[p].kind, s)
          /\ CallDeallocate(t, p, s)
          /\ held' = held \ {p}
    /\ Counted

ClientReleases(t) ==
    /\ CallRelease(t)
    /\ Counted
    /\ UNCHANGED held

\* Exiting is always open to an idle thread and is not counted.
ClientExits(t) == ExitThread(t) /\ UNCHANGED <<held, calls>>

\* The two steps with which allocate returns a pointer.
AllocateReturnsCached(t) ==
    /\ CacheHit(t)
    /\ held' = held \cup {frame[t].ptr}
    /\ UNCHANGED calls

AllocateReturnsFresh(t) ==
    /\ NoteLiveAllocation(t)
    /\ held' = held \cup {frame[t].result}
    /\ UNCHANGED calls

CallProceeds(t) == Proceed(t) /\ UNCHANGED <<held, calls>>

ClientStep(t) ==
    AllocateReturnsCached(t) \/ AllocateReturnsFresh(t) \/ CallProceeds(t)

ClientNext == \E t \in Threads :
    \/ ClientAllocates(t) \/ ClientDeallocates(t)
    \/ ClientReleases(t) \/ ClientExits(t)
    \/ ClientStep(t)

(***************************************************************************)
(* A thread inside a call keeps running: it is scheduled, and it gets a    *)
(* mutex that stays free.  std::mutex promises no more than that, so the   *)
(* fairness is weak.                                                       *)
(***************************************************************************)
ClientSpec ==
    /\ ClientInit
    /\ [][ClientNext]_clientVars
    /\ \A t \in Threads : WF_clientVars(ClientStep(t))

------------------------------------------------------------------------------
\* A pointer a caller holds, and one it is passing to deallocate, has an
\* active record of the kind central storage has it allocated for: no call of
\* any thread, and no exit of its owner, takes it back or gives it out again,
\* and its free is not refused.
HeldPointersStayLive ==
    \A p \in Addr :
        (p \in held \/ \E t \in Threads : At(t, "lookup") /\ frame[t].ptr = p)
        => IsActive(p) /\ central[p] = records[p].kind

\* live_allocations, a size_t, does not wrap below zero although a refill
\* publishes its active record before it counts it.
LiveGaugeNeverWraps == live >= 0

\* The pointer thread t is about to give to its caller or was given by it: the
\* block it frees, up to the return or the push into its bin; the first block
\* of its refill, from its record on.
Claim(t) ==
    IF \/ frame[t].pc \in {"lookup", "free_central", "free_erase"}
       \/ At(t, "keep") /\ frame[t].index = 0
    THEN frame[t].ptr
    ELSE IF frame[t].index > 0 THEN frame[t].result ELSE NoAddr

\* Behind the two properties: no pointer has two of these uses, and each has an
\* active record; a block being flushed has an inactive one.
ClientInvariant ==
    /\ \A p \in held : p \in Addr /\ IsActive(p)
    /\ \A t \in Threads : Claim(t) # NoAddr =>
          Claim(t) \in Addr /\ Claim(t) \notin held /\ IsActive(Claim(t))
    /\ \A t, u \in Threads : Claim(t) = Claim(u) /\ Claim(t) # NoAddr => t = u
    /\ \A t \in Threads : frame[t].index > 0 => frame[t].result \in Addr
    /\ \A t \in Threads : frame[t].pc \in {"flush_central", "flush_erase"} =>
          IsCached(frame[t].ptr)

InCall(t) == ~ (At(t, "idle") \/ At(t, "exited"))

\* Every call returns: no thread is left waiting for a shard mutex, its own
\* or another thread's.
EveryCallReturns == \A t \in Threads : InCall(t) ~> ~ InCall(t)
==============================================================================
