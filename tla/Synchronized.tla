---------------------------- MODULE Synchronized -----------------------------
(***************************************************************************)
(* BasicSynchronizedAllocator: every call holds one mutex, through a       *)
(* lock_guard, while it works on a SegregatedAllocator that is not         *)
(* thread-safe itself.  The work is therefore split where another thread   *)
(* could see it half done: a request is counted, a free block is found,    *)
(* taken, and counted; statistics() copies the counters one after another. *)
(* Which address serves a request, and when a return is accepted, is what  *)
(* CentralStorage says, which Segregated implements.                       *)
(***************************************************************************)
EXTENDS Integers

CONSTANTS
    Threads, Addr,
    Kinds,          \* what blocks are allocated for: a class or an exact size
    MaxCalls,       \* bounds the calls of all threads
    NoThread, Free, Unsized, NoAddr

ASSUME SyncAssumption ==
    /\ NoThread \notin Threads
    /\ Free \notin Kinds /\ Unsized \notin Kinds
    /\ NoAddr \notin Addr
    /\ MaxCalls \in Nat

VARIABLES
    mutex,       \* the thread that holds mutex_, or NoThread
    allocated,   \* Addr -> the kind it was allocated for, or Free
    requests, successful, failed, deallocations,   \* the statistics
    pc,          \* where every thread is in its call
    task,        \* the call every thread is in: operation, size, pointer
    block,       \* the free block an allocation has found
    copiedRequests, copiedOutcomes,   \* what every thread's last statistics() read
    calls        \* how many calls were made

statistics == <<requests, successful, failed, deallocations>>
copied == <<copiedRequests, copiedOutcomes>>
syncVars == <<mutex, allocated, statistics, pc, task, block, copied, calls>>

\* The labels of a call that holds the mutex.
Body == {"count", "take", "mark", "fail", "check", "free", "tally", "copy_requests", "copy_outcomes", "unlock"}
Operations == {"none", "allocate", "deallocate", "statistics"}
NoCall == [op |-> "none", arg |-> Unsized, ptr |-> NoAddr]

SyncInit ==
    /\ mutex = NoThread
    /\ allocated = [p \in Addr |-> Free]
    /\ requests = 0 /\ successful = 0 /\ failed = 0 /\ deallocations = 0
    /\ pc = [t \in Threads |-> "idle"]
    /\ task = [t \in Threads |-> NoCall]
    /\ block = [t \in Threads |-> NoAddr]
    /\ copiedRequests = [t \in Threads |-> 0]
    /\ copiedOutcomes = [t \in Threads |-> 0]
    /\ calls = 0

At(t, label) == pc[t] = label
Goto(t, label) == pc' = [pc EXCEPT ![t] = label]

Call(t, op, arg, ptr) ==
    /\ At(t, "idle") /\ calls < MaxCalls
    /\ calls' = calls + 1
    /\ task' = [task EXCEPT ![t] = [op |-> op, arg |-> arg, ptr |-> ptr]]
    /\ Goto(t, "lock")
    /\ UNCHANGED <<mutex, allocated, statistics, block, copied>>

FirstStep(op) ==
    IF op = "allocate" THEN "count" ELSE IF op = "deallocate" THEN "check" ELSE "copy_requests"

\* Mutants: no mutex at all, or none for statistics().
NoMutex(t) ==
    /\ At(t, "lock")
    /\ mutex' = t
    /\ Goto(t, FirstStep(task[t].op))
    /\ UNCHANGED <<allocated, statistics, task, block, copied, calls>>

StatisticsUnlocked(t) ==
    /\ At(t, "lock")
    /\ mutex = NoThread \/ task[t].op = "statistics"
    /\ mutex' = IF task[t].op = "statistics" THEN mutex ELSE t
    /\ Goto(t, FirstStep(task[t].op))
    /\ UNCHANGED <<allocated, statistics, task, block, copied, calls>>

Lock(t) ==
    /\ At(t, "lock") /\ mutex = NoThread
    /\ mutex' = t
    /\ Goto(t, FirstStep(task[t].op))
    /\ UNCHANGED <<allocated, statistics, task, block, copied, calls>>

\* The lock_guard goes out of scope, on return and on an exception.
Unlock(t) ==
    /\ At(t, "unlock")
    /\ mutex' = NoThread
    /\ task' = [task EXCEPT ![t] = NoCall]
    /\ block' = [block EXCEPT ![t] = NoAddr]
    /\ Goto(t, "idle")
    /\ UNCHANGED <<allocated, statistics, copied, calls>>

------------------------------------------------------------------------------
CountRequest(t) ==
    /\ At(t, "count")
    /\ requests' = requests + 1
    /\ Goto(t, "take")
    /\ UNCHANGED <<mutex, allocated, successful, failed, deallocations, task, block, copied, calls>>

TakeBlock(t) ==
    /\ At(t, "take")
    /\ \E p \in Addr :
          /\ allocated[p] = Free
          /\ block' = [block EXCEPT ![t] = p]
    /\ Goto(t, "mark")
    /\ UNCHANGED <<mutex, allocated, statistics, task, copied, calls>>

TakeFails(t) ==
    /\ At(t, "take")
    /\ Goto(t, "fail")
    /\ UNCHANGED <<mutex, allocated, statistics, task, block, copied, calls>>

MarkBlock(t) ==
    /\ At(t, "mark")
    /\ allocated' = [allocated EXCEPT ![block[t]] = task[t].arg]
    /\ Goto(t, "tally")
    /\ UNCHANGED <<mutex, statistics, task, block, copied, calls>>

CountFailure(t) ==
    /\ At(t, "fail")
    /\ failed' = failed + 1
    /\ Goto(t, "unlock")
    /\ UNCHANGED <<mutex, allocated, requests, successful, deallocations, task, block, copied, calls>>

Releasable(c) == allocated[c.ptr] # Free /\ c.arg \in {Unsized, allocated[c.ptr]}

\* Mutant: the mutex is not released when the allocator throws.
ThrowKeepsMutex(t) ==
    /\ At(t, "check")
    /\ Goto(t, IF Releasable(task[t]) THEN "free" ELSE "idle")
    /\ UNCHANGED <<mutex, allocated, statistics, task, block, copied, calls>>

\* The owner is looked up and the size checked; a refusal throws.
CheckPointer(t) ==
    /\ At(t, "check")
    /\ Goto(t, IF Releasable(task[t]) THEN "free" ELSE "unlock")
    /\ UNCHANGED <<mutex, allocated, statistics, task, block, copied, calls>>

FreeBlock(t) ==
    /\ At(t, "free")
    /\ allocated' = [allocated EXCEPT ![task[t].ptr] = Free]
    /\ Goto(t, "tally")
    /\ UNCHANGED <<mutex, statistics, task, block, copied, calls>>

Tally(t) ==
    /\ At(t, "tally")
    /\ successful' = IF task[t].op = "allocate" THEN successful + 1 ELSE successful
    /\ deallocations' = IF task[t].op = "allocate" THEN deallocations ELSE deallocations + 1
    /\ Goto(t, "unlock")
    /\ UNCHANGED <<mutex, allocated, requests, failed, task, block, copied, calls>>

CopyRequests(t) ==
    /\ At(t, "copy_requests")
    /\ copiedRequests' = [copiedRequests EXCEPT ![t] = requests]
    /\ Goto(t, "copy_outcomes")
    /\ UNCHANGED <<mutex, allocated, statistics, task, block, copiedOutcomes, calls>>

CopyOutcomes(t) ==
    /\ At(t, "copy_outcomes")
    /\ copiedOutcomes' = [copiedOutcomes EXCEPT ![t] = successful + failed]
    /\ Goto(t, "unlock")
    /\ UNCHANGED <<mutex, allocated, statistics, task, block, copiedRequests, calls>>

Step(t) ==
    \/ Lock(t) \/ Unlock(t)
    \/ CountRequest(t) \/ TakeBlock(t) \/ TakeFails(t) \/ MarkBlock(t) \/ CountFailure(t)
    \/ CheckPointer(t) \/ FreeBlock(t) \/ Tally(t)
    \/ CopyRequests(t) \/ CopyOutcomes(t)

SyncNext == \E t \in Threads :
    \/ \E k \in Kinds : Call(t, "allocate", k, NoAddr)
    \/ \E p \in Addr, k \in Kinds \cup {Unsized} : Call(t, "deallocate", k, p)
    \/ Call(t, "statistics", Unsized, NoAddr)
    \/ Step(t)

SyncSpec == SyncInit /\ [][SyncNext]_syncVars

\* A thread inside a call is scheduled, and gets a mutex that stays free.
FairSyncSpec == SyncSpec /\ \A t \in Threads : WF_syncVars(Step(t))

------------------------------------------------------------------------------
(***************************************************************************)
(* Properties.                                                             *)
(***************************************************************************)
SyncTypeOK ==
    /\ mutex \in Threads \cup {NoThread}
    /\ allocated \in [Addr -> Kinds \cup {Free}]
    /\ requests \in Nat /\ successful \in Nat /\ failed \in Nat /\ deallocations \in Nat
    /\ pc \in [Threads -> {"idle", "lock"} \cup Body]
    /\ task \in [Threads -> [op : Operations, arg : Kinds \cup {Unsized}, ptr : Addr \cup {NoAddr}]]
    /\ block \in [Threads -> Addr \cup {NoAddr}]
    /\ copiedRequests \in [Threads -> Nat] /\ copiedOutcomes \in [Threads -> Nat]
    /\ calls \in Nat

\* What a label says about the call, and the call about its arguments.
CallInvariant(label, c) ==
    /\ label = "lock" => c.op # "none"
    /\ label \in {"count", "take", "mark", "fail"} => c.op = "allocate"
    /\ label \in {"check", "free"} => c.op = "deallocate"
    /\ label \in {"copy_requests", "copy_outcomes"} => c.op = "statistics"
    /\ label = "tally" => c.op \in {"allocate", "deallocate"}
    /\ c.op = "allocate" => c.arg \in Kinds
    /\ c.op = "deallocate" => c.ptr \in Addr

\* The request of the thread that holds the mutex is counted, its outcome not.
Undecided(t) == pc[t] \in {"take", "mark", "fail"} \/ (pc[t] = "tally" /\ task[t].op = "allocate")

\* The inductive invariant: exactly the holder of the mutex is inside the
\* allocator, so what it has found (a free block, a returnable pointer, half
\* of a copy) is still true when it acts on it.
SyncInvariant ==
    /\ SyncTypeOK
    /\ \A t \in Threads : CallInvariant(pc[t], task[t])
    /\ \A t \in Threads : pc[t] \in Body <=> mutex = t
    /\ \A t \in Threads : pc[t] = "mark" => block[t] \in Addr /\ allocated[block[t]] = Free
    /\ \A t \in Threads : pc[t] = "free" => Releasable(task[t])
    /\ \A t \in Threads : mutex = t /\ Undecided(t) => requests = successful + failed + 1
    /\ (\A t \in Threads : ~ Undecided(t)) => requests = successful + failed
    /\ \A t \in Threads : pc[t] = "copy_outcomes" => copiedRequests[t] = requests
    /\ \A t \in Threads : pc[t] # "copy_outcomes" => copiedRequests[t] = copiedOutcomes[t]

\* The statistics a caller gets are of one moment between two calls of other
\* threads: every request in them has its outcome.
SnapshotConsistent == \A t \in Threads : At(t, "idle") => copiedRequests[t] = copiedOutcomes[t]

\* Every call returns: the mutex is released on every path out of a call.
EveryCallReturns == \A t \in Threads : At(t, "lock") ~> At(t, "idle")

\* A call has not taken effect before its block is marked or freed, its
\* failure counted, or its pointer refused.
Pending(label, c) ==
    \/ c.op = "allocate" /\ label \in {"lock", "count", "take", "mark", "fail"}
    \/ c.op = "deallocate" /\ label \in {"lock", "check", "free"}

PendingCalls == [t \in Threads |-> IF Pending(pc[t], task[t]) THEN task[t] ELSE NoCall]

Abstract == INSTANCE Allocator WITH pending <- PendingCalls

\* The synchronized allocator implements the atomic one that ThreadCache
\* implements too: each call takes effect at one moment while it runs.
ImplementsAllocator == Abstract!Spec
==============================================================================
