----------------------------- MODULE ObjectPool ------------------------------
(***************************************************************************)
(* Object lifetimes over FixedSizeMemoryPool: create and destroy, the      *)
(* ObjectPool facade and PoolPtr.  Constructors and destructors are user   *)
(* code that may call the pool again, so calls nest: frames is the stack   *)
(* of create and destroy calls in progress.  Free blocks are a set;        *)
(* FixedPool models the list.                                              *)
(***************************************************************************)
EXTENDS Integers, FiniteSets, Sequences

CONSTANTS
    Slots,
    MaxDepth,       \* bounds the nesting of calls
    MaxCreates      \* bounds the objects created in a behaviour

ASSUME ObjectPoolAssumption == IsFiniteSet(Slots) /\ MaxDepth \in Nat /\ MaxCreates \in Nat

VARIABLES
    pool_options,   \* guard_bytes, and diagnostics with its state table
    allocated,      \* the blocks not on the free list
    breached,       \* the allocated blocks with an overwritten canary
    object,         \* Blocks -> what lives in the block
    owner,          \* Blocks -> who must end the object's life
    frames,         \* calls in progress, the innermost last
    created, ended, \* constructors and destructors that have returned or thrown
    result          \* how the last call ended

objectVars == <<pool_options, allocated, breached, object, owner, frames, created, ended, result>>

Owners == {"nobody", "raw", "PoolPtr", "PoolPtr without pool"}

ObjectInit ==
    /\ pool_options \in [guards : BOOLEAN, diagnostics : BOOLEAN]
    /\ allocated = {} /\ breached = {}
    /\ object = [p \in Slots |-> "none"]
    /\ owner = [p \in Slots |-> "nobody"]
    /\ frames = <<>>
    /\ created = 0 /\ ended = 0
    /\ result = "ok"

Continues == result # "terminate"
CanCall == Continues /\ Len(frames) < MaxDepth

Top == frames[Len(frames)]
InCall(ops) == Continues /\ frames # <<>> /\ Top.op \in ops
Enter(op, p) == frames' = Append(frames, [op |-> op, block |-> p])
Leave == frames' = SubSeq(frames, 1, Len(frames) - 1)

Intact(p) == p \notin breached

\* deallocate, of a block whose object is gone: a breached canary throws and
\* leaves the block allocated.
deallocate(p) ==
    /\ allocated' = IF Intact(p) THEN allocated \ {p} ELSE allocated
    /\ UNCHANGED breached

------------------------------------------------------------------------------
(***************************************************************************)
(* create and make_unique.                                                 *)
(***************************************************************************)
\* sizeof(T) or alignof(T) does not suit the blocks.
CreateRefused ==
    /\ CanCall
    /\ result' = "invalid_argument"
    /\ UNCHANGED <<pool_options, allocated, breached, object, owner, frames, created, ended>>

CreateExhausted ==
    /\ CanCall
    /\ allocated = Slots
    /\ result' = "bad_alloc"
    /\ UNCHANGED <<pool_options, allocated, breached, object, owner, frames, created, ended>>

Create(op) ==
    /\ CanCall /\ created < MaxCreates
    /\ \E p \in Slots \ allocated :
          /\ allocated' = allocated \cup {p}
          /\ object' = [object EXCEPT ![p] = "building"]
          /\ Enter(op, p)
    /\ created' = created + 1
    /\ UNCHANGED <<pool_options, breached, owner, ended, result>>

ConstructorReturns ==
    /\ InCall({"create", "make_unique"})
    /\ object' = [object EXCEPT ![Top.block] = "live"]
    /\ owner' = [owner EXCEPT ![Top.block] = IF Top.op = "create" THEN "raw" ELSE "PoolPtr"]
    /\ Leave
    /\ result' = "ok"
    /\ UNCHANGED <<pool_options, allocated, breached, created, ended>>

\* Mutant: nothing is caught, the block is not returned.
ThrowKeepsBlock ==
    /\ InCall({"create", "make_unique"})
    /\ object' = [object EXCEPT ![Top.block] = "none"]
    /\ Leave
    /\ ended' = ended + 1
    /\ result' = "constructor's exception"
    /\ UNCHANGED <<pool_options, allocated, breached, owner, created>>

\* The block is returned and the exception goes on, unless deallocate throws
\* its own.
ConstructorThrows ==
    /\ InCall({"create", "make_unique"})
    /\ object' = [object EXCEPT ![Top.block] = "none"]
    /\ deallocate(Top.block)
    /\ Leave
    /\ ended' = ended + 1
    /\ result' = IF Intact(Top.block) THEN "constructor's exception" ELSE "MemoryCorruptionError"
    /\ UNCHANGED <<pool_options, owner, created>>

------------------------------------------------------------------------------
(***************************************************************************)
(* destroy, and PoolDeleter, which is noexcept.                            *)
(***************************************************************************)
\* What an exception becomes on its way out of a call.
Escapes(op, exception) == IF op = "delete" THEN "terminate" ELSE exception

\* Mutant: the state table is not asked.
AnythingIsValid(p) == TRUE

\* validate_allocated_pointer, of a block start.
validate(p) == pool_options.diagnostics => p \in allocated

\* The destructor of a valid pointer is entered.
Enters(op, p) ==
    /\ IF validate(p)
       THEN /\ Enter(op, p)
            /\ object' = [object EXCEPT ![p] = "dying"]
            /\ owner' = [owner EXCEPT ![p] = "nobody"]
            /\ UNCHANGED result
       ELSE /\ result' = Escapes(op, "DoubleFreeError")
            /\ UNCHANGED <<frames, object, owner>>
    /\ UNCHANGED <<pool_options, allocated, breached, created, ended>>

\* Callers destroy the objects they own, and with diagnostics any free block.
DestroyObject(p) ==
    /\ CanCall
    /\ owner[p] = "raw" \/ (pool_options.diagnostics /\ p \notin allocated)
    /\ Enters("destroy", p)

\* A pointer from outside the pool, or into a block.
DestroyForeign ==
    /\ CanCall
    /\ result' = "InvalidPoolPointer"
    /\ UNCHANGED <<pool_options, allocated, breached, object, owner, frames, created, ended>>

\* A PoolPtr goes out of scope or is reset; it has let go of the pointer.
Delete(p) ==
    /\ CanCall
    /\ owner[p] = "PoolPtr"
    /\ Enters("delete", p)

DeleteWithoutPool(p) ==
    /\ CanCall
    /\ owner[p] = "PoolPtr without pool"
    /\ result' = "terminate"
    /\ UNCHANGED <<pool_options, allocated, breached, object, owner, frames, created, ended>>

DestructorReturns ==
    /\ InCall({"destroy", "delete"})
    /\ object' = [object EXCEPT ![Top.block] = "none"]
    /\ deallocate(Top.block)
    /\ Leave
    /\ ended' = ended + 1
    /\ result' = IF Intact(Top.block) THEN "ok" ELSE Escapes(Top.op, "MemoryCorruptionError")
    /\ UNCHANGED <<pool_options, owner, created>>

\* A destructor declared noexcept(false): deallocate is not reached.
DestructorThrows ==
    /\ InCall({"destroy", "delete"})
    /\ object' = [object EXCEPT ![Top.block] = "failed"]
    /\ Leave
    /\ ended' = ended + 1
    /\ result' = Escapes(Top.op, "destructor's exception")
    /\ UNCHANGED <<pool_options, allocated, breached, owner, created>>

------------------------------------------------------------------------------
(***************************************************************************)
(* What else callers, constructors and destructors do.                     *)
(***************************************************************************)
\* PoolPtr::release, and a PoolPtr made of a raw pointer, with or without the
\* pool in its deleter.
PassOwnership(p) ==
    /\ Continues
    /\ owner[p] # "nobody"
    /\ \E o \in Owners \ {"nobody", owner[p]} : owner' = [owner EXCEPT ![p] = o]
    /\ UNCHANGED <<pool_options, allocated, breached, object, frames, created, ended, result>>

Overrun(p) ==
    /\ Continues
    /\ pool_options.guards /\ p \in allocated /\ Intact(p)
    /\ breached' = breached \cup {p}
    /\ UNCHANGED <<pool_options, allocated, object, owner, frames, created, ended, result>>

ObjectNext ==
    \/ CreateRefused \/ CreateExhausted \/ DestroyForeign
    \/ \E op \in {"create", "make_unique"} : Create(op)
    \/ ConstructorReturns \/ ConstructorThrows
    \/ DestructorReturns \/ DestructorThrows
    \/ \E p \in Slots : DestroyObject(p) \/ Delete(p) \/ DeleteWithoutPool(p) \/ PassOwnership(p) \/ Overrun(p)

ObjectSpec == ObjectInit /\ [][ObjectNext]_objectVars

------------------------------------------------------------------------------
(***************************************************************************)
(* Properties.                                                             *)
(***************************************************************************)
Alive == {p \in Slots : object[p] \in {"building", "live", "dying"}}

ObjectTypeOK ==
    /\ pool_options \in [guards : BOOLEAN, diagnostics : BOOLEAN]
    /\ allocated \subseteq Slots /\ breached \subseteq allocated
    /\ object \in [Slots -> {"none", "building", "live", "dying", "failed"}]
    /\ owner \in [Slots -> Owners]
    /\ frames \in Seq([op : {"create", "make_unique", "destroy", "delete"}, block : Slots])
    /\ created \in Nat /\ ended \in Nat

\* The blocks under construction or destruction are those of the frames.
FramesMatch ==
    /\ \A i \in DOMAIN frames :
          object[frames[i].block] = IF frames[i].op \in {"create", "make_unique"} THEN "building" ELSE "dying"
    /\ \A i, j \in DOMAIN frames : frames[i].block = frames[j].block => i = j
    /\ \A p \in Slots : object[p] \in {"building", "dying"} => \E i \in DOMAIN frames : frames[i].block = p

\* However calls nest, every block is the business of one of them: a block is
\* under construction or destruction in exactly one frame, and its storage is
\* not given to anyone else before that frame has returned it.
OneCallPerBlock == FramesMatch /\ \A p \in Slots : object[p] # "none" => p \in allocated

\* A failed construction or a destruction returns its block: a block stays
\* allocated without an object only when deallocate refused its breached canary
\* (or, "failed", when the destructor threw). It is then lost to the pool.
LostBlocksAreBreached == \A p \in allocated : object[p] = "none" => p \in breached

\* Every live object has one owner who will end its life, and an object in a
\* call, or none at all, has no owner left to end it again.
OneOwner == \A p \in Slots : owner[p] # "nobody" <=> object[p] = "live"

\* Every constructor that has started is matched by one end of the object's
\* life at most: what was created and not ended lives or is in a call.
LifetimesBalance == created - ended = Cardinality(Alive)

\* destroy validates before it runs user code: no destructor is entered for a
\* block that holds no live object.
DestructorsOfLiveObjects ==
    [][\A p \in Slots : object'[p] = "dying" /\ object[p] # "dying" => object[p] = "live"]_objectVars
==============================================================================
