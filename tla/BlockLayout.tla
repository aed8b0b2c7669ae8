----------------------------- MODULE BlockLayout -----------------------------
(***************************************************************************)
(* make_block_layout on a narrow size_t, and the pointer arithmetic of     *)
(* FixedSizeMemoryPool on the layout it returns.  Pointers are offsets     *)
(* from storage_, which is aligned as the layout asks.                     *)
(***************************************************************************)
EXTENDS Integers, Powers

CONSTANTS
    Width,            \* bits of a size_t
    LayoutAlignments, \* requested alignments, powers of two or not
    Nodes,            \* sizes of a FreeNode, which is aligned to its size
    GuardSize         \* the bytes of a canary

SizeMax == Power(2, Width) - 1

ValidAlignment(n) == \E k \in 0 .. Width - 1 : n = Power(2, k)

ASSUME LayoutAssumption ==
    /\ Width \in Nat \ {0} /\ GuardSize \in Nat
    /\ LayoutAlignments \subseteq 0 .. SizeMax
    /\ Nodes \subseteq {a \in 1 .. SizeMax : ValidAlignment(a)}

Arguments == [requested_block_size : 0 .. SizeMax, block_count : 0 .. SizeMax,
              requested_alignment : LayoutAlignments, guard_bytes : BOOLEAN,
              free_node_size : Nodes, guard_size : {GuardSize}]

VARIABLES
    arguments,      \* of make_block_layout
    outcome,        \* "none", "ok", or the exception it threw
    layout,         \* the BlockLayout it returned
    pointer,        \* the last pointer looked up
    index           \* what block_index said of it, or NotABlock

layoutVars == <<arguments, outcome, layout, pointer, index>>

NotABlock == -1
NoLayout == [block_size |-> 0, alignment |-> 0, payload_offset |-> 0, block_stride |-> 0, storage_size |-> 0]

LayoutInit ==
    /\ arguments \in Arguments
    /\ outcome = "none"
    /\ layout = NoLayout
    /\ pointer = NotABlock
    /\ index = NotABlock

------------------------------------------------------------------------------
Wrap(n) == n % (SizeMax + 1)
Greater(a, b) == IF a >= b THEN a ELSE b

\* Mutants: sums are not checked; a product is off by one.
AddUnchecked(left, right) == FALSE
MultiplyOffByOne(left, right) == right # 0 /\ left > (SizeMax \div right) + 1

add_overflows(left, right) == left > SizeMax - right
multiply_overflows(left, right) == right # 0 /\ left > SizeMax \div right
round_up_overflows(size, alignment) == size > SizeMax - (alignment - 1)

round_up(size, alignment) ==
    LET sum == Wrap(size + alignment - 1)
    IN  sum - (sum % alignment)

\* The sums, in the order they are computed, and whether any was refused.
make_block_layout(a) ==
    LET alignment == Greater(a.requested_alignment, a.free_node_size)
        size == Greater(a.requested_block_size, a.free_node_size)
        block_size == round_up(size, alignment)
        header == Greater(a.guard_size, a.free_node_size)
        payload_offset == IF a.guard_bytes THEN round_up(header, alignment) ELSE 0
        payload_end == Wrap(payload_offset + block_size)
        guard_end == Wrap(payload_end + a.guard_size)
        block_stride == IF a.guard_bytes THEN round_up(guard_end, alignment) ELSE block_size
    IN  [overflows |->
            \/ round_up_overflows(size, alignment)
            \/ a.guard_bytes /\ \/ round_up_overflows(header, alignment)
                                \/ add_overflows(payload_offset, block_size)
                                \/ add_overflows(payload_end, a.guard_size)
                                \/ round_up_overflows(guard_end, alignment)
            \/ multiply_overflows(block_stride, a.block_count),
         layout |->
            [block_size |-> block_size, alignment |-> alignment, payload_offset |-> payload_offset,
             block_stride |-> block_stride, storage_size |-> Wrap(block_stride * a.block_count)]]

Valid(a) == a.block_count # 0 /\ ValidAlignment(a.requested_alignment)

MakeLayout ==
    /\ outcome = "none"
    /\ outcome' = IF ~ Valid(arguments) THEN "invalid_argument"
                  ELSE IF make_block_layout(arguments).overflows THEN "length_error" ELSE "ok"
    /\ layout' = IF outcome' = "ok" THEN make_block_layout(arguments).layout ELSE NoLayout
    /\ UNCHANGED <<arguments, pointer, index>>

owns(p) == p \in 0 .. layout.storage_size - 1

\* Mutant: the raw start of a block is accepted, not that of its payload.
StartsRaw(p) == owns(p) /\ p % layout.block_stride = 0

is_block_start(p) ==
    LET distance == Wrap(p - layout.payload_offset)
    IN  /\ owns(p)
        /\ p >= layout.payload_offset
        /\ distance % layout.block_stride = 0
        /\ distance \div layout.block_stride < arguments.block_count

block_index(p) ==
    /\ outcome = "ok"
    /\ pointer' = p
    /\ index' = IF is_block_start(p) THEN (p - layout.payload_offset) \div layout.block_stride ELSE NotABlock
    /\ UNCHANGED <<arguments, outcome, layout>>

LayoutNext == MakeLayout \/ \E p \in 0 .. SizeMax : block_index(p)

------------------------------------------------------------------------------
(***************************************************************************)
(* Properties.                                                             *)
(***************************************************************************)
IsMultiple(n, a) == n % a = 0

\* The first multiple of a from n on, without a bound on the numbers.
Ceiling(n, a) == CHOOSE m \in n .. n + a - 1 : IsMultiple(m, a)

\* The bytes of one block, counted from its start, when nothing overflows.
IdealStride(a) ==
    LET alignment == Greater(a.requested_alignment, a.free_node_size)
        payload == Ceiling(Greater(a.requested_block_size, a.free_node_size), alignment)
        front == Ceiling(Greater(a.guard_size, a.free_node_size), alignment)
    IN  IF a.guard_bytes THEN Ceiling(front + payload + a.guard_size, alignment) ELSE payload

\* make_block_layout refuses a slab exactly when it does not fit a size_t:
\* no intermediate check refuses one that fits, none lets one through.
RefusesExactlyOverflow ==
    outcome \in {"ok", "length_error"} =>
        (outcome = "ok" <=> IdealStride(arguments) * arguments.block_count <= SizeMax)

\* In every accepted layout each block keeps to itself: its FreeNode and its
\* payload are aligned, the payload is as large as asked for, and neither the
\* canaries nor the link of a guarded block reach into the payload or out of
\* the block, up to the last byte of the slab.
LayoutSound == outcome = "ok" =>
    \A i \in 0 .. arguments.block_count - 1 :
        LET raw == i * layout.block_stride
            payload == raw + layout.payload_offset
            end == payload + layout.block_size
            next == raw + layout.block_stride
            guard == IF arguments.guard_bytes THEN arguments.guard_size ELSE 0
        IN  /\ IsMultiple(payload, arguments.requested_alignment)
            /\ IsMultiple(raw, arguments.free_node_size)
            /\ layout.block_size >= arguments.requested_block_size
            /\ raw <= payload - guard /\ end + guard <= next
            /\ raw + arguments.free_node_size <= IF arguments.guard_bytes THEN payload ELSE end
            /\ next <= layout.storage_size /\ layout.storage_size <= SizeMax

\* block_index accepts the payload starts of the blocks and no other pointer of
\* the slab, and finds the block the payload belongs to.
IndexExact == pointer # NotABlock =>
    IF index = NotABlock
    THEN \A i \in 0 .. arguments.block_count - 1 : pointer # i * layout.block_stride + layout.payload_offset
    ELSE index < arguments.block_count /\ pointer = index * layout.block_stride + layout.payload_offset
==============================================================================
