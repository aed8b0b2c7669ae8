--------------------------- MODULE SizeArithmetic ----------------------------
(***************************************************************************)
(* The arithmetic on sizes and alignments that the allocators rest on: a   *)
(* program either lays out a pool and looks pointers up in it, or builds a *)
(* size class selector and asks it.                                        *)
(***************************************************************************)
EXTENDS BlockLayout, SizeClassSelector

NoArguments ==
    [requested_block_size |-> 0, block_count |-> 0, requested_alignment |-> 0,
     guard_bytes |-> FALSE, free_node_size |-> 1, guard_size |-> GuardSize]

SizeInit ==
    \/ LayoutInit /\ classes = <<>> /\ stage = "unused" /\ reply = NoAnswer
    \/ /\ SelectorInit
       /\ arguments = NoArguments /\ outcome = "unused" /\ layout = NoLayout
       /\ pointer = NotABlock /\ index = NotABlock

SizeNext ==
    \/ LayoutNext /\ UNCHANGED selectorVars
    \/ SelectorNext /\ UNCHANGED layoutVars

SizeSpec == SizeInit /\ [][SizeNext]_<<layoutVars, selectorVars>>
==============================================================================
