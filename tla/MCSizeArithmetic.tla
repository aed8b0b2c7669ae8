-------------------------- MODULE MCSizeArithmetic ---------------------------
(***************************************************************************)
(* Layouts for every argument of a size_t of six bits; selectors for every *)
(* vector of up to three values around the powers of two, sorted or not,   *)
(* and every request around them.                                          *)
(***************************************************************************)
EXTENDS SizeArithmetic

MCVectors == UNION {[1 .. n -> {0, 1, 2, 3, 4, 8, 12, 16}] : n \in 0 .. 3}
==============================================================================
