------------------------------- MODULE Powers --------------------------------
(***************************************************************************)
(* Powers of natural numbers, by recursion on the exponent: sizes that     *)
(* grow by a factor, and powers of two.  The provers know nothing of ^.    *)
(***************************************************************************)
EXTENDS Naturals

Power(base, n) ==
    LET power[k \in Nat] == IF k = 0 THEN 1 ELSE base * power[k - 1]
    IN  power[n]
==============================================================================
