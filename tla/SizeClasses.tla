----------------------------- MODULE SizeClasses -----------------------------
(***************************************************************************)
(* SizeClassSelector as operators: which vectors of classes its            *)
(* constructor accepts, and the class select() routes a request to.        *)
(***************************************************************************)
EXTENDS Integers, Sequences, Powers

CONSTANT PointerSize   \* sizeof(void*)

is_power_of_two(value) == \E k \in 0 .. value : value = Power(2, k)

Larger(m, n) == IF m >= n THEN m ELSE n
Size(q) == Larger(q.size, 1)

\* The vectors the constructor does not throw on.
ValidClasses(classes) ==
    /\ classes # <<>>
    /\ \A i \in DOMAIN classes : is_power_of_two(classes[i]) /\ classes[i] >= PointerSize
    /\ \A i \in 2 .. Len(classes) : classes[i] > classes[i - 1]

\* std::lower_bound: halve the range until it is empty.
lower_bound(classes, value) ==
    LET end == Len(classes) + 1
        ranges == {r \in (1 .. end) \X (0 .. end - 1) : r[1] + r[2] <= end}
        find[r \in ranges] ==
          LET first == r[1]
              count == r[2]
              half == count \div 2
          IN  IF count = 0 THEN first
              ELSE IF classes[first + half] < value
                   THEN find[<<first + half + 1, count - half - 1>>]
                   ELSE find[<<first, half>>]
    IN  find[<<1, Len(classes)>>]

\* Mutant: the alignment is not taken into account.
SelectBySize(classes, q) ==
    LET selected == lower_bound(classes, Size(q))
    IN  IF selected = Len(classes) + 1 THEN 0 ELSE selected

\* The index of the class that serves q, or 0 for the fallback.  select()
\* throws, and is not called here, when the alignment is not a power of two.
select(classes, q) ==
    LET selected == lower_bound(classes, Larger(Size(q), q.alignment))
    IN  IF selected = Len(classes) + 1 THEN 0 ELSE selected
==============================================================================
