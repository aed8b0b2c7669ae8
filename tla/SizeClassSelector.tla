-------------------------- MODULE SizeClassSelector --------------------------
(***************************************************************************)
(* A selector is built from a vector and then asked for requests.          *)
(***************************************************************************)
EXTENDS SizeClasses

CONSTANTS
    Vectors,   \* the vectors the constructor is given
    Sizes, Alignments

ASSUME SelectorAssumption == Vectors \subseteq Seq(Nat) /\ Sizes \subseteq Nat /\ Alignments \subseteq Nat

VARIABLES
    classes,   \* size_classes_, once it is accepted
    stage,     \* "new", "built" or "rejected"
    reply      \* the last request and what select() said

selectorVars == <<classes, stage, reply>>

NoAnswer == [request |-> [size |-> 0, alignment |-> 1], said |-> "nothing", index |-> 0]

SelectorInit == classes \in Vectors /\ stage = "new" /\ reply = NoAnswer

ConstructSelector ==
    /\ stage = "new"
    /\ stage' = IF ValidClasses(classes) THEN "built" ELSE "rejected"
    /\ UNCHANGED <<classes, reply>>

Select(q) ==
    /\ stage = "built"
    /\ reply' = IF ~ is_power_of_two(q.alignment)
                 THEN [request |-> q, said |-> "invalid", index |-> 0]
                 ELSE LET c == select(classes, q)
                      IN  [request |-> q, said |-> IF c = 0 THEN "fallback" ELSE "class", index |-> c]
    /\ UNCHANGED <<classes, stage>>

SelectorNext == ConstructSelector \/ \E q \in [size : Sizes, alignment : Alignments] : Select(q)

------------------------------------------------------------------------------
\* Blocks of class c hold q and, laid out from a multiple of c, are all aligned
\* for it.
Suits(c, q) == c >= q.size /\ c % q.alignment = 0

\* The binary search with the larger of size and alignment finds the smallest
\* class that suits the request, by size and by alignment, and the fallback is
\* taken only when no class does: at, below and above every class boundary,
\* for size zero and for alignments above the largest class.
SelectsSmallestSuitable ==
    LET q == reply.request
    IN  CASE reply.said = "class" ->
               /\ Suits(classes[reply.index], q)
               /\ \A i \in DOMAIN classes : Suits(classes[i], q) => classes[reply.index] <= classes[i]
          [] reply.said = "fallback" -> \A i \in DOMAIN classes : ~ Suits(classes[i], q)
          [] OTHER -> TRUE
==============================================================================
