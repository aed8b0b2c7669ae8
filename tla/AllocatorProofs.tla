--------------------------- MODULE AllocatorProofs ---------------------------
(***************************************************************************)
(* The layout of a slab, for a size_t of any width.  Then the allocators   *)
(* over the pools, for any classes, slabs, requests and callers:           *)
(* SegregatedAllocator and the memory resources built on it, and the       *)
(* choice of a class for a request.                                        *)
(***************************************************************************)
EXTENDS PoolResources, SizeArithmetic, ArithmeticLemmas

------------------------------------------------------------------------------
(* BlockLayout: rounding up.                                               *)

RoundedUp(n, a) == (n + a - 1) - ((n + a - 1) % a)

\* The first multiple from n on.
LEMMA FirstMultiple ==
  ASSUME NEW n \in Nat, NEW a \in Nat \ {0}
  PROVE  /\ RoundedUp(n, a) \in n .. n + a - 1 /\ Multiple(RoundedUp(n, a), a)
         /\ Ceiling(n, a) = RoundedUp(n, a)
<1>1. PICK x, r : x = n + a - 1 /\ r = x % a
  BY Zenon
<1>2. x \in Nat /\ r \in 0 .. a - 1
  BY <1>1
<1>3. PICK q : q = x \div a /\ q \in Nat /\ x = q * a + r
  BY <1>1, <1>2
<1>4. PICK c : c = RoundedUp(n, a) /\ c = q * a /\ c \in n .. n + a - 1
  BY <1>1, <1>2, <1>3 DEF RoundedUp
<1>5. c \in Nat /\ Multiple(c, a)
  BY <1>3, <1>4 DEF Multiple
<1>6. \A m \in n .. n + a - 1 : IsMultiple(m, a) => m = c
  <2> SUFFICES ASSUME NEW m \in n .. n + a - 1, IsMultiple(m, a) PROVE m = c
    BY Zenon
  <2>1. m \in Nat /\ Multiple(m, a)
    BY MultipleIff DEF IsMultiple
  <2>2. m < c => m + a <= c
    BY <1>5, <2>1, MultipleFacts, Zenon
  <2>3. c < m => c + a <= m
    BY <1>5, <2>1, MultipleFacts, Zenon
  <2> QED BY <1>4, <1>5, <2>1, <2>2, <2>3
<1>7. IsMultiple(c, a)
  BY <1>5, MultipleIff, Zenon DEF IsMultiple
<1>8. Ceiling(n, a) = c
  BY <1>4, <1>6, <1>7, Zenon DEF Ceiling
<1> QED BY <1>4, <1>5, <1>8, Zenon

LEMMA WidthFacts ==
  /\ SizeMax \in Nat /\ SizeMax >= 1 /\ SizeMax + 1 = Two(Width) /\ Width \in Nat
  /\ \A n : ValidAlignment(n) => n \in 1 .. SizeMax /\ Multiple(SizeMax + 1, n)
<1>1. Width \in Nat \ {0}
  BY LayoutAssumption, Zenon
<1>2. PICK v : v = Two(Width) /\ v \in Nat \ {0}
  BY <1>1, TwoFacts, Zenon
<1>3. SizeMax = v - 1
  BY <1>2, Zenon DEF SizeMax, Two
<1>4. PICK u : u = Two(Width - 1) /\ u \in Nat \ {0} /\ v = 2 * u
  <2>1. Width - 1 \in Nat /\ (Width - 1) + 1 = Width
    BY <1>1
  <2> QED BY <1>2, <2>1, TwoFacts, Zenon
<1>5. SizeMax \in Nat /\ SizeMax >= 1 /\ SizeMax + 1 = v
  BY <1>2, <1>3, <1>4
<1>6. ASSUME NEW n, ValidAlignment(n) PROVE n \in 1 .. SizeMax /\ Multiple(SizeMax + 1, n)
  <2>1. PICK k \in 0 .. Width - 1 : n = Two(k)
    BY <1>6, Zenon DEF ValidAlignment, Two
  <2>2. k \in Nat /\ Width - 1 \in Nat /\ k <= Width - 1 /\ k <= Width /\ Width \in Nat
    BY <1>1, <2>1
  <2>3. n \in Nat \ {0} /\ n <= u /\ Multiple(v, n)
    BY <1>2, <1>4, <2>1, <2>2, TwoFacts, TwoDivides, Zenon
  <2> QED BY <1>4, <1>5, <2>3
<1> QED BY <1>1, <1>2, <1>5, <1>6, Zenon

\* round_up, behind its check, rounds up; where the check refuses, the result
\* would not fit, because the alignment divides 2^Width.
LEMMA RoundUpExact ==
  ASSUME NEW n \in Nat, NEW a \in Nat \ {0}, ValidAlignment(a)
  PROVE  /\ ~ round_up_overflows(n, a) => round_up(n, a) = Ceiling(n, a) /\ Ceiling(n, a) <= SizeMax
         /\ round_up_overflows(n, a) => Ceiling(n, a) > SizeMax
<1>1. n \in Nat /\ SizeMax \in Nat /\ a \in 1 .. SizeMax /\ Multiple(SizeMax + 1, a)
  BY WidthFacts
<1>2. PICK c : /\ c = Ceiling(n, a) /\ c = RoundedUp(n, a)
               /\ c \in n .. n + a - 1 /\ Multiple(c, a)
  BY <1>1, FirstMultiple, Zenon
<1>3. ASSUME ~ round_up_overflows(n, a) PROVE round_up(n, a) = c /\ c <= SizeMax
  <2>1. n + a - 1 \in 0 .. SizeMax
    BY <1>1, <1>3 DEF round_up_overflows
  <2>2. Wrap(n + a - 1) = n + a - 1
    BY <1>1, <2>1 DEF Wrap
  <2>3. round_up(n, a) = c
    BY <1>2, <2>2, Zenon DEF round_up, RoundedUp
  <2> QED BY <1>1, <1>2, <2>1, <2>3
<1>4. ASSUME round_up_overflows(n, a) PROVE c > SizeMax
  <2>1. c \in Nat /\ SizeMax + 1 \in Nat /\ n > SizeMax - (a - 1)
    BY <1>1, <1>2, <1>4 DEF round_up_overflows
  <2>2. c < SizeMax + 1 => c + a <= SizeMax + 1
    BY <1>1, <1>2, <2>1, MultipleFacts, Zenon
  <2> QED BY <1>1, <1>2, <2>1, <2>2
<1> QED BY <1>2, <1>3, <1>4, Zenon

------------------------------------------------------------------------------
(* make_block_layout, one value after the other.                           *)

Align(a) == Greater(a.requested_alignment, a.free_node_size)
PayloadSize(a) == Greater(a.requested_block_size, a.free_node_size)
Header(a) == Greater(a.guard_size, a.free_node_size)
Rounded(a) == round_up(PayloadSize(a), Align(a))
Offset(a) == IF a.guard_bytes THEN round_up(Header(a), Align(a)) ELSE 0
PayloadEnd(a) == Wrap(Offset(a) + Rounded(a))
GuardEnd(a) == Wrap(PayloadEnd(a) + a.guard_size)
Stride(a) == IF a.guard_bytes THEN round_up(GuardEnd(a), Align(a)) ELSE Rounded(a)

LEMMA LayoutValues ==
  ASSUME NEW a
  PROVE  /\ make_block_layout(a).overflows <=>
              \/ round_up_overflows(PayloadSize(a), Align(a))
              \/ a.guard_bytes /\ \/ round_up_overflows(Header(a), Align(a))
                                  \/ add_overflows(Offset(a), Rounded(a))
                                  \/ add_overflows(PayloadEnd(a), a.guard_size)
                                  \/ round_up_overflows(GuardEnd(a), Align(a))
              \/ multiply_overflows(Stride(a), a.block_count)
         /\ make_block_layout(a).layout =
              [block_size |-> Rounded(a), alignment |-> Align(a), payload_offset |-> Offset(a),
               block_stride |-> Stride(a), storage_size |-> Wrap(Stride(a) * a.block_count)]
  BY Zenon DEF make_block_layout, Align, PayloadSize, Header, Rounded, Offset, PayloadEnd, GuardEnd, Stride

LEMMA ArgumentFacts ==
  ASSUME NEW a \in Arguments, Valid(a)
  PROVE  /\ a.requested_block_size \in Nat /\ a.block_count \in Nat \ {0} /\ a.guard_size \in Nat
         /\ a.requested_alignment \in Nat \ {0} /\ a.free_node_size \in Nat \ {0}
         /\ Align(a) \in Nat \ {0} /\ ValidAlignment(Align(a))
         /\ Multiple(Align(a), a.requested_alignment) /\ Multiple(Align(a), a.free_node_size)
         /\ PayloadSize(a) \in Nat \ {0} /\ Header(a) \in Nat \ {0}
         /\ PayloadSize(a) >= a.requested_block_size /\ PayloadSize(a) >= a.free_node_size
         /\ Header(a) >= a.guard_size /\ Header(a) >= a.free_node_size
<1>1. PICK n, r : n = a.free_node_size /\ r = a.requested_alignment
  BY Zenon
<1>2. ValidAlignment(n) /\ ValidAlignment(r)
  BY <1>1, LayoutAssumption, Zenon DEF Arguments, Valid
<1>3. n \in 1 .. SizeMax /\ r \in 1 .. SizeMax /\ SizeMax \in Nat
  BY <1>2, WidthFacts, Zenon
<1>4. n \in Nat \ {0} /\ r \in Nat \ {0}
  BY <1>3
<1>5. /\ a.requested_block_size \in 0 .. SizeMax /\ a.block_count \in 0 .. SizeMax
      /\ a.block_count # 0 /\ a.guard_size \in Nat
  BY LayoutAssumption, Zenon DEF Arguments, Valid
<1>6. /\ a.requested_block_size \in Nat /\ a.block_count \in Nat \ {0} /\ a.guard_size \in Nat
  BY <1>3, <1>5
<1>7. (n <= r => Multiple(r, n)) /\ (r <= n => Multiple(n, r)) /\ Multiple(n, n) /\ Multiple(r, r)
  <2>1. PICK i \in 0 .. Width - 1, j \in 0 .. Width - 1 : n = Two(i) /\ r = Two(j)
    BY <1>2, Zenon DEF ValidAlignment, Two
  <2>2. i \in Nat /\ j \in Nat
    BY WidthFacts, <2>1
  <2> QED BY <1>4, <2>1, <2>2, TwoDivides, MultipleFacts, Zenon
<1>8. PICK al : al = Align(a) /\ ((al = r /\ n <= r) \/ (al = n /\ r <= n))
  <2>1. Align(a) = IF r >= n THEN r ELSE n
    BY <1>1, Zenon DEF Align, Greater
  <2> QED BY <1>4, <2>1
<1>9. al \in Nat \ {0} /\ ValidAlignment(al) /\ Multiple(al, r) /\ Multiple(al, n)
  BY <1>2, <1>4, <1>7, <1>8, Zenon
<1>10. /\ PayloadSize(a) \in Nat \ {0} /\ PayloadSize(a) >= a.requested_block_size /\ PayloadSize(a) >= n
  BY <1>1, <1>4, <1>6 DEF PayloadSize, Greater
<1>11. /\ Header(a) \in Nat \ {0} /\ Header(a) >= a.guard_size /\ Header(a) >= n
  BY <1>1, <1>4, <1>6 DEF Header, Greater
<1> QED BY <1>1, <1>4, <1>6, <1>8, <1>9, <1>10, <1>11, Zenon

\* What an accepted layout is like, for al = the alignment, p and h the payload
\* and the header before rounding, b, o, s and t the block, the offset, the stride
\* and the whole slab.
Accepted(a, al, p, h, b, o, s, t) ==
    /\ Multiple(b, al) /\ b >= p /\ Multiple(o, al) /\ Multiple(s, al)
    /\ IF a.guard_bytes THEN o >= h /\ o + b + a.guard_size <= s ELSE o = 0 /\ s = b
    /\ t = s * a.block_count /\ t <= SizeMax
    /\ b \in Nat /\ o \in Nat /\ s \in Nat /\ t \in Nat

LEMMA CeilingFacts ==
  ASSUME NEW n \in Nat, NEW al \in Nat \ {0}
  PROVE  Ceiling(n, al) \in Nat /\ Ceiling(n, al) >= n /\ Multiple(Ceiling(n, al), al)
<1>1. PICK c : c = Ceiling(n, al) /\ c \in n .. n + al - 1 /\ Multiple(c, al)
  BY FirstMultiple, Zenon
<1> QED BY <1>1

LEMMA WrapFacts ==
  ASSUME NEW n \in Nat, n <= SizeMax PROVE Wrap(n) = n
<1>1. SizeMax \in Nat
  BY WidthFacts
<1> QED BY <1>1 DEF Wrap

\* The last check is the product with the number of blocks.
LEMMA SlabExact ==
  ASSUME NEW s \in Nat, s <= SizeMax, NEW n \in Nat \ {0}
  PROVE  /\ multiply_overflows(s, n) <=> s * n > SizeMax
         /\ s * n \in Nat
         /\ ~ multiply_overflows(s, n) => Wrap(s * n) = s * n
<1>1. SizeMax \in Nat /\ SizeMax \div n \in Nat /\ s * n \in Nat /\ n # 0
  BY WidthFacts
<1>2. s * n <= SizeMax <=> s <= SizeMax \div n
  BY <1>1, FitsIff, Zenon
<1>3. multiply_overflows(s, n) <=> s * n > SizeMax
  BY <1>1, <1>2 DEF multiply_overflows
<1> QED BY <1>1, <1>3, WrapFacts

LEMMA TooLarge ==
  ASSUME NEW s \in Nat, s > SizeMax, NEW n \in Nat \ {0}
  PROVE  s * n > SizeMax
<1>1. 1 * s <= n * s /\ n * s = s * n /\ n * s \in Nat /\ SizeMax \in Nat
  BY Monotone, WidthFacts
<1> QED BY <1>1

LEMMA PlainLayout ==
  ASSUME NEW a \in Arguments, Valid(a), ~ a.guard_bytes
  PROVE  /\ make_block_layout(a).overflows <=> IdealStride(a) * a.block_count > SizeMax
         /\ ~ make_block_layout(a).overflows =>
              Accepted(a, Align(a), PayloadSize(a), Header(a), Rounded(a), Offset(a), Stride(a),
                       Wrap(Stride(a) * a.block_count))
<1>1. PICK al, p, n, c : al = Align(a) /\ p = PayloadSize(a) /\ n = a.block_count /\ c = Ceiling(p, al)
  BY Zenon
<1>2. al \in Nat \ {0} /\ ValidAlignment(al) /\ p \in Nat /\ n \in Nat \ {0} /\ Multiple(0, al)
  BY <1>1, ArgumentFacts, MultipleFacts, Zenon
<1>3. c \in Nat /\ c >= p /\ Multiple(c, al)
  BY <1>1, <1>2, CeilingFacts, Zenon
<1>4. IdealStride(a) = c /\ Stride(a) = Rounded(a) /\ Offset(a) = 0 /\ Rounded(a) = round_up(p, al)
  BY <1>1, Zenon DEF IdealStride, Align, PayloadSize, Stride, Offset, Rounded
<1>5. make_block_layout(a).overflows <=> round_up_overflows(p, al) \/ multiply_overflows(Stride(a), n)
  BY <1>1, LayoutValues, Zenon
<1>6. CASE round_up_overflows(p, al)
  <2>1. c * n > SizeMax
    BY <1>1, <1>2, <1>3, <1>6, RoundUpExact, TooLarge, Zenon
  <2> QED BY <1>1, <1>4, <1>5, <1>6, <2>1, Zenon
<1>7. CASE ~ round_up_overflows(p, al)
  <2>1. round_up(p, al) = c /\ c <= SizeMax
    BY <1>1, <1>2, <1>7, RoundUpExact, Zenon
  <2>2. /\ multiply_overflows(c, n) <=> c * n > SizeMax
        /\ c * n \in Nat
        /\ ~ multiply_overflows(c, n) => Wrap(c * n) = c * n
    BY <1>2, <1>3, <2>1, SlabExact, Zenon
  <2>3. make_block_layout(a).overflows <=> c * n > SizeMax
    BY <1>4, <1>5, <1>7, <2>1, <2>2, Zenon
  <2>4. ASSUME ~ (c * n > SizeMax) PROVE Accepted(a, al, p, Header(a), c, 0, c, Wrap(c * n))
    <3>1. c * n <= SizeMax
      BY <2>2, <2>4, WidthFacts
    <3>2. 0 \in Nat
      OBVIOUS
    <3> QED BY <1>1, <1>2, <1>3, <2>2, <2>4, <3>1, <3>2, Zenon DEF Accepted
  <2> QED BY <1>1, <1>4, <2>1, <2>3, <2>4, Zenon
<1> QED BY <1>6, <1>7, Zenon

LEMMA GuardedLayout ==
  ASSUME NEW a \in Arguments, Valid(a), a.guard_bytes
  PROVE  /\ make_block_layout(a).overflows <=> IdealStride(a) * a.block_count > SizeMax
         /\ ~ make_block_layout(a).overflows =>
              Accepted(a, Align(a), PayloadSize(a), Header(a), Rounded(a), Offset(a), Stride(a),
                       Wrap(Stride(a) * a.block_count))
<1>1. PICK al, p, h, n, g, c, f :
         /\ al = Align(a) /\ p = PayloadSize(a) /\ h = Header(a) /\ n = a.block_count /\ g = a.guard_size
         /\ c = Ceiling(p, al) /\ f = Ceiling(h, al)
  BY Zenon
<1>2. /\ al \in Nat \ {0} /\ ValidAlignment(al) /\ p \in Nat /\ h \in Nat /\ n \in Nat \ {0}
      /\ g \in Nat
  BY <1>1, ArgumentFacts, Zenon
<1>3. c \in Nat /\ c >= p /\ Multiple(c, al) /\ f \in Nat /\ f >= h /\ Multiple(f, al)
  BY <1>1, <1>2, CeilingFacts, Zenon
<1>4. PICK e, d : /\ e = f + c + g /\ e \in Nat /\ d = Ceiling(e, al)
                  /\ d \in Nat /\ d >= e /\ Multiple(d, al)
  <2>1. f + c + g \in Nat
    BY <1>2, <1>3
  <2> QED BY <1>2, <2>1, CeilingFacts, Zenon
<1>5. IdealStride(a) = d
  BY <1>1, <1>4, Zenon DEF IdealStride, Align, PayloadSize, Header
<1>6. /\ Rounded(a) = round_up(p, al) /\ Offset(a) = round_up(h, al)
      /\ Stride(a) = round_up(GuardEnd(a), al)
  BY <1>1, Zenon DEF Rounded, Offset, Stride
<1>7. make_block_layout(a).overflows <=>
         \/ round_up_overflows(p, al) \/ round_up_overflows(h, al)
         \/ add_overflows(Offset(a), Rounded(a)) \/ add_overflows(PayloadEnd(a), g)
         \/ round_up_overflows(GuardEnd(a), al) \/ multiply_overflows(Stride(a), n)
  BY <1>1, LayoutValues, Zenon
<1>8. SizeMax \in Nat
  BY WidthFacts
<1>9. ASSUME d > SizeMax, make_block_layout(a).overflows
      PROVE  make_block_layout(a).overflows /\ IdealStride(a) * a.block_count > SizeMax
  BY <1>1, <1>2, <1>4, <1>5, <1>9, TooLarge, Zenon
<1>10. CASE round_up_overflows(p, al) \/ round_up_overflows(h, al)
  <2>1. c > SizeMax \/ f > SizeMax
    BY <1>1, <1>2, <1>10, RoundUpExact, Zenon
  <2>2. d > SizeMax
    BY <1>2, <1>3, <1>4, <1>8, <2>1
  <2> QED BY <1>7, <1>9, <1>10, <2>2, Zenon
<1>11. CASE ~ round_up_overflows(p, al) /\ ~ round_up_overflows(h, al)
  <2>1. Rounded(a) = c /\ c <= SizeMax /\ Offset(a) = f /\ f <= SizeMax
    BY <1>1, <1>2, <1>6, <1>11, RoundUpExact, Zenon
  <2>2. add_overflows(f, c) <=> f + c > SizeMax
    BY <1>3, <1>8 DEF add_overflows
  <2>3. CASE f + c > SizeMax
    <3>1. d > SizeMax
      BY <1>2, <1>3, <1>4, <1>8, <2>3
    <3> QED BY <1>7, <1>9, <2>1, <2>2, <2>3, <3>1, Zenon
  <2>4. CASE ~ (f + c > SizeMax)
    <3>1. f + c \in Nat /\ f + c <= SizeMax
      BY <1>3, <1>8, <2>4
    <3>2. PayloadEnd(a) = f + c
      BY <2>1, <3>1, WrapFacts, Zenon DEF PayloadEnd
    <3>3. add_overflows(f + c, g) <=> e > SizeMax
      BY <1>2, <1>3, <1>4, <1>8 DEF add_overflows
    <3>4. CASE e > SizeMax
      <4>1. d > SizeMax
        BY <1>4, <1>8, <3>4
      <4> QED BY <1>7, <1>9, <3>2, <3>3, <3>4, <4>1, Zenon
    <3>5. CASE ~ (e > SizeMax)
      <4>1. e <= SizeMax
        BY <1>4, <1>8, <3>5
      <4>2. GuardEnd(a) = e
        BY <1>1, <1>4, <3>2, <4>1, WrapFacts, Zenon DEF GuardEnd
      <4>3. CASE round_up_overflows(e, al)
        <5>1. d > SizeMax
          BY <1>2, <1>4, <4>3, RoundUpExact, Zenon
        <5> QED BY <1>7, <1>9, <4>2, <4>3, <5>1, Zenon
      <4>4. CASE ~ round_up_overflows(e, al)
        <5>1. Stride(a) = d /\ d <= SizeMax
          BY <1>2, <1>4, <1>6, <4>2, <4>4, RoundUpExact, Zenon
        <5>2. /\ multiply_overflows(d, n) <=> d * n > SizeMax
              /\ d * n \in Nat
              /\ ~ multiply_overflows(d, n) => Wrap(d * n) = d * n
          BY <1>2, <1>4, <5>1, SlabExact, Zenon
        <5>3. make_block_layout(a).overflows <=> d * n > SizeMax
          BY <1>7, <1>11, <2>1, <2>2, <2>4, <3>2, <3>3, <3>5, <4>2, <4>4, <5>1, <5>2, Zenon
        <5>4. ASSUME ~ (d * n > SizeMax) PROVE Accepted(a, al, p, h, c, f, d, Wrap(d * n))
          <6>1. d * n <= SizeMax
            BY <1>8, <5>2, <5>4
          <6> QED BY <1>1, <1>3, <1>4, <5>2, <5>4, <6>1, Zenon DEF Accepted
        <5> QED BY <1>1, <1>5, <2>1, <5>1, <5>3, <5>4, Zenon
      <4> QED BY <4>3, <4>4, Zenon
    <3> QED BY <3>4, <3>5, Zenon
  <2> QED BY <2>3, <2>4, Zenon
<1> QED BY <1>10, <1>11, Zenon

LEMMA LayoutExact ==
  ASSUME NEW a \in Arguments, Valid(a)
  PROVE  /\ make_block_layout(a).overflows <=> IdealStride(a) * a.block_count > SizeMax
         /\ ~ make_block_layout(a).overflows =>
              Accepted(a, Align(a), PayloadSize(a), Header(a), Rounded(a), Offset(a), Stride(a),
                       Wrap(Stride(a) * a.block_count))
  BY PlainLayout, GuardedLayout, Zenon

LEMMA IdealType ==
  ASSUME NEW a \in Arguments, Valid(a)
  PROVE  IdealStride(a) * a.block_count \in Nat
<1>1. PICK c, f : c = Ceiling(PayloadSize(a), Align(a)) /\ f = Ceiling(Header(a), Align(a))
  BY Zenon
<1>2. /\ c \in Nat /\ f \in Nat /\ a.guard_size \in Nat /\ Align(a) \in Nat \ {0} /\ a.block_count \in Nat
  BY <1>1, ArgumentFacts, CeilingFacts, Zenon
<1>3. IdealStride(a) = IF a.guard_bytes THEN Ceiling(f + c + a.guard_size, Align(a)) ELSE c
  BY <1>1, Zenon DEF IdealStride, Align, PayloadSize, Header
<1>4. f + c + a.guard_size \in Nat
  BY <1>2
<1>5. IdealStride(a) \in Nat
  BY <1>2, <1>3, <1>4, CeilingFacts, Zenon
<1> QED BY <1>2, <1>5

\* A program makes one layout and then looks pointers up in it.
Looked(p) == IF is_block_start(p) THEN (p - layout.payload_offset) \div layout.block_stride ELSE NotABlock

LayoutInvariant ==
    /\ outcome \in {"none", "ok", "invalid_argument", "length_error", "unused"}
    /\ outcome # "unused" => arguments \in Arguments
    /\ outcome = "ok" => /\ Valid(arguments) /\ ~ make_block_layout(arguments).overflows
                         /\ layout = make_block_layout(arguments).layout
    /\ outcome = "length_error" => Valid(arguments) /\ make_block_layout(arguments).overflows
    /\ outcome # "ok" => pointer = NotABlock
    /\ pointer # NotABlock => pointer \in 0 .. SizeMax /\ index = Looked(pointer)

LEMMA LayoutStart == SizeInit => LayoutInvariant
  BY DEF SizeInit, LayoutInit, LayoutInvariant

LEMMA MakeLayoutKeeps ==
  ASSUME LayoutInvariant, MakeLayout PROVE LayoutInvariant'
<1>1. /\ outcome = "none" /\ arguments \in Arguments /\ pointer = NotABlock
      /\ UNCHANGED <<arguments, pointer, index>>
  BY DEF MakeLayout, LayoutInvariant
<1>2. /\ outcome' = IF ~ Valid(arguments) THEN "invalid_argument"
                    ELSE IF make_block_layout(arguments).overflows THEN "length_error" ELSE "ok"
      /\ outcome' = "ok" => layout' = make_block_layout(arguments).layout
  BY Zenon DEF MakeLayout
<1> HIDE DEF make_block_layout, Valid
<1>3. /\ outcome' \in {"none", "ok", "invalid_argument", "length_error", "unused"}
      /\ outcome' = "ok" => Valid(arguments) /\ ~ make_block_layout(arguments).overflows
      /\ outcome' = "length_error" => Valid(arguments) /\ make_block_layout(arguments).overflows
  BY <1>2
<1> QED BY <1>1, <1>2, <1>3, Zenon DEF LayoutInvariant

LEMMA LookupKeeps ==
  ASSUME LayoutInvariant, NEW p \in 0 .. SizeMax, block_index(p) PROVE LayoutInvariant'
<1>1. /\ outcome = "ok" /\ pointer' = p /\ index' = Looked(p) /\ UNCHANGED <<arguments, outcome, layout>>
  BY Zenon DEF block_index, Looked
<1>2. Looked(p) = Looked(pointer)'
  BY <1>1, Zenon DEF Looked, is_block_start, owns
<1> QED BY <1>1, <1>2, Zenon DEF LayoutInvariant

LEMMA NextKeepsLayout ==
  LayoutInvariant /\ [SizeNext]_<<layoutVars, selectorVars>> => LayoutInvariant'
<1> SUFFICES ASSUME LayoutInvariant, [SizeNext]_<<layoutVars, selectorVars>> PROVE LayoutInvariant'
  BY Zenon
<1>1. CASE UNCHANGED layoutVars
  <2>1. UNCHANGED <<arguments, outcome, layout, pointer, index>>
    BY <1>1, Zenon DEF layoutVars
  <2>2. Looked(pointer)' = Looked(pointer)
    BY <2>1, Zenon DEF Looked, is_block_start, owns
  <2> QED BY <2>1, <2>2, Zenon DEF LayoutInvariant
<1> QED BY <1>1, MakeLayoutKeeps, LookupKeeps, Zenon DEF SizeNext, LayoutNext

\* The layout is what make_block_layout computed from valid arguments, and the
\* last answer of block_index is the one it gives for that pointer.
THEOREM LayoutInvariantHolds == SizeSpec => []LayoutInvariant
  BY LayoutStart, NextKeepsLayout, PTL DEF SizeSpec

LEMMA RefusesWhenLayout == LayoutInvariant => RefusesExactlyOverflow
<1> SUFFICES ASSUME LayoutInvariant, outcome \in {"ok", "length_error"}
             PROVE  outcome = "ok" <=> IdealStride(arguments) * arguments.block_count <= SizeMax
  BY Zenon DEF RefusesExactlyOverflow
<1>1. arguments \in Arguments /\ Valid(arguments)
  BY DEF LayoutInvariant
<1>2. PICK x : x = IdealStride(arguments) * arguments.block_count /\ x \in Nat
  BY <1>1, IdealType, Zenon
<1>3. make_block_layout(arguments).overflows <=> x > SizeMax
  BY <1>1, <1>2, LayoutExact, Zenon
<1>4. outcome = "ok" <=> ~ make_block_layout(arguments).overflows
  <2> HIDE DEF make_block_layout
  <2> QED BY DEF LayoutInvariant
<1>5. x > SizeMax <=> ~ (x <= SizeMax)
  BY <1>2, WidthFacts
<1> QED BY <1>2, <1>3, <1>4, <1>5, Zenon

\* The layout of an accepted request, by its parts.
LEMMA AcceptedFacts ==
  ASSUME LayoutInvariant, outcome = "ok"
  PROVE  \E al, p, h, b, o, s, t :
           /\ Accepted(arguments, al, p, h, b, o, s, t)
           /\ al = Align(arguments) /\ p = PayloadSize(arguments) /\ h = Header(arguments)
           /\ layout = [block_size |-> b, alignment |-> al, payload_offset |-> o, block_stride |-> s, storage_size |-> t]
           /\ arguments \in Arguments /\ Valid(arguments)
<1>1. arguments \in Arguments /\ Valid(arguments) /\ ~ make_block_layout(arguments).overflows
      /\ layout = make_block_layout(arguments).layout
  BY Zenon DEF LayoutInvariant
<1>2. Accepted(arguments, Align(arguments), PayloadSize(arguments), Header(arguments), Rounded(arguments),
               Offset(arguments), Stride(arguments), Wrap(Stride(arguments) * arguments.block_count))
  BY <1>1, LayoutExact, Zenon
<1>3. layout = [block_size |-> Rounded(arguments), alignment |-> Align(arguments),
                payload_offset |-> Offset(arguments), block_stride |-> Stride(arguments),
                storage_size |-> Wrap(Stride(arguments) * arguments.block_count)]
  BY <1>1, LayoutValues, Zenon
<1> QED BY <1>1, <1>2, <1>3, Zenon

LEMMA LayoutIsSound == LayoutInvariant => LayoutSound
<1> SUFFICES ASSUME LayoutInvariant, outcome = "ok", NEW i \in 0 .. arguments.block_count - 1
             PROVE  LET raw == i * layout.block_stride
                        payload == raw + layout.payload_offset
                        end == payload + layout.block_size
                        next == raw + layout.block_stride
                        guard == IF arguments.guard_bytes THEN arguments.guard_size ELSE 0
                    IN  /\ IsMultiple(payload, arguments.requested_alignment)
                        /\ IsMultiple(raw, arguments.free_node_size)
                        /\ layout.block_size >= arguments.requested_block_size
                        /\ raw <= payload - guard /\ end + guard <= next
                        /\ raw + arguments.free_node_size <= IF arguments.guard_bytes THEN payload ELSE end
                        /\ next <= layout.storage_size /\ layout.storage_size <= SizeMax
  BY Zenon DEF LayoutSound
<1>1. PICK al, p, h, b, o, s, t :
           /\ Accepted(arguments, al, p, h, b, o, s, t)
           /\ al = Align(arguments) /\ p = PayloadSize(arguments) /\ h = Header(arguments)
           /\ layout = [block_size |-> b, alignment |-> al, payload_offset |-> o, block_stride |-> s, storage_size |-> t]
           /\ arguments \in Arguments /\ Valid(arguments)
  BY AcceptedFacts, Zenon
<1>2. PICK n, g, r, f, q : /\ n = arguments.block_count /\ g = arguments.guard_size /\ f = arguments.free_node_size
                           /\ r = arguments.requested_alignment /\ q = arguments.requested_block_size
  BY Zenon
<1>3. /\ q \in Nat /\ n \in Nat \ {0} /\ g \in Nat /\ r \in Nat \ {0} /\ f \in Nat \ {0} /\ al \in Nat \ {0}
      /\ Multiple(al, r) /\ Multiple(al, f) /\ p \in Nat \ {0} /\ h \in Nat \ {0}
      /\ p >= q /\ p >= f /\ h >= g /\ h >= f
  BY <1>1, <1>2, ArgumentFacts, Zenon
<1>4. /\ layout.block_size = b /\ layout.payload_offset = o /\ layout.block_stride = s /\ layout.storage_size = t
  BY <1>1
<1>5. /\ Multiple(b, al) /\ b >= p /\ Multiple(o, al) /\ Multiple(s, al)
      /\ IF arguments.guard_bytes THEN o >= h /\ o + b + g <= s ELSE o = 0 /\ s = b
      /\ t = s * n /\ t <= SizeMax
      /\ b \in Nat /\ o \in Nat /\ s \in Nat /\ t \in Nat
  BY <1>1, <1>2, Zenon DEF Accepted
<1>6. i \in Nat /\ i + 1 <= n
  BY <1>2, <1>3
<1>7. PICK raw, next : /\ raw = i * s /\ raw \in Nat /\ next = raw + s /\ next <= t
  <2>1. i * s \in Nat /\ (i + 1) * s <= n * s /\ (i + 1) * s = i * s + s /\ n * s = s * n
    BY <1>3, <1>5, <1>6, Monotone
  <2> QED BY <1>5, <2>1, Zenon
<1>8. IsMultiple(raw + o, r) /\ IsMultiple(raw, f)
  <2>0. raw + o \in Nat
    BY <1>5, <1>7
  <2>1. Multiple(raw, al) /\ raw + o \in Nat
    BY <1>3, <1>5, <1>6, <1>7, <2>0, MultipleFacts, Zenon
  <2>2. Multiple(raw + o, al)
    BY <1>3, <1>5, <1>7, <2>1, MultipleFacts, Zenon
  <2>3. Multiple(raw + o, r)
    BY <1>3, <2>1, <2>2, MultipleFacts, Zenon
  <2>4. Multiple(raw, f)
    BY <1>3, <1>7, <2>1, MultipleFacts, Zenon
  <2> QED BY <1>3, <1>7, <2>1, <2>3, <2>4, MultipleIff, Zenon DEF IsMultiple
<1>9. CASE arguments.guard_bytes
  <2>1. o >= h /\ o + b + g <= s
    BY <1>5, <1>9, Zenon
  <2>2. /\ b >= q /\ raw <= (raw + o) - g /\ ((raw + o) + b) + g <= next
        /\ raw + f <= raw + o
    BY <1>3, <1>5, <1>7, <2>1
  <2> QED BY <1>2, <1>4, <1>5, <1>7, <1>8, <1>9, <2>2, Zenon
<1>10. CASE ~ arguments.guard_bytes
  <2>1. o = 0 /\ s = b
    BY <1>5, <1>10, Zenon
  <2>2. /\ b >= q /\ raw <= (raw + o) - 0 /\ ((raw + o) + b) + 0 <= next
        /\ raw + f <= (raw + o) + b
    BY <1>3, <1>5, <1>7, <2>1
  <2> QED BY <1>2, <1>4, <1>5, <1>7, <1>8, <1>10, <2>2, Zenon
<1> QED BY <1>9, <1>10, Zenon

LEMMA IndexIsExact == LayoutInvariant => IndexExact
<1> SUFFICES ASSUME LayoutInvariant, pointer # NotABlock
             PROVE  IF index = NotABlock
                    THEN \A i \in 0 .. arguments.block_count - 1 :
                            pointer # i * layout.block_stride + layout.payload_offset
                    ELSE /\ index < arguments.block_count
                         /\ pointer = index * layout.block_stride + layout.payload_offset
  BY Zenon DEF IndexExact
<1>0. outcome = "ok" /\ pointer \in 0 .. SizeMax /\ index = Looked(pointer)
  BY Zenon DEF LayoutInvariant
<1>1. PICK al, p, h, b, o, s, t :
           /\ Accepted(arguments, al, p, h, b, o, s, t)
           /\ al = Align(arguments) /\ p = PayloadSize(arguments) /\ h = Header(arguments)
           /\ layout = [block_size |-> b, alignment |-> al, payload_offset |-> o, block_stride |-> s, storage_size |-> t]
           /\ arguments \in Arguments /\ Valid(arguments)
  BY <1>0, AcceptedFacts, Zenon
<1>2. PICK n, x : n = arguments.block_count /\ x = pointer
  BY Zenon
<1>3. layout.payload_offset = o /\ layout.block_stride = s /\ layout.storage_size = t
  BY <1>1
<1>4. /\ n \in Nat \ {0} /\ arguments.guard_size \in Nat /\ p \in Nat \ {0} /\ SizeMax \in Nat
  BY <1>1, <1>2, ArgumentFacts, WidthFacts, Zenon
<1>5. /\ b >= p /\ t = s * n /\ t <= SizeMax /\ b \in Nat /\ o \in Nat /\ s \in Nat /\ t \in Nat
      /\ IF arguments.guard_bytes THEN o + b + arguments.guard_size <= s ELSE o = 0 /\ s = b
  BY <1>1, <1>2, Zenon DEF Accepted
<1>6. s \in Nat \ {0} /\ o < s
  BY <1>4, <1>5
<1>7. x \in Nat /\ x <= SizeMax
  BY <1>0, <1>2, <1>4
<1>8. is_block_start(x) <=>
         /\ x \in 0 .. t - 1 /\ x >= o /\ Wrap(x - o) % s = 0 /\ Wrap(x - o) \div s < n
  BY <1>2, <1>3, Zenon DEF is_block_start, owns
<1>9. index = IF is_block_start(x) THEN (x - o) \div s ELSE NotABlock
  BY <1>0, <1>2, <1>3, Zenon DEF Looked
<1>10. x >= o => x - o \in Nat /\ Wrap(x - o) = x - o
  <2>1. x >= o => x - o \in Nat /\ x - o <= SizeMax
    BY <1>4, <1>5, <1>7
  <2> QED BY <2>1, WrapFacts, Zenon
<1>11. CASE is_block_start(x)
  <2>1. PICK d, k : d = x - o /\ d \in Nat /\ d % s = 0 /\ k = d \div s /\ k < n
    BY <1>8, <1>10, <1>11, Zenon
  <2>2. k \in Nat /\ d = k * s
    BY <1>6, <2>1
  <2>3. x = k * s + o
    BY <1>5, <1>7, <2>1, <2>2
  <2>4. index = k /\ index # NotABlock
    BY <1>9, <1>11, <2>1, <2>2 DEF NotABlock
  <2> QED BY <1>2, <1>3, <2>1, <2>3, <2>4, Zenon
<1>12. CASE ~ is_block_start(x)
  <2>1. index = NotABlock
    BY <1>9, <1>12, Zenon
  <2>2. ASSUME NEW i \in 0 .. n - 1, x = i * s + o PROVE FALSE
    <3>1. i \in Nat /\ i < n /\ i + 1 <= n
      BY <1>4
    <3>2. PICK d : d = i * s /\ d \in Nat /\ d + s <= t
      <4>1. i * s \in Nat /\ (i + 1) * s <= n * s /\ (i + 1) * s = i * s + s /\ n * s = s * n
        BY <1>4, <1>6, <3>1, Monotone
      <4> QED BY <1>5, <4>1, Zenon
    <3>3. d % s = 0 /\ d \div s = i
      <4>1. d % s = 0
        BY <1>6, <3>1, <3>2, MultipleIff, Zenon DEF Multiple
      <4>2. PICK k : k = d \div s /\ k \in Nat /\ d = k * s
        BY <1>6, <3>2, <4>1
      <4>3. (k + 1 <= i => (k + 1) * s <= i * s) /\ (i + 1 <= k => (i + 1) * s <= k * s)
        BY <1>6, <3>1, <4>2, Monotone
      <4>4. (k + 1) * s = k * s + s /\ (i + 1) * s = i * s + s
        BY <1>6, <3>1, <4>2
      <4>5. k = i
        BY <1>6, <3>1, <3>2, <4>2, <4>3, <4>4
      <4> QED BY <4>1, <4>2, <4>5, Zenon
    <3>4. x >= o /\ x - o = d /\ x \in 0 .. t - 1
      BY <1>5, <1>6, <2>2, <3>2
    <3>5. Wrap(x - o) % s = 0 /\ Wrap(x - o) \div s < n
      BY <1>10, <3>1, <3>3, <3>4, Zenon
    <3> QED BY <1>8, <1>12, <3>4, <3>5, Zenon
  <2> QED BY <1>2, <1>3, <2>1, <2>2, Zenon
<1> QED BY <1>11, <1>12, Zenon

\* make_block_layout refuses a slab exactly when it does not fit a size_t of any
\* width, whatever its size, alignment, count and canaries.
THEOREM RefusesExactlyOverflowHolds == SizeSpec => []RefusesExactlyOverflow
  BY LayoutInvariantHolds, RefusesWhenLayout, PTL

\* In every layout make_block_layout returns, payloads and FreeNodes are aligned
\* and no block, canary or link reaches into another, for any size_t.
THEOREM LayoutSoundHolds == SizeSpec => []LayoutSound
  BY LayoutInvariantHolds, LayoutIsSound, PTL

\* block_index of FixedSizeMemoryPool finds the block of every payload start and
\* accepts no other pointer, for any layout.
THEOREM IndexExactHolds == SizeSpec => []IndexExact
  BY LayoutInvariantHolds, IndexIsExact, PTL

------------------------------------------------------------------------------
\* The size classes as the constructor accepts them: each above the one before.
Increasing(cs) == \A i \in 2 .. Len(cs) : cs[i] > cs[i - 1]

LEMMA IncreasingOrder ==
  ASSUME NEW cs \in Seq(Int), Increasing(cs)
  PROVE  \A i, j \in 1 .. Len(cs) : i < j => cs[i] < cs[j]
<1> DEFINE n == Len(cs)
           T == {d \in Nat : \A i \in 1 .. n : i + d + 1 <= n => cs[i] < cs[i + d + 1]}
<1>1. n \in Nat /\ \A i \in 1 .. n : cs[i] \in Int
  OBVIOUS
<1> HIDE DEF n
<1>2. \A i \in 1 .. n : i + 1 <= n => cs[i] < cs[i + 1]
  <2> SUFFICES ASSUME NEW i \in 1 .. n, i + 1 <= n PROVE cs[i] < cs[i + 1]
    BY Zenon
  <2>1. i + 1 \in 2 .. n /\ (i + 1) - 1 = i /\ i + 1 \in 1 .. n
    BY <1>1
  <2>2. cs[i + 1] > cs[(i + 1) - 1]
    BY <2>1, Zenon DEF Increasing, n
  <2> QED BY <1>1, <2>1, <2>2, Zenon
<1>3. 0 \in T
  BY <1>2
<1>4. ASSUME NEW d \in Nat, d \in T PROVE d + 1 \in T
  <2> SUFFICES ASSUME NEW i \in 1 .. n, i + (d + 1) + 1 <= n
               PROVE  cs[i] < cs[i + (d + 1) + 1]
    OBVIOUS
  <2>1. i + d + 1 \in 1 .. n /\ (i + d + 1) + 1 <= n
    BY <1>1
  <2>2. cs[i] < cs[i + d + 1]
    BY <1>4, <2>1, <1>1
  <2>3. cs[i + d + 1] < cs[(i + d + 1) + 1] /\ (i + d + 1) + 1 \in 1 .. n
    BY <1>1, <1>2, <2>1
  <2>4. (i + d + 1) + 1 = i + (d + 1) + 1
    BY <1>1
  <2> QED BY <1>1, <2>1, <2>2, <2>3, <2>4
<1>5. Nat \subseteq T
  <2> HIDE DEF T
  <2> QED BY <1>3, <1>4, NatSetInduction, Zenon
<1> SUFFICES ASSUME NEW i \in 1 .. n, NEW j \in 1 .. n, i < j PROVE cs[i] < cs[j]
  BY Zenon DEF n
<1>6. j - i - 1 \in Nat /\ i + (j - i - 1) + 1 = j
  BY <1>1
<1>7. cs[i] < cs[i + (j - i - 1) + 1]
  <2>1. i + (j - i - 1) + 1 <= n
    BY <1>1, <1>6
  <2>2. j - i - 1 \in T
    <3> HIDE DEF T
    <3> QED BY <1>5, <1>6, Zenon
  <2> QED BY <2>1, <2>2, Zenon
<1> QED BY <1>6, <1>7, Zenon

\* Where value belongs in the classes.
IsBound(cs, value, b) ==
    /\ b \in 1 .. Len(cs) + 1
    /\ \A i \in 1 .. Len(cs) : IF i < b THEN cs[i] < value ELSE cs[i] >= value

\* std::lower_bound finds it, for every ordered vector: the search is a
\* recursion on the length of the range, and below(k) are the ranges of at most
\* k elements.
LEMMA LowerBound ==
  ASSUME NEW cs \in Seq(Int), Increasing(cs), NEW value \in Int
  PROVE  IsBound(cs, value, lower_bound(cs, value))
<1> DEFINE end == Len(cs) + 1
           ranges == {r \in (1 .. end) \X (0 .. end - 1) : r[1] + r[2] <= end}
           half(r) == r[2] \div 2
           body(h, r) == IF r[2] = 0 THEN r[1]
                         ELSE IF cs[r[1] + half(r)] < value
                              THEN h[<<r[1] + half(r) + 1, r[2] - half(r) - 1>>]
                              ELSE h[<<r[1], half(r)>>]
           Def(h) == [r \in ranges |-> body(h, r)]
           find == CHOOSE h : h = Def(h)
           below(k) == {r \in ranges : r[2] <= k}
           Search(k, f) == f = [r \in below(k) |-> body(f, r)]
           S == {k \in Nat : \E f : Search(k, f)}
<1>1. lower_bound(cs, value) = find[<<1, Len(cs)>>]
  BY Zenon DEF lower_bound
<1>2. Len(cs) \in Nat /\ end \in Nat /\ end >= 1
  OBVIOUS
<1>3. ASSUME NEW r \in ranges, r[2] # 0
      PROVE  /\ r[1] \in 1 .. end /\ r[2] \in 1 .. end - 1 /\ half(r) \in 0 .. r[2] - 1
             /\ r[1] + half(r) \in 1 .. end - 1
             /\ <<r[1] + half(r) + 1, r[2] - half(r) - 1>> \in ranges
             /\ <<r[1], half(r)>> \in ranges
  <2>1. r[1] \in 1 .. end /\ r[2] \in 1 .. end - 1 /\ r[1] + r[2] <= end
    BY <1>2, <1>3
  <2>2. half(r) \in 0 .. r[2] - 1
    BY <1>2, <2>1
  <2> HIDE DEF half, end
  <2> QED BY <1>2, <2>1, <2>2
<1> HIDE DEF half
<1>4. ASSUME NEW k \in Nat, NEW r \in below(k + 1), r \notin below(0)
      PROVE  /\ r \in ranges /\ r[2] # 0
             /\ <<r[1] + half(r) + 1, r[2] - half(r) - 1>> \in below(k)
             /\ <<r[1], half(r)>> \in below(k)
  <2>1. r \in ranges /\ r[2] # 0 /\ r[2] <= k + 1
    BY <1>2, <1>4
  <2>2. r[2] - half(r) - 1 <= k /\ half(r) <= k
    <3>1. r[2] \in 1 .. end - 1 /\ half(r) \in 0 .. r[2] - 1
      BY <2>1, <1>3, Zenon
    <3> HIDE DEF ranges, below
    <3> QED BY <1>2, <2>1, <3>1
  <2> HIDE DEF ranges
  <2> QED BY <2>1, <2>2, <1>3, Zenon
<1>5. 0 \in S
  <2> DEFINE f == [r \in below(0) |-> r[1]]
  <2>1. \A r \in below(0) : r[2] = 0
    BY <1>2
  <2>2. Search(0, f)
    BY <2>1, Zenon
  <2> HIDE DEF Search, f
  <2> QED BY <2>2, Zenon
<1>6. ASSUME NEW k \in Nat, k \in S PROVE k + 1 \in S
  <2>1. PICK f : Search(k, f)
    BY <1>6, Zenon
  <2> DEFINE g == [r \in below(k + 1) |-> IF r \in below(k) THEN f[r] ELSE body(f, r)]
  <2>2. below(k) \subseteq below(k + 1) /\ below(0) \subseteq below(k)
    BY <1>2
  <2>3. \A r \in below(k) : f[r] = body(f, r) /\ g[r] = f[r]
    <3> HIDE DEF below
    <3> QED BY <2>1, <2>2, Zenon
  <2>4. ASSUME NEW r \in below(k + 1) PROVE body(g, r) = body(f, r)
    <3>1. CASE r \in below(0)
      BY <3>1, <1>2
    <3>2. CASE r \notin below(0)
      <4>1. /\ <<r[1] + half(r) + 1, r[2] - half(r) - 1>> \in below(k)
            /\ <<r[1], half(r)>> \in below(k)
        BY <1>4, <3>2, Zenon
      <4> HIDE DEF below, g
      <4> QED BY <2>3, <4>1, Zenon
    <3> QED BY <3>1, <3>2, Zenon
  <2>5. ASSUME NEW r \in below(k + 1) PROVE g[r] = body(g, r)
    <3>1. g[r] = body(f, r)
      <4> HIDE DEF below, body
      <4> QED BY <2>3, Zenon
    <3> HIDE DEF g, below, body
    <3> QED BY <2>4, <3>1, Zenon
  <2>6. Search(k + 1, g)
    <3>1. g = [r \in below(k + 1) |-> g[r]]
      BY Zenon
    <3> HIDE DEF g, below, body
    <3> QED BY <2>5, <3>1, Zenon
  <2> HIDE DEF Search, g
  <2> QED BY <2>6
<1>7. end - 1 \in S
  <2> HIDE DEF S
  <2>1. Nat \subseteq S
    BY <1>5, <1>6, NatSetInduction, Zenon
  <2>2. end - 1 \in Nat
    BY <1>2
  <2> HIDE DEF end
  <2> QED BY <2>1, <2>2, Zenon
<1>8. below(end - 1) = ranges
  BY <1>2
<1>9. \E f : f = Def(f)
  <2> HIDE DEF below, body, ranges
  <2> QED BY <1>7, <1>8, Zenon
<1>10. find = Def(find)
  <2> HIDE DEF Def
  <2> QED BY <1>9, Zenon
<1>11. \A r \in ranges : find[r] = body(find, r)
  <2> HIDE DEF find, body, ranges
  <2> QED BY <1>10, Zenon
<1> HIDE DEF find, Def, Search, S
\* The search keeps what it has excluded out.
<1> DEFINE Excluded(r) == \A i \in 1 .. end - 1 :
                /\ i < r[1] => cs[i] < value
                /\ i >= r[1] + r[2] => cs[i] >= value
           T == {k \in Nat : \A r \in below(k) : Excluded(r) => IsBound(cs, value, find[r])}
<1>12. \A i \in 1 .. end - 1 : cs[i] \in Int
  OBVIOUS
<1>o. \A i, j \in 1 .. end - 1 : i < j => cs[i] < cs[j]
  <2>1. 1 .. end - 1 = 1 .. Len(cs)
    BY <1>2
  <2> HIDE DEF end
  <2> QED BY <2>1, IncreasingOrder, Zenon
<1>13. 0 \in T
  <2> SUFFICES ASSUME NEW r \in below(0), Excluded(r) PROVE IsBound(cs, value, find[r])
    BY Zenon
  <2>1. r \in ranges /\ r[2] = 0 /\ r[1] \in 1 .. end
    BY <1>2
  <2>2. find[r] = r[1]
    BY <1>11, <2>1, Zenon
  <2> HIDE DEF below, ranges
  <2> QED BY <1>2, <2>1, <2>2 DEF IsBound
<1>14. ASSUME NEW k \in Nat, k \in T PROVE k + 1 \in T
  <2>0. k + 1 \in Nat
    OBVIOUS
  <2> SUFFICES ASSUME NEW r \in below(k + 1), Excluded(r) PROVE IsBound(cs, value, find[r])
    <3> HIDE DEF below, Excluded
    <3> QED BY <2>0, Zenon
  <2>1. CASE r \in below(0)
    BY <1>13, <2>1, Zenon
  <2>2. CASE r \notin below(0)
    <3>1. /\ r \in ranges /\ r[2] # 0
          /\ <<r[1] + half(r) + 1, r[2] - half(r) - 1>> \in below(k)
          /\ <<r[1], half(r)>> \in below(k)
      BY <1>4, <2>2, Zenon
    <3> DEFINE m == r[1] + half(r)
    <3>2. /\ r[1] \in 1 .. end /\ r[2] \in 1 .. end - 1 /\ half(r) \in 0 .. r[2] - 1
          /\ m \in 1 .. end - 1
      BY <1>3, <3>1, Zenon
    <3>3. CASE cs[m] < value
      <4> DEFINE s == <<m + 1, r[2] - half(r) - 1>>
      <4>1. Excluded(s)
        <5> SUFFICES ASSUME NEW i \in 1 .. end - 1
                     PROVE  /\ i < m + 1 => cs[i] < value
                            /\ i >= (m + 1) + (r[2] - half(r) - 1) => cs[i] >= value
          BY Zenon
        <5>1. i < m => cs[i] < cs[m]
          BY <1>o, <3>2, Zenon
        <5>2. (m + 1) + (r[2] - half(r) - 1) = r[1] + r[2]
          BY <1>2, <3>2
        <5>3. (i < r[1] => cs[i] < value) /\ (i >= r[1] + r[2] => cs[i] >= value)
          BY Zenon
        <5>4. cs[i] \in Int /\ cs[m] \in Int
          BY <1>12, <3>2, Zenon
        <5> HIDE DEF m, Excluded, below, T
        <5>5. i < m + 1 => i < m \/ i = m
          BY <1>2, <3>2
        <5> QED BY <3>3, <5>1, <5>2, <5>3, <5>4, <5>5
      <4>2. find[r] = find[s]
        BY <1>11, <3>1, <3>3, Zenon
      <4>3. s \in below(k)
        BY <3>1, Zenon
      <4> HIDE DEF s, below, Excluded
      <4> QED BY <1>14, <4>1, <4>2, <4>3, Zenon
    <3>4. CASE ~ (cs[m] < value)
      <4> DEFINE s == <<r[1], half(r)>>
      <4>1. Excluded(s)
        <5> SUFFICES ASSUME NEW i \in 1 .. end - 1
                     PROVE  /\ i < r[1] => cs[i] < value
                            /\ i >= r[1] + half(r) => cs[i] >= value
          BY Zenon
        <5>1. m < i => cs[m] < cs[i]
          BY <1>o, <3>2, Zenon
        <5>2. i < r[1] => cs[i] < value
          BY Zenon
        <5>3. cs[i] \in Int /\ cs[m] \in Int
          BY <1>12, <3>2, Zenon
        <5>4. i >= m => m < i \/ i = m
          BY <1>2, <3>2
        <5>5. i >= m => cs[i] >= value
          <6> HIDE DEF m, Excluded, below, T
          <6> QED BY <3>4, <5>1, <5>3, <5>4
        <5> HIDE DEF Excluded, below, T
        <5> QED BY <5>2, <5>5, Zenon
      <4>2. find[r] = find[s]
        BY <1>11, <3>1, <3>4, Zenon
      <4>3. s \in below(k)
        BY <3>1, Zenon
      <4> HIDE DEF s, below, Excluded
      <4> QED BY <1>14, <4>1, <4>2, <4>3, Zenon
    <3> QED BY <3>3, <3>4, Zenon
  <2> QED BY <2>1, <2>2, Zenon
<1>15. end - 1 \in T
  <2> HIDE DEF T
  <2>1. Nat \subseteq T
    BY <1>13, <1>14, NatSetInduction, Zenon
  <2>2. end - 1 \in Nat
    BY <1>2
  <2> HIDE DEF end
  <2> QED BY <2>1, <2>2, Zenon
<1> DEFINE all == <<1, Len(cs)>>
<1>16. all \in ranges /\ Excluded(all)
  BY <1>2
<1>17. IsBound(cs, value, find[all])
  <2> HIDE DEF all, ranges, below, Excluded
  <2> QED BY <1>8, <1>15, <1>16, Zenon
<1> QED BY <1>1, <1>17, Zenon

------------------------------------------------------------------------------
(* What a request is served as.                                            *)

KindRecords == [class : Nat, size : Nat, alignment : Nat]

LEMMA SelectRange ==
  ASSUME NEW q \in Requests
  PROVE  select(Classes, q) \in ClassIndices \cup {0}
<1>1. Classes \in Seq(Int) /\ Increasing(Classes) /\ ClassIndices = 1 .. Len(Classes)
  BY SegregatedAssumption DEF ValidClasses, Increasing, ClassIndices
<1> DEFINE v == Larger(Size(q), q.alignment)
           b == lower_bound(Classes, v)
<1>2. v \in Int
  BY SegregatedAssumption DEF Larger, Size
<1>3. IsBound(Classes, v, b)
  <2> HIDE DEF v
  <2> QED BY <1>1, <1>2, LowerBound, Zenon
<1>4. b \in 1 .. Len(Classes) + 1
  <2> HIDE DEF b
  <2> QED BY <1>3, Zenon DEF IsBound
<1>5. select(Classes, q) = IF b = Len(Classes) + 1 THEN 0 ELSE b
  BY Zenon DEF select
<1> HIDE DEF b
<1> QED BY <1>1, <1>4, <1>5

LEMMA KindFacts ==
  ASSUME NEW q \in Requests
  PROVE  /\ Kind(q) \in KindRecords /\ Kind(q) # Free /\ Kind(q) # Unsized
         /\ Kind(q).class # 0 => Kind(q).class \in ClassIndices /\ Kind(q) = Pooled(Kind(q).class)
         /\ Kind(q) # Invalid /\ Kind(q).class = 0 =>
              Kind(q) = Direct([size |-> Size(q), alignment |-> q.alignment])
         /\ [size |-> Size(q), alignment |-> q.alignment] \in [size : Nat, alignment : Nat]
<1>1. select(Classes, q) \in ClassIndices \cup {0} /\ ClassIndices \subseteq Nat
  BY SelectRange, SegregatedAssumption DEF ClassIndices
<1>2. Size(q) \in Nat /\ q.alignment \in Nat
  BY SegregatedAssumption, Zenon DEF Size, Larger
<1>3. Invalid \in KindRecords /\ Invalid.class = 0
  BY Zenon DEF Invalid, KindRecords
<1>4. \A c \in ClassIndices : Pooled(c) \in KindRecords /\ Pooled(c).class = c
  BY <1>1, Zenon DEF Pooled, KindRecords
<1>5. \A m \in [size : Nat, alignment : Nat] : Direct(m) \in KindRecords /\ Direct(m).class = 0
  BY Zenon DEF Direct, KindRecords
<1>6. [size |-> Size(q), alignment |-> q.alignment] \in [size : Nat, alignment : Nat]
  BY <1>2, Zenon
<1>7. \/ Kind(q) = Invalid
      \/ select(Classes, q) # 0 /\ Kind(q) = Pooled(select(Classes, q))
      \/ Kind(q) = Direct([size |-> Size(q), alignment |-> q.alignment])
  BY Zenon DEF Kind
<1>8. Kind(q) \in KindRecords
  BY <1>1, <1>3, <1>4, <1>5, <1>6, <1>7, Zenon
<1>9. Kind(q) # Free /\ Kind(q) # Unsized
  BY <1>8, SegregatedAssumption, Zenon DEF KindRecords
<1> QED BY <1>1, <1>3, <1>4, <1>5, <1>6, <1>7, <1>8, <1>9, Zenon

------------------------------------------------------------------------------
(* Who owns a slab, and which blocks are live.                             *)

Chunks == [slab : Slabs, live : SUBSET Blocks]

SInv == TypeOK /\ SegregatedInvariant

LEMMA PoolFacts ==
  ASSUME TypeOK, NEW a \in Allocators, NEW c \in ClassIndices
  PROVE  /\ pools[a][c] \in Seq(Chunks) /\ DOMAIN pools[a][c] = 1 .. Len(pools[a][c])
         /\ \A i \in DOMAIN pools[a][c] : pools[a][c][i] \in Chunks
<1>1. pools[a] \in [ClassIndices -> Seq(Chunks)]
  BY Zenon DEF TypeOK, Chunks
<1>2. pools[a][c] \in Seq(Chunks)
  BY <1>1, Zenon
<1> HIDE DEF Chunks
<1> QED BY <1>2

LEMMA SlabUnique ==
  ASSUME SInv, NEW a \in Allocators, NEW b \in Allocators,
         NEW c \in ClassIndices, NEW d \in ClassIndices,
         NEW i \in DOMAIN pools[a][c], NEW j \in DOMAIN pools[b][d],
         pools[a][c][i].slab = pools[b][d][j].slab
  PROVE  a = b /\ c = d /\ i = j
  BY DEF SInv, SegregatedInvariant, ProviderBalanced

LEMMA ChunkSlab ==
  ASSUME NEW a, NEW s
  PROVE  s \in ChunkSlabs(a) <=>
           \E c \in ClassIndices : \E i \in DOMAIN pools[a][c] : pools[a][c][i].slab = s
  BY DEF ChunkSlabs

LEMMA OwnerFacts ==
  ASSUME SInv, NEW a \in Allocators, NEW p \in Pointers
  PROVE  /\ \A c \in ClassIndices : \A i \in DOMAIN pools[a][c] :
               pools[a][c][i].slab = p.slab => owning_class(a, p) = c /\ c # 0
         /\ owning_class(a, p) # 0 =>
               /\ owning_class(a, p) \in ClassIndices
               /\ \E i \in DOMAIN pools[a][owning_class(a, p)] :
                     pools[a][owning_class(a, p)][i].slab = p.slab
<1> DEFINE owners == {c \in ClassIndices : \E i \in DOMAIN pools[a][c] : pools[a][c][i].slab = p.slab}
<1>1. ClassIndices \subseteq Nat \ {0}
  BY SegregatedAssumption DEF ClassIndices
<1>2. \A c, d \in owners : c = d
  BY SlabUnique
<1>3. owning_class(a, p) = IF owners = {} THEN 0 ELSE CHOOSE c \in owners : \A d \in owners : c <= d
  BY Zenon DEF owning_class
<1>4. ASSUME NEW c \in owners PROVE owning_class(a, p) = c
  <2>1. c \in Nat
    BY <1>1, Zenon
  <2> HIDE DEF owners
  <2>2. \A d \in owners : c <= d
    BY <1>2, <2>1
  <2>3. owning_class(a, p) \in owners
    BY <1>3, <2>2, Zenon
  <2> QED BY <1>2, <2>3, Zenon
<1>5. owners = {} => owning_class(a, p) = 0
  BY <1>3, Zenon
<1> QED BY <1>1, <1>4, <1>5, Zenon

\* Block p is live in a chunk of class c.
Lives(a, p, c) == \E i \in DOMAIN pools[a][c] :
    pools[a][c][i].slab = p.slab /\ p.block \in pools[a][c][i].live

IsFallback(a, p) == p.slab \in DOMAIN fallback[a] /\ p.block = 0

LEMMA LiveSets ==
  ASSUME NEW a \in Allocators, NEW p \in Pointers
  PROVE  /\ p \in LiveFallback(a) <=> IsFallback(a, p)
         /\ \A c \in ClassIndices : p \in LivePooled(a, c) <=> Lives(a, p, c)
<1>1. p = [slab |-> p.slab, block |-> p.block]
  BY Zenon DEF Pointers
<1>2. p \in LiveFallback(a) <=> IsFallback(a, p)
  BY <1>1 DEF LiveFallback, IsFallback
<1>3. ASSUME NEW c \in ClassIndices PROVE p \in LivePooled(a, c) <=> Lives(a, p, c)
  <2>1. p \in LivePooled(a, c) <=>
          \E i \in DOMAIN pools[a][c] : \E b \in pools[a][c][i].live :
             p = [slab |-> pools[a][c][i].slab, block |-> b]
    BY DEF LivePooled
  <2> QED BY <1>1, <2>1 DEF Lives
<1> QED BY <1>2, <1>3, Zenon

KindsAre == \A a \in Allocators, p \in Pointers :
    /\ IsFallback(a, p) => LiveKind(a)[p] = Direct(fallback[a][p.slab])
    /\ \A c \in ClassIndices : Lives(a, p, c) => LiveKind(a)[p] = Pooled(c)
    /\ ~ IsFallback(a, p) /\ (\A c \in ClassIndices : ~ Lives(a, p, c)) => LiveKind(a)[p] = Free

LEMMA KindOf == SInv => KindsAre
<1> SUFFICES ASSUME SInv, NEW a \in Allocators, NEW p \in Pointers
             PROVE  /\ IsFallback(a, p) => LiveKind(a)[p] = Direct(fallback[a][p.slab])
                    /\ \A c \in ClassIndices : Lives(a, p, c) => LiveKind(a)[p] = Pooled(c)
                    /\ ~ IsFallback(a, p) /\ (\A c \in ClassIndices : ~ Lives(a, p, c))
                         => LiveKind(a)[p] = Free
  BY Zenon DEF KindsAre
<1>1. \A c, d \in ClassIndices : Lives(a, p, c) /\ Lives(a, p, d) => c = d
  BY SlabUnique DEF Lives
<1>2. \A c \in ClassIndices : Lives(a, p, c) => ~ IsFallback(a, p)
  <2> SUFFICES ASSUME NEW c \in ClassIndices, Lives(a, p, c) PROVE ~ IsFallback(a, p)
    BY Zenon
  <2>1. p.slab \in ChunkSlabs(a)
    BY ChunkSlab, Zenon DEF Lives
  <2> QED BY <2>1, Zenon DEF IsFallback, SInv, SegregatedInvariant, ProviderBalanced
<1>3. LiveKind(a)[p] =
        IF IsFallback(a, p) THEN Direct(fallback[a][p.slab])
        ELSE IF \E c \in ClassIndices : p \in LivePooled(a, c)
        THEN Pooled(CHOOSE c \in ClassIndices : p \in LivePooled(a, c))
        ELSE Free
  BY LiveSets, Zenon DEF LiveKind
<1>4. ASSUME NEW c \in ClassIndices, Lives(a, p, c)
      PROVE  (CHOOSE d \in ClassIndices : p \in LivePooled(a, d)) = c
  <2>1. p \in LivePooled(a, c)
    BY <1>4, LiveSets, Zenon
  <2>2. \A d \in ClassIndices : p \in LivePooled(a, d) => d = c
    BY <1>1, <1>4, LiveSets, Zenon
  <2> QED BY <2>1, <2>2, Zenon
<1> QED BY <1>2, <1>3, <1>4, LiveSets, Zenon

LEMMA KindOfNext == SInv' => KindsAre'
<1>1. (SInv => KindsAre)'
  BY KindOf, PTL
<1> QED BY <1>1, Zenon

LEMMA KindAfter ==
  ASSUME SInv', NEW a \in Allocators, NEW p \in Pointers
  PROVE  /\ IsFallback(a, p)' => LiveKind(a)'[p] = Direct(fallback'[a][p.slab])
         /\ \A c \in ClassIndices : Lives(a, p, c)' => LiveKind(a)'[p] = Pooled(c)
         /\ ~ IsFallback(a, p)' /\ (\A c \in ClassIndices : ~ Lives(a, p, c)') => LiveKind(a)'[p] = Free
<1>1. KindsAre' /\ Pointers' = Pointers /\ ClassIndices' = ClassIndices
  BY KindOfNext, Zenon DEF Pointers, ClassIndices, Blocks
<1> QED BY <1>1, Zenon DEF KindsAre

LEMMA KindValues ==
  ASSUME SInv, NEW a \in Allocators, NEW p \in Pointers
  PROVE  /\ IsFallback(a, p) => Direct(fallback[a][p.slab]) # Free
         /\ \A c \in ClassIndices : Pooled(c) # Free
<1>1. \A c \in ClassIndices : Pooled(c) \in KindRecords
  BY SegregatedAssumption DEF ClassIndices, Pooled, KindRecords
<1>2. \A m \in [size : Nat, alignment : Nat] : Direct(m) \in KindRecords
  BY Zenon DEF Direct, KindRecords
<1>3. IsFallback(a, p) => fallback[a][p.slab] \in [size : Nat, alignment : Nat]
  BY Zenon DEF IsFallback, SInv, TypeOK
<1> QED BY <1>1, <1>2, <1>3, SegregatedAssumption, Zenon DEF KindRecords

\* A return is accepted exactly if the block is live and of the kind named.
LEMMA AcceptsIff ==
  ASSUME SInv, NEW a \in Allocators, NEW p \in Pointers, NEW k
  PROVE  Accepts(a, p, k) <=> LiveKind(a)[p] # Free /\ k \in {Unsized, LiveKind(a)[p]}
<1> DEFINE c == owning_class(a, p)
<1>1. Accepts(a, p, k) <=>
        /\ ServedAs(a, p) # Free /\ k \in {Unsized, ServedAs(a, p)}
        /\ c # 0 => Lives(a, p, c)
  BY Zenon DEF Accepts, Matches, Lives
<1>2. ServedAs(a, p) = IF c # 0 THEN Pooled(c)
                       ELSE IF IsFallback(a, p) THEN Direct(fallback[a][p.slab]) ELSE Free
  BY Zenon DEF ServedAs, IsFallback
<1>3. c # 0 => c \in ClassIndices /\ ~ IsFallback(a, p)
  <2> SUFFICES ASSUME c # 0 PROVE c \in ClassIndices /\ ~ IsFallback(a, p)
    BY Zenon
  <2>1. c \in ClassIndices /\ \E i \in DOMAIN pools[a][c] : pools[a][c][i].slab = p.slab
    BY OwnerFacts, Zenon
  <2>2. p.slab \in ChunkSlabs(a)
    BY <2>1, ChunkSlab, Zenon
  <2> QED BY <2>1, <2>2, Zenon DEF IsFallback, SInv, SegregatedInvariant, ProviderBalanced
<1>4. \A d \in ClassIndices : Lives(a, p, d) => c = d /\ c # 0
  BY OwnerFacts, Zenon DEF Lives
<1> HIDE DEF c
<1>5. CASE c # 0 /\ Lives(a, p, c)
  BY <1>1, <1>2, <1>3, <1>5, KindOf, KindValues, Zenon DEF KindsAre
<1>6. CASE c # 0 /\ ~ Lives(a, p, c)
  BY <1>1, <1>3, <1>4, <1>6, KindOf, Zenon DEF KindsAre
<1>7. CASE c = 0
  BY <1>1, <1>2, <1>4, <1>7, KindOf, KindValues, Zenon DEF KindsAre
<1> QED BY <1>5, <1>6, <1>7, Zenon

------------------------------------------------------------------------------
(* Slabs change hands between one allocator and the provider.              *)

OwnSlabsDiffer(a) == \A c, d \in ClassIndices :
    \A i \in DOMAIN pools[a][c], j \in DOMAIN pools[a][d] :
        pools[a][c][i].slab = pools[a][d][j].slab => c = d /\ i = j

Owned(a) == ChunkSlabs(a) \cup DOMAIN fallback[a]

\* Allocator a gives slabs back and takes others that nobody has.
LEMMA Rebalance ==
  ASSUME SInv, TypeOK', NEW a \in Allocators,
         \A b \in Allocators : b # a =>
            pools'[b] = pools[b] /\ fallback'[b] = fallback[b] /\ state'[b] = state[b],
         OwnSlabsDiffer(a)',
         ChunkSlabs(a)' \cap DOMAIN fallback'[a] = {},
         Owned(a)' \subseteq Owned(a) \cup (Slabs \ outstanding),
         outstanding' = (outstanding \ Owned(a)) \cup Owned(a)',
         state'[a] # "open" => pools'[a] = NoChunks /\ fallback'[a] = <<>>
  PROVE  SInv'
<1>1. /\ outstanding = UNION {Owned(b) : b \in Allocators}
      /\ \A b \in Allocators : ChunkSlabs(b) \cap DOMAIN fallback[b] = {}
      /\ \A b, d \in Allocators : b # d => Owned(b) \cap Owned(d) = {}
  <2>1. outstanding = UNION {Owned(b) : b \in Allocators}
    BY Zenon DEF SInv, SegregatedInvariant, ProviderBalanced, Owned
  <2>2. ASSUME NEW b \in Allocators, NEW d \in Allocators, b # d PROVE ChunkSlabs(b) \cap ChunkSlabs(d) = {}
    BY <2>2, ChunkSlab, SlabUnique
  <2> QED BY <2>1, <2>2, Zenon DEF SInv, SegregatedInvariant, ProviderBalanced, Owned
<1>2. \A b \in Allocators : b # a => ChunkSlabs(b)' = ChunkSlabs(b) /\ Owned(b)' = Owned(b)
  BY DEF ChunkSlabs, Owned
<1>3. \A b \in Allocators : b # a => Owned(a)' \cap Owned(b)' = {}
  BY <1>1, <1>2
<1>4. outstanding' = UNION {Owned(b)' : b \in Allocators}
  <2>1. ASSUME NEW s \in outstanding' PROVE \E b \in Allocators : s \in Owned(b)'
    BY <2>1, <1>1, <1>2
  <2>2. ASSUME NEW b \in Allocators, NEW s \in Owned(b)' PROVE s \in outstanding'
    BY <2>2, <1>1, <1>2, Zenon
  <2> QED BY <2>1, <2>2, Zenon
<1>5. \A b, d \in Allocators : b # d => Owned(b)' \cap Owned(d)' = {}
  BY <1>1, <1>2, <1>3, Zenon
<1>6. \A b \in Allocators : ChunkSlabs(b)' \cap DOMAIN fallback'[b] = {}
  BY <1>1, <1>2, Zenon
<1>7. ASSUME NEW b \in Allocators, NEW d \in Allocators, NEW c \in ClassIndices, NEW e \in ClassIndices,
             NEW i \in DOMAIN pools'[b][c], NEW j \in DOMAIN pools'[d][e],
             pools'[b][c][i].slab = pools'[d][e][j].slab
      PROVE  <<b, c, i>> = <<d, e, j>>
  <2>1. CASE b # d
    <3>1. pools'[b][c][i].slab \in Owned(b)' /\ pools'[d][e][j].slab \in Owned(d)'
      BY DEF Owned, ChunkSlabs
    <3> QED BY <1>5, <1>7, <2>1, <3>1, Zenon
  <2>2. CASE b = d /\ b = a
    BY <1>7, <2>2 DEF OwnSlabsDiffer
  <2>3. CASE b = d /\ b # a
    <3>1. pools'[b] = pools[b]
      BY <2>3, Zenon
    <3> QED BY <1>7, <2>3, <3>1, SlabUnique
  <2> QED BY <2>1, <2>2, <2>3, Zenon
<1>8. ProviderBalanced'
  <2>1. \A b, d \in Allocators :
          /\ ChunkSlabs(b)' \cap DOMAIN fallback'[d] = {}
          /\ b # d => DOMAIN fallback'[b] \cap DOMAIN fallback'[d] = {}
    BY <1>5, <1>6, Zenon DEF Owned
  <2> QED BY <1>4, <1>7, <2>1, Zenon DEF ProviderBalanced, Owned
<1>9. \A b \in Allocators : state'[b] # "open" => pools'[b] = NoChunks /\ fallback'[b] = <<>>
  BY Zenon DEF SInv, SegregatedInvariant
<1> QED BY <1>8, <1>9, Zenon DEF SInv, SegregatedInvariant, NoChunks, ClassIndices

------------------------------------------------------------------------------
(* What the operations do to the chunks, and to what is live.              *)

WithLive(t, i, L) == [t EXCEPT ![i].live = L]

LEMMA SetLive ==
  ASSUME NEW t \in Seq(Chunks), NEW i \in DOMAIN t, NEW L \in SUBSET Blocks
  PROVE  /\ WithLive(t, i, L) \in Seq(Chunks) /\ DOMAIN WithLive(t, i, L) = DOMAIN t
         /\ \A j \in DOMAIN t :
               /\ WithLive(t, i, L)[j].slab = t[j].slab
               /\ WithLive(t, i, L)[j].live = IF j = i THEN L ELSE t[j].live
<1>1. t[i] \in Chunks /\ DOMAIN t = 1 .. Len(t) /\ Len(t) \in Nat
  OBVIOUS
<1>2. [t[i] EXCEPT !.live = L] \in Chunks
  BY <1>1, Zenon DEF Chunks
<1>3. WithLive(t, i, L) = [t EXCEPT ![i] = [t[i] EXCEPT !.live = L]]
  BY Zenon DEF WithLive
<1>4. [t[i] EXCEPT !.live = L].slab = t[i].slab /\ [t[i] EXCEPT !.live = L].live = L
  BY <1>1, Zenon DEF Chunks
<1> QED BY <1>1, <1>2, <1>3, <1>4

LEMMA RemoveAtFacts ==
  ASSUME NEW t \in Seq(Chunks), NEW i \in DOMAIN t
  PROVE  /\ RemoveAt(t, i) \in Seq(Chunks) /\ DOMAIN RemoveAt(t, i) = 1 .. Len(t) - 1
         /\ \A j \in 1 .. Len(t) - 1 : RemoveAt(t, i)[j] = t[IF j < i THEN j ELSE j + 1]
<1> DEFINE n == Len(t)
           l == SubSeq(t, 1, i - 1)
           r == SubSeq(t, i + 1, n)
<1>1. n \in Nat /\ i \in 1 .. n
  OBVIOUS
<1>2. l \in Seq(Chunks) /\ Len(l) = i - 1 /\ \A j \in 1 .. i - 1 : l[j] = t[j]
  BY <1>1
<1>3. r \in Seq(Chunks) /\ Len(r) = n - i /\ \A j \in 1 .. n - i : r[j] = t[i + j]
  BY <1>1
<1>4. RemoveAt(t, i) = l \o r
  BY Zenon DEF RemoveAt
<1> HIDE DEF l, r
<1>5. (l \o r) \in Seq(Chunks) /\ Len(l \o r) = n - 1
  BY <1>1, <1>2, <1>3
<1>6. ASSUME NEW j \in 1 .. n - 1 PROVE (l \o r)[j] = t[IF j < i THEN j ELSE j + 1]
  <2>0. j \in Int /\ i \in Int /\ (j < i \/ j >= i)
    BY <1>1
  <2>1. CASE j < i
    <3>1. (l \o r)[j] = l[j] /\ j \in 1 .. i - 1
      BY <1>1, <1>2, <1>3, <2>1
    <3> QED BY <1>2, <2>1, <3>1, Zenon
  <2>2. CASE j >= i
    <3>1. (l \o r)[j] = r[j - (i - 1)]
      BY <1>1, <1>2, <1>3, <2>2
    <3>2. j - (i - 1) \in 1 .. n - i /\ i + (j - (i - 1)) = j + 1
      BY <1>1, <2>2
    <3>3. ~ (j < i)
      BY <2>0, <2>2
    <3> QED BY <1>3, <3>1, <3>2, <3>3, Zenon
  <2> QED BY <2>0, <2>1, <2>2, Zenon
<1>7. DOMAIN (l \o r) = 1 .. n - 1
  BY <1>5
<1> QED BY <1>4, <1>5, <1>6, <1>7, Zenon

\* The chunks of one class become t.
Replaced(a, c, t) == [pools EXCEPT ![a][c] = t]

LEMMA ReplaceClass ==
  ASSUME TypeOK, NEW a \in Allocators, NEW c \in ClassIndices, NEW t \in Seq(Chunks),
         pools' = Replaced(a, c, t)
  PROVE  /\ pools' \in [Allocators -> [ClassIndices -> Seq(Chunks)]]
         /\ pools'[a][c] = t
         /\ \A d \in ClassIndices : d # c => pools'[a][d] = pools[a][d]
         /\ \A b \in Allocators : b # a => pools'[b] = pools[b]
<1>1. pools \in [Allocators -> [ClassIndices -> Seq(Chunks)]]
  BY Zenon DEF TypeOK, Chunks
<1> HIDE DEF Chunks
<1> QED BY <1>1, Zenon DEF Replaced

\* Block r is as live as before.
SameAt(a, r) ==
    /\ IsFallback(a, r)' <=> IsFallback(a, r)
    /\ IsFallback(a, r) => fallback'[a][r.slab] = fallback[a][r.slab]
    /\ \A c \in ClassIndices : Lives(a, r, c)' <=> Lives(a, r, c)

LEMMA SameKind ==
  ASSUME SInv, SInv', NEW a \in Allocators, NEW r \in Pointers, SameAt(a, r)
  PROVE  LiveKind(a)'[r] = LiveKind(a)[r]
<1>1. KindsAre /\ KindsAre'
  BY KindOf, KindOfNext, Zenon
<1>2. Pointers' = Pointers /\ ClassIndices' = ClassIndices
  BY Zenon DEF Pointers, ClassIndices, Blocks
<1> QED BY <1>1, <1>2 DEF KindsAre, SameAt

\* Nothing is known of what is live but one block.
LEMMA OtherKind ==
  ASSUME SInv, SInv', NEW a \in Allocators, NEW p \in Pointers, NEW k,
         \A r \in Pointers : r # p => SameAt(a, r), LiveKind(a)'[p] = k
  PROVE  LiveKind(a)' = [LiveKind(a) EXCEPT ![p] = k]
<1>1. \A r \in Pointers : r # p => LiveKind(a)'[r] = LiveKind(a)[r]
  BY SameKind, Zenon
<1>2. /\ LiveKind(a) = [r \in Pointers |-> LiveKind(a)[r]]
      /\ LiveKind(a)' = [r \in Pointers |-> LiveKind(a)'[r]]
  BY Zenon DEF LiveKind
<1> HIDE DEF LiveKind
<1> QED BY <1>1, <1>2, Zenon

LEMMA OthersSame ==
  ASSUME NEW a \in Allocators, \A b \in Allocators : b # a => pools'[b] = pools[b] /\ fallback'[b] = fallback[b]
  PROVE  \A b \in Allocators : b # a => LiveKind(b)' = LiveKind(b)
<1> SUFFICES ASSUME NEW b \in Allocators, b # a PROVE LiveKind(b)' = LiveKind(b)
  BY Zenon
<1>1. pools'[b] = pools[b] /\ fallback'[b] = fallback[b]
  BY Zenon
<1> QED BY <1>1 DEF LiveKind, LiveFallback, LivePooled, Pointers, Blocks, ClassIndices

\* In allocator a block p becomes k, and nothing else changes anywhere.
Becomes(a, p, k) ==
    /\ LiveKind(a)' = [LiveKind(a) EXCEPT ![p] = k]
    /\ \A b \in Allocators : b # a => LiveKind(b)' = LiveKind(b)

\* The blocks of a class change, its chunks stay.
LEMMA SameSlabs ==
  ASSUME SInv, NEW a \in Allocators, NEW c \in ClassIndices, NEW u \in Seq(Chunks),
         DOMAIN u = DOMAIN pools[a][c], \A j \in DOMAIN u : u[j].slab = pools[a][c][j].slab,
         pools' = Replaced(a, c, u), state[a] = "open",
         UNCHANGED <<state, fallback, outstanding>>, DOMAIN answer' = Allocators
  PROVE  SInv'
<1>1. TypeOK
  BY Zenon DEF SInv
<1>2. /\ pools' \in [Allocators -> [ClassIndices -> Seq(Chunks)]]
      /\ pools'[a][c] = u
      /\ \A d \in ClassIndices : d # c => pools'[a][d] = pools[a][d]
      /\ \A b \in Allocators : b # a => pools'[b] = pools[b]
  BY <1>1, ReplaceClass, Zenon
<1>3. TypeOK'
  BY <1>1, <1>2, Zenon DEF TypeOK, Chunks, ClassIndices, Blocks
<1>4. \A d \in ClassIndices : DOMAIN pools'[a][d] = DOMAIN pools[a][d]
        /\ \A j \in DOMAIN pools[a][d] : pools'[a][d][j].slab = pools[a][d][j].slab
  BY <1>2, Zenon
<1>5. ChunkSlabs(a)' = ChunkSlabs(a)
  BY <1>4 DEF ChunkSlabs
<1>6. OwnSlabsDiffer(a)'
  BY <1>4, SlabUnique DEF OwnSlabsDiffer, ClassIndices
<1>7. Owned(a)' = Owned(a) /\ Owned(a) \subseteq outstanding /\ ChunkSlabs(a) \cap DOMAIN fallback[a] = {}
  BY <1>5 DEF Owned, SInv, SegregatedInvariant, ProviderBalanced
<1> QED BY <1>2, <1>3, <1>5, <1>6, <1>7, Rebalance, Zenon

LEMMA PooledStep ==
  ASSUME SInv, NEW a \in Allocators, NEW q \in Requests, AllocatePooled(a, q)
  PROVE  /\ SInv' /\ \E p \in Pointers :
               /\ answer' = [answer EXCEPT ![a] = Answer("allocated", p, Kind(q))]
               /\ LiveKind(a)[p] = Free /\ Becomes(a, p, Kind(q))
<1> DEFINE c == Kind(q).class
<1>p. PICK t : t = pools[a][c]
  BY Zenon
<1>0. TypeOK
  BY Zenon DEF SInv
<1>1. c \in ClassIndices /\ Kind(q) = Pooled(c)
  BY KindFacts, Zenon DEF AllocatePooled
<1>2. t \in Seq(Chunks) /\ DOMAIN t = 1 .. Len(t) /\ \A i \in DOMAIN t : t[i] \in Chunks
  BY <1>p, <1>0, <1>1, PoolFacts, Zenon
<1>3. PICK i \in DOMAIN t : \E b \in Blocks \ t[i].live :
        /\ pools' = [pools EXCEPT ![a][c][i].live = @ \cup {b}]
        /\ Succeeds(a, q, [slab |-> t[i].slab, block |-> b])
  BY <1>p, Zenon DEF AllocatePooled
<1>4. PICK b \in Blocks \ t[i].live :
        /\ pools' = [pools EXCEPT ![a][c][i].live = @ \cup {b}]
        /\ Succeeds(a, q, [slab |-> t[i].slab, block |-> b])
  BY <1>3, Zenon
<1>L. PICK L : L = t[i].live \cup {b}
  BY Zenon
<1>u. PICK u : u = WithLive(t, i, L)
  BY Zenon
<1> DEFINE p == [slab |-> t[i].slab, block |-> b]
<1>5. p \in Pointers /\ L \in SUBSET Blocks /\ p.slab = t[i].slab /\ p.block = b
  BY <1>2, <1>L, Zenon DEF Chunks, Pointers
<1> HIDE DEF c
<1>6. /\ u \in Seq(Chunks) /\ DOMAIN u = DOMAIN t
      /\ \A j \in DOMAIN t : u[j].slab = t[j].slab /\ u[j].live = IF j = i THEN L ELSE t[j].live
  <2>1. t \in Seq(Chunks) /\ i \in DOMAIN t /\ L \in SUBSET Blocks
    BY <1>2, <1>5, Zenon
  <2> QED BY <2>1, <1>u, SetLive
<1>7. pools' = Replaced(a, c, u)
  BY <1>p, <1>4, <1>L, <1>u, Zenon DEF WithLive, Replaced
<1>8. /\ pools'[a][c] = u /\ \A d \in ClassIndices : d # c => pools'[a][d] = pools[a][d]
      /\ \A x \in Allocators : x # a => pools'[x] = pools[x]
  BY <1>0, <1>1, <1>6, <1>7, ReplaceClass, Zenon
<1>9. /\ answer' = [answer EXCEPT ![a] = Answer("allocated", p, Kind(q))]
      /\ UNCHANGED <<state, fallback, outstanding>> /\ state[a] = "open"
  BY <1>4, Zenon DEF AllocatePooled, Succeeds, Requested
<1>10. SInv'
  <2>1. DOMAIN answer' = Allocators
    BY <1>0, <1>9, Zenon DEF TypeOK
  <2>2. DOMAIN u = DOMAIN pools[a][c] /\ \A j \in DOMAIN u : u[j].slab = pools[a][c][j].slab
    BY <1>p, <1>6, Zenon
  <2> QED BY <1>1, <1>6, <1>7, <1>9, <2>1, <2>2, SameSlabs, Zenon
<1>11. ~ IsFallback(a, p) /\ \A d \in ClassIndices : ~ Lives(a, p, d)
  <2>1. p.slab \in ChunkSlabs(a)
    BY <1>p, <1>1, <1>5, ChunkSlab, Zenon
  <2>2. ASSUME NEW d \in ClassIndices, Lives(a, p, d) PROVE FALSE
    <3>1. PICK j \in DOMAIN pools[a][d] : pools[a][d][j].slab = p.slab /\ p.block \in pools[a][d][j].live
      BY <2>2, Zenon DEF Lives
    <3>2. d = c /\ j = i
      BY <1>p, <1>1, <1>5, <3>1, SlabUnique
    <3> QED BY <1>p, <1>5, <3>1, <3>2, Zenon
  <2> QED BY <2>1, <2>2, Zenon DEF IsFallback, SInv, SegregatedInvariant, ProviderBalanced
<1>12. LiveKind(a)[p] = Free
  BY <1>5, <1>11, KindOf, Zenon DEF KindsAre
<1>13. LiveKind(a)'[p] = Pooled(c)
  <2>1. Lives(a, p, c)'
    BY <1>L, <1>5, <1>6, <1>8, Zenon DEF Lives
  <2> QED BY <1>1, <1>5, <1>10, <2>1, KindAfter, Zenon
<1>14. ASSUME NEW r \in Pointers, r # p PROVE SameAt(a, r)
  <2>1. r.slab = t[i].slab => r.block # b
    BY <1>14, Zenon DEF Pointers
  <2>2. Lives(a, r, c)' <=> Lives(a, r, c)
    BY <1>p, <1>L, <1>6, <1>8, <2>1 DEF Lives
  <2>3. \A d \in ClassIndices : d # c => (Lives(a, r, d)' <=> Lives(a, r, d))
    BY <1>8, Zenon DEF Lives
  <2>4. IsFallback(a, r)' <=> IsFallback(a, r)
    BY <1>9, Zenon DEF IsFallback
  <2> QED BY <1>9, <2>2, <2>3, <2>4, Zenon DEF SameAt
<1>15. Becomes(a, p, Kind(q))
  <2>1. LiveKind(a)' = [LiveKind(a) EXCEPT ![p] = Kind(q)]
    BY <1>1, <1>5, <1>10, <1>13, <1>14, OtherKind
  <2>2. \A x \in Allocators : x # a => LiveKind(x)' = LiveKind(x)
    BY <1>8, <1>9, OthersSame, Zenon
  <2> QED BY <2>1, <2>2, Zenon DEF Becomes
<1> QED BY <1>5, <1>9, <1>10, <1>12, <1>15, Zenon

LEMMA GrowsStep ==
  ASSUME SInv, NEW a \in Allocators, NEW q \in Requests, AllocateGrows(a, q)
  PROVE  /\ SInv' /\ \E p \in Pointers :
               /\ answer' = [answer EXCEPT ![a] = Answer("allocated", p, Kind(q))]
               /\ LiveKind(a)[p] = Free /\ Becomes(a, p, Kind(q))
<1> DEFINE c == Kind(q).class
<1>p. PICK t : t = pools[a][c]
  BY Zenon
<1>0. TypeOK
  BY Zenon DEF SInv
<1>1. c \in ClassIndices /\ Kind(q) = Pooled(c)
  BY KindFacts, Zenon DEF AllocateGrows
<1>2. t \in Seq(Chunks) /\ DOMAIN t = 1 .. Len(t) /\ Len(t) \in Nat
  BY <1>p, <1>0, <1>1, PoolFacts
<1>3. PICK s \in Slabs \ outstanding :
        /\ pools' = [pools EXCEPT ![a][c] = Append(@, [slab |-> s, live |-> {0}])]
        /\ outstanding' = outstanding \cup {s}
        /\ Succeeds(a, q, [slab |-> s, block |-> 0])
  BY Zenon DEF AllocateGrows
<1> DEFINE p == [slab |-> s, block |-> 0]
           chunk == [slab |-> s, live |-> {0}]
<1>4. p \in Pointers /\ chunk \in Chunks /\ p.slab = s /\ p.block = 0 /\ chunk.slab = s /\ chunk.live = {0}
  BY SegregatedAssumption DEF Chunks, Pointers, Blocks
<1>u. PICK u : u = Append(t, chunk)
  BY Zenon
<1> HIDE DEF c, chunk
<1>5. /\ u \in Seq(Chunks) /\ DOMAIN u = 1 .. Len(t) + 1 /\ u[Len(t) + 1] = chunk
      /\ \A j \in DOMAIN t : j \in DOMAIN u /\ u[j] = t[j]
      /\ \A j \in DOMAIN u : j \in DOMAIN t \/ j = Len(t) + 1
  <2> HIDE DEF Chunks
  <2> QED BY <1>2, <1>4, <1>u
<1>6. pools' = Replaced(a, c, u)
  BY <1>p, <1>3, <1>u, Zenon DEF chunk, Replaced
<1>7. /\ pools' \in [Allocators -> [ClassIndices -> Seq(Chunks)]]
      /\ pools'[a][c] = u /\ \A d \in ClassIndices : d # c => pools'[a][d] = pools[a][d]
      /\ \A x \in Allocators : x # a => pools'[x] = pools[x]
  BY <1>0, <1>1, <1>5, <1>6, ReplaceClass, Zenon
<1>8. /\ answer' = [answer EXCEPT ![a] = Answer("allocated", p, Kind(q))]
      /\ UNCHANGED <<state, fallback>> /\ state[a] = "open"
  BY <1>3, Zenon DEF AllocateGrows, Succeeds, Requested
<1>9. Owned(a) \subseteq outstanding /\ s \notin ChunkSlabs(a) /\ s \notin DOMAIN fallback[a]
      /\ ChunkSlabs(a) \cap DOMAIN fallback[a] = {}
  BY <1>3 DEF Owned, SInv, SegregatedInvariant, ProviderBalanced
<1>10. ASSUME NEW d \in ClassIndices, NEW j \in DOMAIN pools'[a][d]
       PROVE  \/ j \in DOMAIN pools[a][d] /\ pools'[a][d][j] = pools[a][d][j] /\ pools[a][d][j].slab # s
              \/ d = c /\ j = Len(t) + 1 /\ pools'[a][d][j] = chunk
  <2>1. j \in DOMAIN pools[a][d] => pools[a][d][j].slab # s
    BY <1>9, ChunkSlab, Zenon
  <2> QED BY <1>p, <1>5, <1>7, <2>1, Zenon
<1>11. ASSUME NEW d \in ClassIndices, NEW j \in DOMAIN pools[a][d]
       PROVE  j \in DOMAIN pools'[a][d] /\ pools'[a][d][j] = pools[a][d][j]
  BY <1>p, <1>5, <1>7, Zenon
<1>12. Len(t) + 1 \in DOMAIN pools'[a][c] /\ pools'[a][c][Len(t) + 1] = chunk
  BY <1>2, <1>5, <1>7
<1>13. ChunkSlabs(a)' = ChunkSlabs(a) \cup {s}
  <2>1. \A x : x \in ChunkSlabs(a)' <=>
           \E d \in ClassIndices : \E j \in DOMAIN pools'[a][d] : pools'[a][d][j].slab = x
    BY DEF ChunkSlabs, ClassIndices
  <2>2. ASSUME NEW x \in ChunkSlabs(a)' PROVE x \in ChunkSlabs(a) \cup {s}
    BY <1>4, <1>10, <2>1, <2>2, ChunkSlab
  <2>3. ASSUME NEW x \in ChunkSlabs(a) PROVE x \in ChunkSlabs(a)'
    BY <1>11, <2>1, <2>3, ChunkSlab
  <2>4. s \in ChunkSlabs(a)'
    BY <1>1, <1>4, <1>12, <2>1, Zenon
  <2> QED BY <2>2, <2>3, <2>4, Zenon
<1>14. OwnSlabsDiffer(a)'
  <2> SUFFICES ASSUME NEW d \in ClassIndices, NEW e \in ClassIndices,
                      NEW i \in DOMAIN pools'[a][d], NEW j \in DOMAIN pools'[a][e],
                      pools'[a][d][i].slab = pools'[a][e][j].slab
               PROVE  d = e /\ i = j
    BY Zenon DEF OwnSlabsDiffer, ClassIndices
  <2> QED BY <1>4, <1>10, SlabUnique
<1>15. SInv'
  <2>1. TypeOK'
    BY <1>0, <1>3, <1>7, <1>8, Zenon DEF TypeOK, Chunks, ClassIndices, Blocks
  <2>2. Owned(a)' = Owned(a) \cup {s} /\ ChunkSlabs(a)' \cap DOMAIN fallback'[a] = {}
    BY <1>8, <1>9, <1>13, Zenon DEF Owned
  <2> QED BY <1>3, <1>7, <1>8, <1>9, <1>14, <2>1, <2>2, Rebalance, Zenon
<1>16. LiveKind(a)[p] = Free
  <2>1. ~ IsFallback(a, p) /\ \A d \in ClassIndices : ~ Lives(a, p, d)
    BY <1>4, <1>9, ChunkSlab, Zenon DEF IsFallback, Lives
  <2> QED BY <1>4, <2>1, KindOf, Zenon DEF KindsAre
<1>17. LiveKind(a)'[p] = Pooled(c)
  <2>1. Lives(a, p, c)'
    BY <1>4, <1>12, Zenon DEF Lives
  <2> QED BY <1>1, <1>4, <1>15, <2>1, KindAfter, Zenon
<1>18. ASSUME NEW r \in Pointers, r # p PROVE SameAt(a, r)
  <2>1. r.slab = s => r.block # 0
    BY <1>18, Zenon DEF Pointers
  <2>2. ASSUME NEW d \in ClassIndices PROVE Lives(a, r, d)' <=> Lives(a, r, d)
    BY <1>4, <1>10, <1>11, <2>1 DEF Lives
  <2>3. IsFallback(a, r)' <=> IsFallback(a, r)
    BY <1>8, Zenon DEF IsFallback
  <2> QED BY <1>8, <2>2, <2>3, Zenon DEF SameAt
<1>19. Becomes(a, p, Kind(q))
  <2>1. LiveKind(a)' = [LiveKind(a) EXCEPT ![p] = Kind(q)]
    BY <1>1, <1>4, <1>15, <1>17, <1>18, OtherKind
  <2>2. \A x \in Allocators : x # a => LiveKind(x)' = LiveKind(x)
    BY <1>7, <1>8, OthersSame, Zenon
  <2> QED BY <2>1, <2>2, Zenon DEF Becomes
<1> QED BY <1>4, <1>8, <1>15, <1>16, <1>19, Zenon

LEMMA FallbackStep ==
  ASSUME SInv, NEW a \in Allocators, NEW q \in Requests, AllocateFallback(a, q)
  PROVE  /\ SInv' /\ \E p \in Pointers :
               /\ answer' = [answer EXCEPT ![a] = Answer("allocated", p, Kind(q))]
               /\ LiveKind(a)[p] = Free /\ Becomes(a, p, Kind(q))
<1>m. PICK m : m = [size |-> Size(q), alignment |-> q.alignment]
  BY Zenon
<1>0. TypeOK
  BY Zenon DEF SInv
<1>1. m \in [size : Nat, alignment : Nat] /\ Kind(q) = Direct(m)
  BY <1>m, KindFacts, Zenon DEF AllocateFallback
<1>2. PICK s \in Slabs \ outstanding :
        /\ fallback' = [fallback EXCEPT ![a] = Extended(@, s, m)]
        /\ outstanding' = outstanding \cup {s}
        /\ Succeeds(a, q, [slab |-> s, block |-> 0])
  BY <1>m, Zenon DEF AllocateFallback
<1> DEFINE p == [slab |-> s, block |-> 0]
<1>3. p \in Pointers /\ p.slab = s /\ p.block = 0
  BY SegregatedAssumption DEF Pointers, Blocks
<1>4. /\ answer' = [answer EXCEPT ![a] = Answer("allocated", p, Kind(q))]
      /\ UNCHANGED <<state, pools>> /\ state[a] = "open"
  BY <1>2, Zenon DEF AllocateFallback, Succeeds, Requested
<1>5. Owned(a) \subseteq outstanding /\ s \notin ChunkSlabs(a) /\ s \notin DOMAIN fallback[a]
      /\ ChunkSlabs(a) \cap DOMAIN fallback[a] = {}
  BY <1>2 DEF Owned, SInv, SegregatedInvariant, ProviderBalanced
<1>6. /\ DOMAIN fallback' = Allocators
      /\ \A x \in Allocators : x # a => fallback'[x] = fallback[x]
      /\ DOMAIN fallback'[a] = DOMAIN fallback[a] \cup {s}
      /\ fallback'[a][s] = m
      /\ \A x \in DOMAIN fallback[a] : fallback'[a][x] = fallback[a][x]
  BY <1>0, <1>2, <1>5, Zenon DEF TypeOK, Extended
<1>7. ChunkSlabs(a)' = ChunkSlabs(a) /\ OwnSlabsDiffer(a)'
  <2>1. OwnSlabsDiffer(a)
    BY SlabUnique DEF OwnSlabsDiffer
  <2> QED BY <1>4, <2>1 DEF ChunkSlabs, OwnSlabsDiffer, ClassIndices
<1>8. SInv'
  <2>1. TypeOK'
    <3>1. \A x \in Allocators : DOMAIN fallback'[x] \subseteq Slabs
      BY <1>0, <1>2, <1>6, Zenon DEF TypeOK
    <3>2. \A x \in Allocators : \A y \in DOMAIN fallback'[x] : fallback'[x][y] \in [size : Nat, alignment : Nat]
      BY <1>0, <1>1, <1>6, Zenon DEF TypeOK
    <3> QED BY <1>0, <1>2, <1>4, <1>6, <3>1, <3>2, Zenon DEF TypeOK, ClassIndices, Blocks
  <2>2. Owned(a)' = Owned(a) \cup {s} /\ ChunkSlabs(a)' \cap DOMAIN fallback'[a] = {}
    BY <1>5, <1>6, <1>7, Zenon DEF Owned
  <2> QED BY <1>2, <1>4, <1>5, <1>6, <1>7, <2>1, <2>2, Rebalance, Zenon
<1>9. LiveKind(a)[p] = Free
  <2>1. ~ IsFallback(a, p) /\ \A d \in ClassIndices : ~ Lives(a, p, d)
    BY <1>3, <1>5, ChunkSlab, Zenon DEF IsFallback, Lives
  <2> QED BY <1>3, <2>1, KindOf, Zenon DEF KindsAre
<1>10. LiveKind(a)'[p] = Direct(m)
  <2>1. IsFallback(a, p)'
    BY <1>3, <1>6, Zenon DEF IsFallback
  <2> QED BY <1>3, <1>6, <1>8, <2>1, KindAfter, Zenon
<1>11. ASSUME NEW r \in Pointers, r # p PROVE SameAt(a, r)
  <2>1. r.slab = s => r.block # 0
    BY <1>11, Zenon DEF Pointers
  <2>2. \A d \in ClassIndices : Lives(a, r, d)' <=> Lives(a, r, d)
    BY <1>4, Zenon DEF Lives
  <2>3. IsFallback(a, r)' <=> IsFallback(a, r)
    BY <1>6, <2>1, Zenon DEF IsFallback
  <2>4. IsFallback(a, r) => fallback'[a][r.slab] = fallback[a][r.slab]
    BY <1>6, Zenon DEF IsFallback
  <2> QED BY <2>2, <2>3, <2>4, Zenon DEF SameAt
<1>12. Becomes(a, p, Kind(q))
  <2>1. LiveKind(a)' = [LiveKind(a) EXCEPT ![p] = Kind(q)]
    BY <1>1, <1>3, <1>8, <1>10, <1>11, OtherKind
  <2>2. \A x \in Allocators : x # a => LiveKind(x)' = LiveKind(x)
    BY <1>4, <1>6, OthersSame, Zenon
  <2> QED BY <2>1, <2>2, Zenon DEF Becomes
<1> QED BY <1>3, <1>4, <1>8, <1>9, <1>12, Zenon

LEMMA NothingMoves ==
  ASSUME SInv, UNCHANGED <<state, pools, fallback, outstanding>>, DOMAIN answer' = Allocators
  PROVE  SInv' /\ \A b \in Allocators : LiveKind(b)' = LiveKind(b)
<1>1. TypeOK'
  BY Zenon DEF SInv, TypeOK, ClassIndices, Blocks
<1>2. \A a : ChunkSlabs(a)' = ChunkSlabs(a)
  BY DEF ChunkSlabs, ClassIndices
<1>3. ProviderBalanced'
  BY <1>2 DEF SInv, SegregatedInvariant, ProviderBalanced, ClassIndices
<1>4. SegregatedInvariant'
  BY <1>3, Zenon DEF SInv, SegregatedInvariant, NoChunks, ClassIndices
<1>5. \A b \in Allocators : LiveKind(b)' = LiveKind(b)
  BY DEF LiveKind, LiveFallback, LivePooled, Pointers, Blocks, ClassIndices
<1> QED BY <1>1, <1>4, <1>5, Zenon DEF SInv

\* The provider fails, or gets the slab of an insertion that failed back.
LEMMA FailStep ==
  ASSUME SInv, NEW a \in Allocators, NEW q \in Requests, AllocateFails(a, q) \/ InsertionFails(a, q)
  PROVE  /\ SInv' /\ UNCHANGED <<state, pools, fallback>>
         /\ answer' = [answer EXCEPT ![a] = Answer("failed", NoAddr, Kind(q))]
         /\ \A b \in Allocators : LiveKind(b)' = LiveKind(b)
<1>1. /\ UNCHANGED <<state, pools, fallback, outstanding>>
      /\ answer' = [answer EXCEPT ![a] = Answer("failed", NoAddr, Kind(q))]
  BY Zenon DEF AllocateFails, InsertionFails, Fails
<1>2. DOMAIN answer' = Allocators
  BY <1>1, Zenon DEF SInv, TypeOK
<1> QED BY <1>1, <1>2, NothingMoves, Zenon

LEMMA RejectedStep ==
  ASSUME SInv, NEW a \in Allocators, NEW p, NEW k, DeallocateRejected(a, p, k)
  PROVE  /\ SInv' /\ UNCHANGED <<state, pools, fallback>>
         /\ answer' = [answer EXCEPT ![a] = Answer("refused", p, k)]
         /\ \A b \in Allocators : LiveKind(b)' = LiveKind(b)
<1>1. /\ UNCHANGED <<state, pools, fallback, outstanding>>
      /\ answer' = [answer EXCEPT ![a] = Answer("refused", p, k)]
  BY Zenon DEF DeallocateRejected
<1>2. DOMAIN answer' = Allocators
  BY <1>1, Zenon DEF SInv, TypeOK
<1> QED BY <1>1, <1>2, NothingMoves, Zenon

\* A chunk that has become empty goes back to the provider.
LEMMA RemoveStep ==
  ASSUME SInv, NEW a \in Allocators, NEW c \in ClassIndices, NEW i \in DOMAIN pools[a][c],
         NEW p \in Pointers, p.slab = pools[a][c][i].slab, pools[a][c][i].live \ {p.block} = {},
         pools' = [pools EXCEPT ![a][c] = RemoveAt(@, i)],
         outstanding' = outstanding \ {pools[a][c][i].slab}, state[a] = "open",
         UNCHANGED <<state, fallback>>, DOMAIN answer' = Allocators
  PROVE  SInv' /\ Becomes(a, p, Free)
<1>p. PICK t : t = pools[a][c]
  BY Zenon
<1>u. PICK u : u = RemoveAt(t, i)
  BY Zenon
<1>s. PICK s : s = t[i].slab
  BY Zenon
<1>0. TypeOK
  BY Zenon DEF SInv
<1>1. t \in Seq(Chunks) /\ DOMAIN t = 1 .. Len(t) /\ Len(t) \in Nat /\ i \in 1 .. Len(t)
  BY <1>p, <1>0, PoolFacts
<1>2. /\ u \in Seq(Chunks) /\ DOMAIN u = 1 .. Len(t) - 1
      /\ \A j \in 1 .. Len(t) - 1 : u[j] = t[IF j < i THEN j ELSE j + 1]
  BY <1>1, <1>u, RemoveAtFacts, Zenon
<1>3. /\ pools' \in [Allocators -> [ClassIndices -> Seq(Chunks)]]
      /\ pools'[a][c] = u /\ \A d \in ClassIndices : d # c => pools'[a][d] = pools[a][d]
      /\ \A x \in Allocators : x # a => pools'[x] = pools[x]
  <2>1. pools' = Replaced(a, c, u)
    BY <1>p, <1>u, Zenon DEF Replaced
  <2>2. u \in Seq(Chunks)
    BY <1>2, Zenon
  <2> QED BY <1>0, <2>1, <2>2, ReplaceClass
\* The chunk that is now at j was at Was(d, j).
<1> DEFINE Was(d, j) == IF d = c THEN (IF j < i THEN j ELSE j + 1) ELSE j
<1>4. ASSUME NEW d \in ClassIndices, NEW j \in DOMAIN pools'[a][d]
      PROVE  Was(d, j) \in DOMAIN pools[a][d] /\ pools'[a][d][j] = pools[a][d][Was(d, j)] /\ <<d, Was(d, j)>> # <<c, i>>
  <2>1. CASE d = c
    <3>1. j \in 1 .. Len(t) - 1
      BY <1>2, <1>3, <2>1, Zenon
    <3>2. Was(c, j) \in 1 .. Len(t) /\ Was(c, j) # i
      BY <1>1, <3>1
    <3> QED BY <1>p, <1>1, <1>2, <1>3, <2>1, <3>1, <3>2, Zenon
  <2>2. CASE d # c
    BY <1>3, <2>2, Zenon
  <2> QED BY <2>1, <2>2, Zenon
<1>5. ASSUME NEW d \in ClassIndices, NEW j \in DOMAIN pools[a][d], <<d, j>> # <<c, i>>
      PROVE  \E k \in DOMAIN pools'[a][d] : pools'[a][d][k] = pools[a][d][j]
  <2>1. CASE d = c
    <3>1. j \in 1 .. Len(t) /\ j # i
      BY <1>p, <1>1, <1>5, <2>1, Zenon
    <3>2. PICK k \in Int : k = IF j < i THEN j ELSE j - 1
      BY <1>1, <3>1
    <3>3. k \in 1 .. Len(t) - 1 /\ (IF k < i THEN k ELSE k + 1) = j
      BY <1>1, <3>1, <3>2
    <3> QED BY <1>p, <1>2, <1>3, <2>1, <3>3, Zenon
  <2>2. CASE d # c
    BY <1>3, <2>2, Zenon
  <2> QED BY <2>1, <2>2, Zenon
<1>6. \A d, e \in ClassIndices : \A j \in DOMAIN pools'[a][d], k \in DOMAIN pools'[a][e] :
         d = e /\ Was(d, j) = Was(e, k) => j = k
  <2> SUFFICES ASSUME NEW d \in ClassIndices, NEW j \in DOMAIN pools'[a][d], NEW k \in DOMAIN pools'[a][d],
                      Was(d, j) = Was(d, k)
               PROVE  j = k
    OBVIOUS
  <2>1. CASE d = c
    <3>1. j \in Int /\ k \in Int /\ i \in Int
      BY <1>1, <1>2, <1>3, <2>1
    <3> QED BY <2>1, <3>1
  <2>2. CASE d # c
    BY <2>2, Zenon
  <2> QED BY <2>1, <2>2, Zenon
<1> HIDE DEF Was
<1>7. OwnSlabsDiffer(a)'
  <2> SUFFICES ASSUME NEW d \in ClassIndices, NEW e \in ClassIndices,
                      NEW j \in DOMAIN pools'[a][d], NEW k \in DOMAIN pools'[a][e],
                      pools'[a][d][j].slab = pools'[a][e][k].slab
               PROVE  d = e /\ j = k
    BY Zenon DEF OwnSlabsDiffer, ClassIndices
  <2>1. d = e /\ Was(d, j) = Was(e, k)
    BY <1>4, SlabUnique
  <2> QED BY <1>6, <2>1, Zenon
<1>8. ChunkSlabs(a)' = ChunkSlabs(a) \ {s}
  <2>1. \A x : x \in ChunkSlabs(a)' <=>
           \E d \in ClassIndices : \E j \in DOMAIN pools'[a][d] : pools'[a][d][j].slab = x
    BY DEF ChunkSlabs, ClassIndices
  <2>2. ASSUME NEW x \in ChunkSlabs(a)' PROVE x \in ChunkSlabs(a) \ {s}
    <3>1. PICK d \in ClassIndices : \E j \in DOMAIN pools'[a][d] : pools'[a][d][j].slab = x
      BY <2>1, <2>2, Zenon
    <3>2. PICK j \in DOMAIN pools'[a][d] : pools'[a][d][j].slab = x
      BY <3>1, Zenon
    <3>3. PICK k \in DOMAIN pools[a][d] : pools[a][d][k].slab = x /\ <<d, k>> # <<c, i>>
      BY <1>4, <3>2, Zenon
    <3>4. x # s
      BY <1>p, <1>s, <3>3, SlabUnique
    <3> QED BY <3>3, <3>4, ChunkSlab, Zenon
  <2>3. ASSUME NEW x \in ChunkSlabs(a), x # s PROVE x \in ChunkSlabs(a)'
    <3>1. PICK d \in ClassIndices : \E j \in DOMAIN pools[a][d] : pools[a][d][j].slab = x
      BY <2>3, ChunkSlab
    <3>2. PICK j \in DOMAIN pools[a][d] : pools[a][d][j].slab = x
      BY <3>1, Zenon
    <3>3. <<d, j>> # <<c, i>>
      BY <1>p, <1>s, <2>3, <3>2, Zenon
    <3> QED BY <1>5, <2>1, <3>2, <3>3
  <2> QED BY <2>2, <2>3, Zenon
<1>9. s \in ChunkSlabs(a) /\ Owned(a) \subseteq outstanding /\ ChunkSlabs(a) \cap DOMAIN fallback[a] = {}
  <2>1. s \in ChunkSlabs(a)
    BY <1>p, <1>s, ChunkSlab, Zenon
  <2> QED BY <2>1 DEF Owned, SInv, SegregatedInvariant, ProviderBalanced
<1>10. SInv'
  <2>1. TypeOK'
    BY <1>0, <1>3, Zenon DEF TypeOK, Chunks, ClassIndices, Blocks
  <2>2. Owned(a)' = Owned(a) \ {s} /\ ChunkSlabs(a)' \cap DOMAIN fallback'[a] = {}
    BY <1>8, <1>9, Zenon DEF Owned
  <2>3. outstanding' = (outstanding \ Owned(a)) \cup Owned(a)'
    BY <1>p, <1>s, <1>9, <2>2, Zenon DEF Owned
  <2> QED BY <1>3, <1>7, <2>1, <2>2, <2>3, Rebalance, Zenon
<1>11. ASSUME NEW d \in ClassIndices PROVE ~ Lives(a, p, d)'
  <2>1. SUFFICES ASSUME NEW j \in DOMAIN pools'[a][d], pools'[a][d][j].slab = p.slab PROVE FALSE
    BY Zenon DEF Lives
  <2>2. p.slab \in ChunkSlabs(a)'
    BY <2>1 DEF ChunkSlabs, ClassIndices
  <2> QED BY <1>p, <1>s, <1>8, <2>2, Zenon
<1>12. LiveKind(a)'[p] = Free
  <2>1. ~ IsFallback(a, p)'
    BY <1>p, <1>s, <1>9, Zenon DEF IsFallback
  <2> QED BY <1>10, <1>11, <2>1, KindAfter, Zenon
<1>13. ASSUME NEW r \in Pointers, r # p PROVE SameAt(a, r)
  <2>1. r.slab = s => r.block \notin t[i].live
    <3>1. r.slab = p.slab => r.block # p.block
      BY <1>13 DEF Pointers
    <3> QED BY <1>p, <1>s, <3>1, Zenon
  <2>2. ASSUME NEW d \in ClassIndices PROVE Lives(a, r, d)' <=> Lives(a, r, d)
    <3>1. Lives(a, r, d)' => Lives(a, r, d)
      BY <1>4 DEF Lives
    <3>2. ASSUME Lives(a, r, d) PROVE Lives(a, r, d)'
      <4>1. PICK j \in DOMAIN pools[a][d] : pools[a][d][j].slab = r.slab /\ r.block \in pools[a][d][j].live
        BY <3>2, Zenon DEF Lives
      <4>2. <<d, j>> # <<c, i>>
        BY <1>p, <1>s, <2>1, <4>1, Zenon
      <4> QED BY <1>5, <4>1, <4>2 DEF Lives
    <3> QED BY <3>1, <3>2, Zenon
  <2>3. IsFallback(a, r)' <=> IsFallback(a, r)
    BY Zenon DEF IsFallback
  <2> QED BY <2>2, <2>3, Zenon DEF SameAt
<1> QED
  <2>1. LiveKind(a)' = [LiveKind(a) EXCEPT ![p] = Free]
    BY <1>10, <1>12, <1>13, OtherKind
  <2>2. \A x \in Allocators : x # a => LiveKind(x)' = LiveKind(x)
    BY <1>3, OthersSame, Zenon
  <2> QED BY <1>10, <2>1, <2>2, Zenon DEF Becomes

\* The chunk stays with one live block less.
LEMMA ClearStep ==
  ASSUME SInv, NEW a \in Allocators, NEW c \in ClassIndices, NEW i \in DOMAIN pools[a][c],
         NEW p \in Pointers, p.slab = pools[a][c][i].slab, NEW L, L = pools[a][c][i].live \ {p.block},
         pools' = Replaced(a, c, WithLive(pools[a][c], i, L)), state[a] = "open",
         UNCHANGED <<state, fallback, outstanding>>, DOMAIN answer' = Allocators
  PROVE  SInv' /\ Becomes(a, p, Free)
<1>p. PICK t : t = pools[a][c]
  BY Zenon
<1>u. PICK u : u = WithLive(t, i, L)
  BY Zenon
<1>0. TypeOK
  BY Zenon DEF SInv
<1>1. t \in Seq(Chunks) /\ DOMAIN t = 1 .. Len(t) /\ t[i] \in Chunks
  BY <1>p, <1>0, PoolFacts, Zenon
<1>2. L \in SUBSET Blocks
  BY <1>p, <1>1, Zenon DEF Chunks
<1>3. /\ u \in Seq(Chunks) /\ DOMAIN u = DOMAIN t
      /\ \A j \in DOMAIN t : u[j].slab = t[j].slab /\ u[j].live = IF j = i THEN L ELSE t[j].live
  <2>1. t \in Seq(Chunks) /\ i \in DOMAIN t /\ L \in SUBSET Blocks
    BY <1>p, <1>1, <1>2, Zenon
  <2> QED BY <1>u, <2>1, SetLive
<1>4. pools' = Replaced(a, c, u)
  BY <1>p, <1>u, Zenon
<1>s. u \in Seq(Chunks)
  BY <1>3, Zenon
<1>5. /\ pools' \in [Allocators -> [ClassIndices -> Seq(Chunks)]]
      /\ pools'[a][c] = u
      /\ \A d \in ClassIndices : d # c => pools'[a][d] = pools[a][d]
      /\ \A x \in Allocators : x # a => pools'[x] = pools[x]
  BY <1>0, <1>s, <1>4, ReplaceClass, Zenon
<1>6. SInv'
  <2>1. DOMAIN u = DOMAIN pools[a][c] /\ \A j \in DOMAIN u : u[j].slab = pools[a][c][j].slab
    BY <1>p, <1>3, Zenon
  <2> QED BY <1>3, <1>4, <2>1, SameSlabs, Zenon
<1>7. LiveKind(a)'[p] = Free
  <2>1. ASSUME NEW d \in ClassIndices, Lives(a, p, d)' PROVE FALSE
    <3>1. PICK j \in DOMAIN pools'[a][d] : pools'[a][d][j].slab = p.slab /\ p.block \in pools'[a][d][j].live
      BY <2>1, Zenon DEF Lives
    <3>2. j \in DOMAIN pools[a][d] /\ pools[a][d][j].slab = p.slab
      BY <1>p, <1>3, <1>5, <3>1, Zenon
    <3>3. d = c /\ j = i
      BY <3>2, SlabUnique
    <3> QED BY <1>p, <1>3, <1>5, <3>1, <3>3, Zenon
  <2>2. p.slab \in ChunkSlabs(a)
    BY ChunkSlab, Zenon
  <2>3. ~ IsFallback(a, p)'
    BY <2>2, Zenon DEF IsFallback, SInv, SegregatedInvariant, ProviderBalanced
  <2> QED BY <1>6, <2>1, <2>3, KindAfter, Zenon
<1>8. ASSUME NEW r \in Pointers, r # p PROVE SameAt(a, r)
  <2>1. r.slab = t[i].slab => r.block # p.block
    BY <1>p, <1>8 DEF Pointers
  <2>2. Lives(a, r, c)' <=> Lives(a, r, c)
    <3>1. Lives(a, r, c) <=> \E j \in DOMAIN t : t[j].slab = r.slab /\ r.block \in t[j].live
      BY <1>p, Zenon DEF Lives
    <3>2. Lives(a, r, c)' <=> \E j \in DOMAIN u : u[j].slab = r.slab /\ r.block \in u[j].live
      BY <1>5, Zenon DEF Lives
    <3>3. L = t[i].live \ {p.block}
      BY <1>p, Zenon
    <3> QED BY <1>3, <2>1, <3>1, <3>2, <3>3, Zenon
  <2>3. \A d \in ClassIndices : d # c => (Lives(a, r, d)' <=> Lives(a, r, d))
    BY <1>5, Zenon DEF Lives
  <2>4. IsFallback(a, r)' <=> IsFallback(a, r)
    BY Zenon DEF IsFallback
  <2> QED BY <2>2, <2>3, <2>4, Zenon DEF SameAt
<1> QED
  <2>1. LiveKind(a)' = [LiveKind(a) EXCEPT ![p] = Free]
    BY <1>6, <1>7, <1>8, OtherKind
  <2>2. \A x \in Allocators : x # a => LiveKind(x)' = LiveKind(x)
    BY <1>5, OthersSame, Zenon
  <2> QED BY <1>6, <2>1, <2>2, Zenon DEF Becomes

LEMMA ReturnPooledStep ==
  ASSUME SInv, NEW a \in Allocators, NEW p \in Pointers, NEW k, DeallocatePooled(a, p, k)
  PROVE  /\ SInv' /\ Becomes(a, p, Free) /\ UNCHANGED state
         /\ answer' = [answer EXCEPT ![a] = Answer("returned", p, k)]
<1>1. PICK c : c = owning_class(a, p)
  BY Zenon
<1>2. c \in ClassIndices
  BY <1>1, OwnerFacts, Zenon DEF DeallocatePooled
<1>3. /\ answer' = [answer EXCEPT ![a] = Answer("returned", p, k)]
      /\ UNCHANGED <<state, fallback>> /\ state[a] = "open"
  BY Zenon DEF DeallocatePooled, Returned
<1>4. DOMAIN answer' = Allocators
  BY <1>3, Zenon DEF SInv, TypeOK
<1>5. PICK i \in DOMAIN pools[a][c] :
        pools[a][c][i].slab = p.slab /\ Reclaim(a, c, i, pools[a][c][i].live \ {p.block})
  BY <1>1, Zenon DEF DeallocatePooled
<1>6. PICK L : L = pools[a][c][i].live \ {p.block}
  BY Zenon
<1>7. \/ L = {} /\ pools' = [pools EXCEPT ![a][c] = RemoveAt(@, i)]
         /\ outstanding' = outstanding \ {pools[a][c][i].slab}
      \/ pools' = [pools EXCEPT ![a][c] = [@ EXCEPT ![i].live = L]] /\ outstanding' = outstanding
  BY <1>5, <1>6, Zenon DEF Reclaim
<1>8. CASE L = {} /\ pools' = [pools EXCEPT ![a][c] = RemoveAt(@, i)]
           /\ outstanding' = outstanding \ {pools[a][c][i].slab}
  BY <1>2, <1>3, <1>4, <1>5, <1>6, <1>8, RemoveStep, Zenon
<1>9. CASE pools' = [pools EXCEPT ![a][c] = [@ EXCEPT ![i].live = L]] /\ outstanding' = outstanding
  <2>1. pools' = Replaced(a, c, WithLive(pools[a][c], i, L))
    BY <1>9, Zenon DEF Replaced, WithLive
  <2>2. p.slab = pools[a][c][i].slab /\ UNCHANGED <<state, fallback, outstanding>> /\ state[a] = "open"
    BY <1>3, <1>5, <1>9, Zenon
  <2>3. SInv' /\ Becomes(a, p, Free)
    BY <1>2, <1>4, <1>6, <2>1, <2>2, ClearStep, Zenon
  <2> QED BY <1>3, <2>3, Zenon
<1> QED BY <1>3, <1>7, <1>8, <1>9, Zenon

LEMMA ReturnFallbackStep ==
  ASSUME SInv, NEW a \in Allocators, NEW p \in Pointers, NEW k, DeallocateFallback(a, p, k)
  PROVE  /\ SInv' /\ Becomes(a, p, Free) /\ UNCHANGED state
         /\ answer' = [answer EXCEPT ![a] = Answer("returned", p, k)]
<1>s. PICK s : s = p.slab
  BY Zenon
<1>0. TypeOK
  BY Zenon DEF SInv
<1>1. /\ answer' = [answer EXCEPT ![a] = Answer("returned", p, k)]
      /\ UNCHANGED <<state, pools>> /\ state[a] = "open" /\ outstanding' = outstanding \ {s}
      /\ fallback' = [fallback EXCEPT ![a] = Without(@, s)]
  BY <1>s, Zenon DEF DeallocateFallback, Returned
<1>2. s \in DOMAIN fallback[a] /\ p.block = 0
  BY <1>s, Zenon DEF DeallocateFallback, Accepts, Matches, ServedAs
<1>3. Owned(a) \subseteq outstanding /\ ChunkSlabs(a) \cap DOMAIN fallback[a] = {}
  BY DEF Owned, SInv, SegregatedInvariant, ProviderBalanced
<1>4. /\ DOMAIN fallback' = Allocators
      /\ \A x \in Allocators : x # a => fallback'[x] = fallback[x]
      /\ DOMAIN fallback'[a] = DOMAIN fallback[a] \ {s}
      /\ \A x \in DOMAIN fallback[a] : x # s => fallback'[a][x] = fallback[a][x]
  BY <1>0, <1>1, Zenon DEF TypeOK, Without
<1>5. ChunkSlabs(a)' = ChunkSlabs(a) /\ OwnSlabsDiffer(a)'
  <2>1. OwnSlabsDiffer(a)
    BY SlabUnique DEF OwnSlabsDiffer
  <2> QED BY <1>1, <2>1 DEF ChunkSlabs, OwnSlabsDiffer, ClassIndices
<1>6. SInv'
  <2>1. TypeOK'
    <3>1. \A x \in Allocators : DOMAIN fallback'[x] \subseteq Slabs
      BY <1>0, <1>4, Zenon DEF TypeOK
    <3>2. \A x \in Allocators : \A y \in DOMAIN fallback'[x] : fallback'[x][y] \in [size : Nat, alignment : Nat]
      BY <1>0, <1>4, Zenon DEF TypeOK
    <3> QED BY <1>0, <1>1, <1>4, <3>1, <3>2, Zenon DEF TypeOK, ClassIndices, Blocks
  <2>2. Owned(a)' = Owned(a) \ {s} /\ ChunkSlabs(a)' \cap DOMAIN fallback'[a] = {}
    BY <1>2, <1>3, <1>4, <1>5, Zenon DEF Owned
  <2>3. outstanding' = (outstanding \ Owned(a)) \cup Owned(a)'
    BY <1>1, <1>2, <1>3, <2>2, Zenon DEF Owned
  <2> QED BY <1>1, <1>4, <1>5, <2>1, <2>2, <2>3, Rebalance, Zenon
<1>7. LiveKind(a)'[p] = Free
  <2>1. ~ IsFallback(a, p)'
    BY <1>s, <1>4, Zenon DEF IsFallback
  <2>2. \A d \in ClassIndices : ~ Lives(a, p, d)'
    BY <1>s, <1>1, <1>2, <1>3, ChunkSlab, Zenon DEF Lives
  <2> QED BY <1>6, <2>1, <2>2, KindAfter, Zenon
<1>8. ASSUME NEW r \in Pointers, r # p PROVE SameAt(a, r)
  <2>1. r.slab = s => r.block # 0
    BY <1>s, <1>2, <1>8 DEF Pointers
  <2>2. \A d \in ClassIndices : Lives(a, r, d)' <=> Lives(a, r, d)
    BY <1>1, Zenon DEF Lives
  <2>3. IsFallback(a, r)' <=> IsFallback(a, r)
    BY <1>4, <2>1, Zenon DEF IsFallback
  <2>4. IsFallback(a, r) => fallback'[a][r.slab] = fallback[a][r.slab]
    BY <1>4, <2>1, Zenon DEF IsFallback
  <2> QED BY <2>2, <2>3, <2>4, Zenon DEF SameAt
<1>9. Becomes(a, p, Free)
  <2>1. LiveKind(a)' = [LiveKind(a) EXCEPT ![p] = Free]
    BY <1>6, <1>7, <1>8, OtherKind, Zenon
  <2>2. \A x \in Allocators : x # a => LiveKind(x)' = LiveKind(x)
    BY <1>1, <1>4, OthersSame, Zenon
  <2> QED BY <2>1, <2>2, Zenon DEF Becomes
<1> QED BY <1>1, <1>6, <1>9, Zenon

\* An allocator that is not open owns nothing.
LEMMA NothingOwned ==
  ASSUME NEW a \in Allocators, pools[a] = NoChunks, fallback[a] = <<>>
  PROVE  /\ ChunkSlabs(a) = {} /\ Owned(a) = {}
         /\ \A p \in Pointers : ~ IsFallback(a, p) /\ \A c \in ClassIndices : ~ Lives(a, p, c)
<1>1. DOMAIN fallback[a] = {} /\ \A c \in ClassIndices : DOMAIN pools[a][c] = {}
  BY DEF NoChunks
<1> QED BY <1>1, Zenon DEF ChunkSlabs, Owned, IsFallback, Lives

LEMMA ConstructStep ==
  ASSUME SInv, NEW a \in Allocators, Construct(a)
  PROVE  /\ SInv' /\ UNCHANGED answer
         /\ \A b \in Allocators : LiveKind(b)' = LiveKind(b)
         /\ \A b \in Allocators : state[b] = "open" => state'[b] = "open"
<1>0. TypeOK
  BY Zenon DEF SInv
<1>1. pools[a] = NoChunks /\ fallback[a] = <<>> /\ state[a] = "new"
  BY Zenon DEF SInv, SegregatedInvariant, Construct
<1>2. PICK slab \in [ClassIndices -> Slabs \ outstanding] :
        /\ \A c, d \in ClassIndices : slab[c] = slab[d] => c = d
        /\ pools' = [pools EXCEPT ![a] = [c \in ClassIndices |-> <<[slab |-> slab[c], live |-> {}]>>]]
        /\ outstanding' = outstanding \cup {slab[c] : c \in ClassIndices}
  BY Zenon DEF Construct
<1>3. /\ UNCHANGED <<fallback, answer>> /\ state' = [state EXCEPT ![a] = "open"]
      /\ \A b \in Allocators : b # a => pools'[b] = pools[b] /\ fallback'[b] = fallback[b] /\ state'[b] = state[b]
      /\ state'[a] = "open"
  BY <1>0, <1>2, Zenon DEF Construct, TypeOK
<1>4. ASSUME NEW c \in ClassIndices
      PROVE  /\ pools'[a][c] \in Seq(Chunks) /\ DOMAIN pools'[a][c] = {1}
             /\ pools'[a][c][1].slab = slab[c] /\ pools'[a][c][1].live = {}
  <2>1. pools'[a][c] = <<[slab |-> slab[c], live |-> {}]>>
    BY <1>0, <1>2, Zenon DEF TypeOK
  <2>2. [slab |-> slab[c], live |-> {}] \in Chunks
    BY <1>2, Zenon DEF Chunks
  <2> QED BY <2>1, <2>2
<1>5. TypeOK'
  <2>1. pools' \in [Allocators -> [ClassIndices -> Seq(Chunks)]]
    <3>1. DOMAIN pools' = Allocators /\ \A b \in Allocators : b # a => pools'[b] \in [ClassIndices -> Seq(Chunks)]
      BY <1>0, <1>2, <1>3, Zenon DEF TypeOK, Chunks
    <3>2. pools'[a] = [c \in ClassIndices |-> pools'[a][c]]
      BY <1>0, <1>2, Zenon DEF TypeOK
    <3>3. pools'[a] \in [ClassIndices -> Seq(Chunks)]
      BY <1>4, <3>2, Zenon
    <3>4. pools' = [b \in Allocators |-> pools'[b]]
      BY <1>0, <1>2, Zenon DEF TypeOK
    <3> HIDE DEF Chunks
    <3> QED BY <3>1, <3>3, <3>4, Zenon
  <2>2. state' \in [Allocators -> {"new", "open", "closed"}] /\ outstanding' \subseteq Slabs
    BY <1>0, <1>2, <1>3 DEF TypeOK
  <2> QED BY <1>0, <1>3, <2>1, <2>2, Zenon DEF TypeOK, Chunks, ClassIndices, Blocks
<1>6. ChunkSlabs(a)' = {slab[c] : c \in ClassIndices}
  <2>1. ChunkSlabs(a)' = UNION {{pools'[a][c][i].slab : i \in DOMAIN pools'[a][c]} : c \in ClassIndices}
    BY Zenon DEF ChunkSlabs, ClassIndices
  <2>2. ASSUME NEW s \in ChunkSlabs(a)' PROVE s \in {slab[c] : c \in ClassIndices}
    BY <1>4, <2>1, <2>2
  <2>3. ASSUME NEW c \in ClassIndices PROVE slab[c] \in ChunkSlabs(a)'
    BY <1>4, <2>1
  <2> QED BY <2>2, <2>3, Zenon
<1>7. OwnSlabsDiffer(a)'
  BY <1>2, <1>4 DEF OwnSlabsDiffer, ClassIndices
<1>8. Owned(a) = {} /\ \A p \in Pointers : ~ IsFallback(a, p) /\ \A c \in ClassIndices : ~ Lives(a, p, c)
  BY <1>1, NothingOwned, Zenon
<1>9. DOMAIN fallback'[a] = {}
  BY <1>1, <1>3
<1>10. SInv'
  <2>1. Owned(a)' = {slab[c] : c \in ClassIndices}
    BY <1>6, <1>9, Zenon DEF Owned
  <2>2. Owned(a)' \subseteq Slabs \ outstanding /\ outstanding' = (outstanding \ Owned(a)) \cup Owned(a)'
    BY <1>2, <1>8, <2>1, Zenon
  <2>3. ChunkSlabs(a)' \cap DOMAIN fallback'[a] = {}
    BY <1>9, Zenon
  <2> QED BY <1>3, <1>5, <1>7, <2>2, <2>3, Rebalance, Zenon
<1>11. ASSUME NEW p \in Pointers PROVE SameAt(a, p)
  <2>1. \A c \in ClassIndices : ~ Lives(a, p, c)'
    BY <1>4, Zenon DEF Lives
  <2>2. ~ IsFallback(a, p)'
    BY <1>9, Zenon DEF IsFallback
  <2> QED BY <1>8, <2>1, <2>2, Zenon DEF SameAt
<1>12. LiveKind(a)' = LiveKind(a)
  <2>1. \A p \in Pointers : LiveKind(a)'[p] = LiveKind(a)[p]
    BY <1>10, <1>11, SameKind, Zenon
  <2>2. /\ LiveKind(a) = [r \in Pointers |-> LiveKind(a)[r]]
        /\ LiveKind(a)' = [r \in Pointers |-> LiveKind(a)'[r]]
    BY Zenon DEF LiveKind
  <2> QED BY <2>1, <2>2, Zenon
<1>13. \A b \in Allocators : b # a => LiveKind(b)' = LiveKind(b)
  BY <1>3, OthersSame, Zenon
<1> QED BY <1>1, <1>3, <1>10, <1>12, <1>13, Zenon

LEMMA CloseStep ==
  ASSUME SInv, NEW a \in Allocators, Close(a)
  PROVE  /\ SInv' /\ answer' = [answer EXCEPT ![a] = Answer("none", NoAddr, Unsized)]
         /\ LiveKind(a)' = [p \in Pointers |-> Free]
         /\ \A b \in Allocators : b # a => LiveKind(b)' = LiveKind(b) /\ state'[b] = state[b]
<1>0. TypeOK
  BY Zenon DEF SInv
<1>1. /\ answer' = [answer EXCEPT ![a] = Answer("none", NoAddr, Unsized)]
      /\ outstanding' = outstanding \ Owned(a)
      /\ pools' = [pools EXCEPT ![a] = NoChunks] /\ fallback' = [fallback EXCEPT ![a] = <<>>]
      /\ state' = [state EXCEPT ![a] = "closed"]
  BY Zenon DEF Close, Owned
<1>2. /\ pools'[a] = NoChunks /\ fallback'[a] = <<>>
      /\ \A b \in Allocators : b # a => pools'[b] = pools[b] /\ fallback'[b] = fallback[b] /\ state'[b] = state[b]
  BY <1>0, <1>1, Zenon DEF TypeOK
<1>3. DOMAIN fallback'[a] = {} /\ \A c \in ClassIndices : DOMAIN pools'[a][c] = {}
  BY <1>2 DEF NoChunks
<1>4. TypeOK'
  <2>1. NoChunks \in [ClassIndices -> Seq(Chunks)]
    BY DEF NoChunks
  <2>2. pools' \in [Allocators -> [ClassIndices -> Seq(Chunks)]]
    <3>1. pools \in [Allocators -> [ClassIndices -> Seq(Chunks)]]
      BY <1>0, Zenon DEF TypeOK, Chunks
    <3> HIDE DEF Chunks
    <3> QED BY <1>1, <2>1, <3>1, Zenon
  <2>3. DOMAIN fallback' = Allocators /\ DOMAIN answer' = Allocators
    BY <1>0, <1>1, Zenon DEF TypeOK
  <2>4. \A b \in Allocators : DOMAIN fallback'[b] \subseteq Slabs
    BY <1>0, <1>2, <1>3, Zenon DEF TypeOK
  <2>5. \A b \in Allocators : \A s \in DOMAIN fallback'[b] : fallback'[b][s] \in [size : Nat, alignment : Nat]
    BY <1>0, <1>2, <1>3, Zenon DEF TypeOK
  <2>6. state' \in [Allocators -> {"new", "open", "closed"}] /\ outstanding' \subseteq Slabs
    BY <1>0, <1>1, Zenon DEF TypeOK
  <2> QED BY <2>2, <2>3, <2>4, <2>5, <2>6, Zenon DEF TypeOK, Chunks, ClassIndices, Blocks
<1>5. ChunkSlabs(a)' = {} /\ Owned(a)' = {} /\ OwnSlabsDiffer(a)'
  <2>1. ChunkSlabs(a)' = {}
    BY <1>3, Zenon DEF ChunkSlabs, ClassIndices
  <2> QED BY <1>3, <2>1, Zenon DEF Owned, OwnSlabsDiffer, ClassIndices
<1>6. SInv'
  <2>1. outstanding' = (outstanding \ Owned(a)) \cup Owned(a)' /\ Owned(a)' \subseteq Owned(a) \cup (Slabs \ outstanding)
        /\ ChunkSlabs(a)' \cap DOMAIN fallback'[a] = {}
    BY <1>1, <1>5, Zenon
  <2> QED BY <1>2, <1>4, <1>5, <2>1, Rebalance, Zenon
<1>7. \A p \in Pointers : LiveKind(a)'[p] = Free
  <2>1. \A p \in Pointers : ~ IsFallback(a, p)' /\ \A c \in ClassIndices : ~ Lives(a, p, c)'
    BY <1>3, Zenon DEF IsFallback, Lives
  <2> QED BY <1>6, <2>1, KindAfter, Zenon
<1>8. LiveKind(a)' = [p \in Pointers |-> Free]
  <2>1. LiveKind(a)' = [r \in Pointers |-> LiveKind(a)'[r]]
    BY Zenon DEF LiveKind
  <2> QED BY <1>7, <2>1, Zenon
<1>9. \A b \in Allocators : b # a => LiveKind(b)' = LiveKind(b)
  BY <1>2, OthersSame, Zenon
<1> QED BY <1>1, <1>2, <1>6, <1>8, <1>9, Zenon

LEMMA AllocateStep ==
  ASSUME SInv, NEW a \in Allocators, NEW q \in Requests, Allocate(a, q)
  PROVE  /\ SInv' /\ UNCHANGED state /\ state[a] = "open"
         /\ \E p \in Pointers :
               /\ answer' = [answer EXCEPT ![a] = Answer("allocated", p, Kind(q))]
               /\ LiveKind(a)[p] = Free /\ Becomes(a, p, Kind(q))
<1>1. UNCHANGED state /\ state[a] = "open"
  BY Zenon DEF Allocate, AllocatePooled, AllocateGrows, AllocateFallback, Succeeds, Requested
<1>2. CASE AllocatePooled(a, q)
  BY <1>1, <1>2, PooledStep, Zenon
<1>3. CASE AllocateGrows(a, q)
  BY <1>1, <1>3, GrowsStep, Zenon
<1>4. CASE AllocateFallback(a, q)
  BY <1>1, <1>4, FallbackStep, Zenon
<1> QED BY <1>2, <1>3, <1>4, Zenon DEF Allocate

LEMMA DeallocateStep ==
  ASSUME SInv, NEW a \in Allocators, NEW p \in Pointers, NEW k, Deallocate(a, p, k)
  PROVE  /\ SInv' /\ UNCHANGED state /\ Becomes(a, p, Free) /\ Accepts(a, p, k)
         /\ answer' = [answer EXCEPT ![a] = Answer("returned", p, k)]
<1>1. Accepts(a, p, k)
  BY Zenon DEF Deallocate, DeallocatePooled, DeallocateFallback
<1>2. CASE DeallocatePooled(a, p, k)
  BY <1>1, <1>2, ReturnPooledStep, Zenon
<1>3. CASE DeallocateFallback(a, p, k)
  BY <1>1, <1>3, ReturnFallbackStep, Zenon
<1> QED BY <1>2, <1>3, Zenon DEF Deallocate

------------------------------------------------------------------------------
(* Every step of the callers is one of these.                              *)

CallerStep(a) ==
    \/ Construct(a) \/ Close(a)
    \/ \E q \in Requests : Allocate(a, q) \/ AllocateFails(a, q) \/ InsertionFails(a, q)
    \/ \E p \in Pointers, k \in Kinds \cup {Unsized} : Deallocate(a, p, k) \/ DeallocateRejected(a, p, k)

LEMMA KindOfRequest ==
  ASSUME NEW q \in Requests
  PROVE  Kind(q) \in Kinds
  BY Zenon DEF Kinds

LEMMA NextCases ==
  ASSUME BufferInvariant, [Next]_resourceVars
  PROVE  UNCHANGED vars \/ \E a \in Allocators : CallerStep(a)
<1>1. CASE UNCHANGED resourceVars
  BY <1>1, Zenon DEF resourceVars
<1>2. CASE direct /\ (\E a \in Unshared : Step(a))
  BY <1>2, ResourceAssumption, Zenon DEF Step, CallerStep
<1>3. CASE UseResources
  <2>0. \A c \in Containers : ResourceOf[c] \in Allocators
    BY ResourceAssumption, Zenon
  <2>1. CASE \E c \in Containers : Construct(ResourceOf[c])
    BY <2>0, <2>1, Zenon DEF CallerStep
  <2>2. CASE \E c \in Containers : CloseResource(ResourceOf[c])
    BY <2>0, <2>2, Zenon DEF CallerStep, CloseResource
  <2>3. CASE \E c \in Containers, q \in Requests : Acquire(c, q) \/ AcquireFails(c, q)
    BY <2>0, <2>3, Zenon DEF CallerStep, Acquire, AcquireFails
  <2>4. CASE \E c \in Containers : \E b \in buffers[c] : Release(c, b)
    <3>0. PICK c \in Containers : \E b \in buffers[c] : Release(c, b)
      BY <2>4, Zenon
    <3>1. PICK b \in buffers[c] : Release(c, b)
      BY <3>0, Zenon
    <3>2. b.ptr \in Pointers /\ b.request \in Requests
      BY DEF BufferInvariant
    <3>3. Kind(b.request) \in Kinds
      BY <3>2, KindOfRequest, Zenon
    <3> QED BY <2>0, <3>1, <3>2, <3>3, Zenon DEF CallerStep, Release
  <2>5. CASE \E c, d \in Containers : TakeOver(c, d)
    BY <2>5, Zenon DEF TakeOver
  <2> QED BY <1>3, <2>1, <2>2, <2>3, <2>4, <2>5, Zenon DEF UseResources
<1> QED BY <1>1, <1>2, <1>3, Zenon DEF Next

LEMMA CallerKeeps ==
  ASSUME SInv, NEW a \in Allocators, CallerStep(a)
  PROVE  SInv'
<1>1. CASE Construct(a) \/ Close(a)
  BY <1>1, ConstructStep, CloseStep, Zenon
<1>2. CASE \E q \in Requests : Allocate(a, q) \/ AllocateFails(a, q) \/ InsertionFails(a, q)
  BY <1>2, AllocateStep, FailStep, Zenon
<1>3. CASE \E p \in Pointers, k \in Kinds \cup {Unsized} : Deallocate(a, p, k) \/ DeallocateRejected(a, p, k)
  BY <1>3, DeallocateStep, RejectedStep, Zenon
<1> QED BY <1>1, <1>2, <1>3, Zenon DEF CallerStep

LEMMA InitSInv ==
  ASSUME ResourceInit
  PROVE  SInv /\ BufferInvariant /\ ReturnsAccepted
<1>1. TypeOK
  BY DEF ResourceInit, Init, TypeOK, NoChunks
<1>2. \A a \in Allocators : pools[a] = NoChunks /\ fallback[a] = <<>> /\ DOMAIN fallback[a] = {}
  BY DEF ResourceInit, Init
<1>3. \A a \in Allocators : ChunkSlabs(a) = {}
  BY <1>2, NothingOwned, Zenon
<1>4. \A a \in Allocators, c \in ClassIndices : DOMAIN pools[a][c] = {}
  BY <1>2, Zenon DEF NoChunks
<1>5. ProviderBalanced
  BY <1>2, <1>3, <1>4, Zenon DEF ResourceInit, Init, ProviderBalanced
<1>6. BufferInvariant
  BY Zenon DEF ResourceInit, BufferInvariant
<1> QED BY <1>1, <1>2, <1>5, <1>6, Zenon DEF SInv, SegregatedInvariant, ReturnsAccepted, ResourceInit

------------------------------------------------------------------------------
(* Containers.                                                             *)

\* What a step may do to the resources that hold buffers, for the buffers to
\* stay live: it leaves their blocks alone and their resources open.
BuffersKept == \A c \in Containers : \A b \in buffers[c] :
    /\ state'[ResourceOf[c]] = "open"
    /\ LiveKind(ResourceOf[c])'[b.ptr] = LiveKind(ResourceOf[c])[b.ptr]

LEMMA SameBuffers ==
  ASSUME BufferInvariant, BuffersKept, UNCHANGED <<buffers, direct>>
  PROVE  BufferInvariant'
<1>1. \A c \in Containers : \A b \in buffers[c] :
         state'[ResourceOf[c]] = "open" /\ LiveKind(ResourceOf[c])'[b.ptr] = Kind(b.request)
  BY DEF BuffersKept, BufferInvariant
<1>2. Pointers' = Pointers /\ \A q : Kind(q)' = Kind(q)
  BY Zenon DEF Pointers, Blocks, Kind, Pooled, Direct, Invalid, select
<1> QED BY <1>1, <1>2, Zenon DEF BufferInvariant

LEMMA BufferFacts ==
  ASSUME SInv, BufferInvariant, NEW c \in Containers, NEW b \in buffers[c]
  PROVE  /\ ResourceOf[c] \in Allocators /\ b.ptr \in Pointers /\ b.request \in Requests
         /\ state[ResourceOf[c]] = "open" /\ LiveKind(ResourceOf[c])[b.ptr] = Kind(b.request)
         /\ Kind(b.request) # Free
<1>1. b.ptr \in Pointers /\ b.request \in Requests
  BY DEF BufferInvariant
<1> QED BY <1>1, KindFacts, ResourceAssumption, Zenon DEF BufferInvariant

LEMMA AcquireKeeps ==
  ASSUME SInv, BufferInvariant, NEW c \in Containers, NEW q \in Requests, Acquire(c, q), ~ direct, UNCHANGED direct
  PROVE  BufferInvariant'
<1> DEFINE a == ResourceOf[c]
<1>0. a \in Allocators
  BY ResourceAssumption, Zenon
<1>1. PICK p \in Pointers :
        /\ answer' = [answer EXCEPT ![a] = Answer("allocated", p, Kind(q))]
        /\ LiveKind(a)[p] = Free /\ Becomes(a, p, Kind(q))
  BY <1>0, AllocateStep, Zenon DEF Acquire
<1>2. UNCHANGED state /\ state[a] = "open"
  BY <1>0, AllocateStep, Zenon DEF Acquire
<1>3. answer'[a].ptr = p
  BY <1>0, <1>1, Zenon DEF SInv, TypeOK, Answer
<1> DEFINE e == [ptr |-> p, request |-> q]
<1>4. buffers' = [buffers EXCEPT ![c] = @ \cup {e}] /\ e.ptr = p /\ e.request = q
  BY <1>3, Zenon DEF Acquire
<1> HIDE DEF e
<1>5. /\ buffers' \in [Containers -> SUBSET [ptr : Pointers, request : Requests]]
      /\ buffers'[c] = buffers[c] \cup {e}
      /\ \A d \in Containers : d # c => buffers'[d] = buffers[d]
  <2>1. e \in [ptr : Pointers, request : Requests]
    BY <1>1, Zenon DEF e
  <2> QED BY <1>4, <2>1, Zenon DEF BufferInvariant
<1>6. /\ LiveKind(a)'[p] = Kind(q)
      /\ \A r \in Pointers : r # p => LiveKind(a)'[r] = LiveKind(a)[r]
      /\ \A b \in Allocators : b # a => LiveKind(b)' = LiveKind(b)
  BY <1>1, Zenon DEF Becomes, LiveKind
<1>7. \A d \in Containers : \A b \in buffers[d] : ResourceOf[d] = a => b.ptr # p
  BY <1>1, BufferFacts, Zenon
<1>8. ASSUME NEW d \in Containers, NEW b \in buffers'[d]
      PROVE  state'[ResourceOf[d]] = "open" /\ LiveKind(ResourceOf[d])'[b.ptr] = Kind(b.request)
  <2>1. CASE b \in buffers[d]
    BY <1>2, <1>6, <1>7, <2>1, BufferFacts
  <2>2. CASE d = c /\ b = e
    BY <1>2, <1>4, <1>6, <2>2, Zenon
  <2> QED BY <1>5, <2>1, <2>2, Zenon
<1>9. ASSUME NEW d \in Containers, NEW f \in Containers, NEW b \in buffers'[d], NEW g \in buffers'[f],
             ResourceOf[d] = ResourceOf[f] /\ b.ptr = g.ptr
      PROVE  d = f /\ b = g
  <2>1. b \in buffers[d] \/ (d = c /\ b = e)
    BY <1>5, Zenon
  <2>2. g \in buffers[f] \/ (f = c /\ g = e)
    BY <1>5, Zenon
  <2>3. CASE b \in buffers[d] /\ g \in buffers[f]
    BY <1>9, <2>3, Zenon DEF BufferInvariant
  <2>4. CASE d = c /\ b = e /\ g \in buffers[f]
    BY <1>4, <1>7, <1>9, <2>4, Zenon
  <2>5. CASE f = c /\ g = e /\ b \in buffers[d]
    BY <1>4, <1>7, <1>9, <2>5, Zenon
  <2> QED BY <2>1, <2>2, <2>3, <2>4, <2>5, Zenon
<1>10. Pointers' = Pointers /\ \A x : Kind(x)' = Kind(x)
  BY Zenon DEF Pointers, Blocks, Kind, Pooled, Direct, Invalid, select
<1> QED BY <1>5, <1>8, <1>9, <1>10, Zenon DEF BufferInvariant

LEMMA ReleaseKeeps ==
  ASSUME SInv, BufferInvariant, NEW c \in Containers, NEW e \in buffers[c], Release(c, e), ~ direct, UNCHANGED direct
  PROVE  BufferInvariant' /\ UNCHANGED refused
<1> DEFINE a == ResourceOf[c]
<1>0. a \in Allocators /\ e.ptr \in Pointers /\ LiveKind(a)[e.ptr] = Kind(e.request) /\ Kind(e.request) # Free
  BY BufferFacts, Zenon
<1>1. Accepts(a, e.ptr, Kind(e.request))
  BY <1>0, AcceptsIff, Zenon
<1>2. Deallocate(a, e.ptr, Kind(e.request)) /\ UNCHANGED refused /\ buffers' = [buffers EXCEPT ![c] = @ \ {e}]
  BY <1>1, Zenon DEF Release
<1>3. UNCHANGED state /\ Becomes(a, e.ptr, Free)
  BY <1>0, <1>2, DeallocateStep, Zenon
<1>4. /\ buffers' \in [Containers -> SUBSET [ptr : Pointers, request : Requests]]
      /\ buffers'[c] = buffers[c] \ {e}
      /\ \A d \in Containers : d # c => buffers'[d] = buffers[d]
  BY <1>2, Zenon DEF BufferInvariant
<1>5. /\ \A r \in Pointers : r # e.ptr => LiveKind(a)'[r] = LiveKind(a)[r]
      /\ \A b \in Allocators : b # a => LiveKind(b)' = LiveKind(b)
  BY <1>3, Zenon DEF Becomes, LiveKind
<1>6. ASSUME NEW d \in Containers, NEW b \in buffers'[d]
      PROVE  /\ b \in buffers[d] /\ state'[ResourceOf[d]] = "open"
             /\ LiveKind(ResourceOf[d])'[b.ptr] = Kind(b.request)
  <2>1. b \in buffers[d] /\ <<d, b>> # <<c, e>>
    BY <1>4, Zenon
  <2>2. ResourceOf[d] = a => b.ptr # e.ptr
    BY <2>1 DEF BufferInvariant
  <2> QED BY <1>3, <1>5, <2>1, <2>2, BufferFacts, Zenon
<1>7. \A d, f \in Containers : \A b \in buffers'[d], g \in buffers'[f] :
         ResourceOf[d] = ResourceOf[f] /\ b.ptr = g.ptr => d = f /\ b = g
  BY <1>6 DEF BufferInvariant
<1>8. Pointers' = Pointers /\ \A x : Kind(x)' = Kind(x)
  BY Zenon DEF Pointers, Blocks, Kind, Pooled, Direct, Invalid, select
<1> QED BY <1>2, <1>4, <1>6, <1>7, <1>8, Zenon DEF BufferInvariant

LEMMA TakeOverKeeps ==
  ASSUME SInv, BufferInvariant, NEW c \in Containers, NEW d \in Containers, TakeOver(c, d), ~ direct, UNCHANGED direct
  PROVE  BufferInvariant'
<1>1. /\ c # d /\ ResourceOf[c] = ResourceOf[d] /\ UNCHANGED vars
      /\ buffers' = [buffers EXCEPT ![c] = @ \cup buffers[d], ![d] = {}]
  BY Zenon DEF TakeOver, do_is_equal
<1>2. /\ buffers' \in [Containers -> SUBSET [ptr : Pointers, request : Requests]]
      /\ buffers'[c] = buffers[c] \cup buffers[d] /\ buffers'[d] = {}
      /\ \A x \in Containers : x # c /\ x # d => buffers'[x] = buffers[x]
  BY <1>1, Zenon DEF BufferInvariant
<1>3. UNCHANGED state /\ \A a : LiveKind(a)' = LiveKind(a)
  BY <1>1 DEF vars, LiveKind, LiveFallback, LivePooled, Pointers, Blocks, ClassIndices
\* Each buffer was in a container with the same resource.
<1> DEFINE From(x, y) == x = y \/ (x = c /\ y = d)
<1>4. ASSUME NEW x \in Containers, NEW b \in buffers'[x]
      PROVE  \E y \in Containers : From(x, y) /\ b \in buffers[y] /\ ResourceOf[y] = ResourceOf[x]
  BY <1>1, <1>2, Zenon
<1>5. ASSUME NEW x \in Containers, NEW b \in buffers'[x]
      PROVE  state'[ResourceOf[x]] = "open" /\ LiveKind(ResourceOf[x])'[b.ptr] = Kind(b.request)
  <2>1. PICK y \in Containers : From(x, y) /\ b \in buffers[y] /\ ResourceOf[y] = ResourceOf[x]
    BY <1>4, Zenon
  <2> QED BY <1>3, <2>1, BufferFacts, Zenon
<1>6. ASSUME NEW x \in Containers, NEW z \in Containers, NEW b \in buffers'[x], NEW g \in buffers'[z],
             ResourceOf[x] = ResourceOf[z] /\ b.ptr = g.ptr
      PROVE  x = z /\ b = g
  <2>1. PICK y \in Containers : From(x, y) /\ b \in buffers[y] /\ ResourceOf[y] = ResourceOf[x]
    BY <1>4, Zenon
  <2>2. PICK w \in Containers : From(z, w) /\ g \in buffers[w] /\ ResourceOf[w] = ResourceOf[z]
    BY <1>4, Zenon
  <2>3. y = w /\ b = g
    BY <1>6, <2>1, <2>2 DEF BufferInvariant
  <2>4. x # d /\ z # d
    BY <1>2, <1>6, Zenon
  <2> QED BY <2>1, <2>2, <2>3, <2>4, Zenon
<1>7. Pointers' = Pointers /\ \A x : Kind(x)' = Kind(x)
  BY Zenon DEF Pointers, Blocks, Kind, Pooled, Direct, Invalid, select
<1> QED BY <1>2, <1>5, <1>6, <1>7, Zenon DEF BufferInvariant

LEMMA NextBuffers ==
  ASSUME SInv, BufferInvariant, [Next]_resourceVars
  PROVE  BufferInvariant' /\ (ReturnsAccepted => ReturnsAccepted')
<1>0. \A c \in Containers : ResourceOf[c] \in Allocators
  BY ResourceAssumption, Zenon
<1>1. CASE UNCHANGED resourceVars
  <2>1. UNCHANGED <<state, pools, fallback, buffers, refused, direct>>
    BY <1>1, Zenon DEF resourceVars, vars
  <2>2. \A a : LiveKind(a)' = LiveKind(a)
    BY <2>1 DEF LiveKind, LiveFallback, LivePooled, Pointers, Blocks, ClassIndices
  <2>3. BuffersKept
    BY <2>1, <2>2, BufferFacts, Zenon DEF BuffersKept
  <2> QED BY <2>1, <2>3, SameBuffers, Zenon DEF ReturnsAccepted
<1>2. CASE direct /\ UNCHANGED <<buffers, refused, direct>>
  <2>1. BuffersKept
    BY <1>2, Zenon DEF BuffersKept, BufferInvariant
  <2> QED BY <1>2, <2>1, SameBuffers, Zenon DEF ReturnsAccepted
<1>3. ASSUME NEW c \in Containers, Construct(ResourceOf[c]), UNCHANGED <<buffers, refused, direct>>
      PROVE  BufferInvariant' /\ UNCHANGED refused
  <2>1. BuffersKept
    BY <1>0, <1>3, ConstructStep, BufferFacts, Zenon DEF BuffersKept
  <2> QED BY <1>3, <2>1, SameBuffers, Zenon
<1>4. ASSUME NEW c \in Containers, CloseResource(ResourceOf[c]), UNCHANGED direct
      PROVE  BufferInvariant' /\ UNCHANGED refused
  <2>1. \A d \in Containers : buffers[d] # {} => ResourceOf[d] # ResourceOf[c]
    BY <1>4, Zenon DEF CloseResource
  <2>2. BuffersKept
    BY <1>0, <1>4, <2>1, CloseStep, BufferFacts DEF BuffersKept, CloseResource
  <2> QED BY <1>4, <2>2, SameBuffers, Zenon DEF CloseResource
<1>5. ASSUME NEW c \in Containers, NEW q \in Requests, AcquireFails(c, q), UNCHANGED direct
      PROVE  BufferInvariant' /\ UNCHANGED refused
  <2>1. BuffersKept
    BY <1>0, <1>5, FailStep, BufferFacts, Zenon DEF BuffersKept, AcquireFails
  <2> QED BY <1>5, <2>1, SameBuffers, Zenon DEF AcquireFails
<1>6. ASSUME ~ direct, UseResources, UNCHANGED direct
      PROVE  BufferInvariant' /\ UNCHANGED refused
  <2>1. \A c \in Containers, q \in Requests : Acquire(c, q) => BufferInvariant' /\ UNCHANGED refused
    BY <1>6, AcquireKeeps, Zenon DEF Acquire
  <2>2. \A c \in Containers : \A b \in buffers[c] : Release(c, b) => BufferInvariant' /\ UNCHANGED refused
    BY <1>6, ReleaseKeeps, Zenon
  <2>3. \A c, d \in Containers : TakeOver(c, d) => BufferInvariant' /\ UNCHANGED refused
    BY <1>6, TakeOverKeeps, Zenon DEF TakeOver
  <2> QED BY <1>3, <1>4, <1>5, <1>6, <2>1, <2>2, <2>3, Zenon DEF UseResources
<1> QED BY <1>1, <1>2, <1>6 DEF Next, ReturnsAccepted

\* The invariant: every slab has one owner, an allocator that is not open has
\* none, and each buffer of a container is live in its resource.
THEOREM AllocatorInvariantHolds == Spec => [](TypeOK /\ SegregatedInvariant /\ BufferInvariant)
<1>1. ResourceInit => SInv /\ BufferInvariant
  BY InitSInv, Zenon
<1>2. SInv /\ BufferInvariant /\ [Next]_resourceVars => (SInv /\ BufferInvariant)'
  <2> SUFFICES ASSUME SInv, BufferInvariant, [Next]_resourceVars PROVE SInv' /\ BufferInvariant'
    BY Zenon
  <2>1. CASE UNCHANGED vars
    BY <2>1, NothingMoves, NextBuffers, Zenon DEF vars, SInv, TypeOK
  <2>2. CASE \E a \in Allocators : CallerStep(a)
    BY <2>2, CallerKeeps, NextBuffers, Zenon
  <2> QED BY <2>1, <2>2, NextCases, Zenon
<1> QED BY <1>1, <1>2, PTL DEF Spec, SInv

\* SegregatedAllocator's balance with its provider (ProviderBalanced): the slabs
\* of the chunks of all classes and of the fallback blocks, of all allocators,
\* are exactly those the provider has handed out, each owned once, through
\* failed insertions, reclamation, refused returns and destruction.
THEOREM ProviderBalancedHolds == Spec => []ProviderBalanced
  BY AllocatorInvariantHolds, PTL DEF SegregatedInvariant

\* PoolMemoryResource: no do_deallocate of a container is ever refused, however
\* buffers moved between containers with equal resources.
THEOREM ReturnsAcceptedHolds == Spec => []ReturnsAccepted
<1>1. ResourceInit => ReturnsAccepted
  BY InitSInv, Zenon
<1>2. SInv /\ BufferInvariant /\ ReturnsAccepted /\ [Next]_resourceVars => ReturnsAccepted'
  BY NextBuffers, Zenon
<1> QED BY <1>1, <1>2, AllocatorInvariantHolds, PTL DEF Spec, SInv

------------------------------------------------------------------------------
(* Every allocator implements CentralStorage.                              *)

CentralSteps == \A b \in Allocators : Central(b)!Next \/ UNCHANGED Central(b)!vars

\* Allocator a answers; what is live elsewhere stays.
LEMMA OnlyOneAnswers ==
  ASSUME NEW a \in Allocators, NEW x, DOMAIN answer = Allocators, answer' = [answer EXCEPT ![a] = x],
         \A b \in Allocators : b # a => LiveKind(b)' = LiveKind(b),
         Central(a)!Next \/ UNCHANGED Central(a)!vars
  PROVE  CentralSteps
<1>1. \A b \in Allocators : b # a => answer'[b] = answer[b]
  BY Zenon
<1>2. \A b \in Allocators : b # a => UNCHANGED Central(b)!vars
  BY <1>1, Zenon DEF Central!vars
<1> QED BY <1>2, Zenon DEF CentralSteps

LEMMA CallerCentral ==
  ASSUME SInv, NEW a \in Allocators, CallerStep(a)
  PROVE  CentralSteps
<1>0. DOMAIN answer = Allocators
  BY Zenon DEF SInv, TypeOK
<1>1. CASE Construct(a)
  <2>1. \A b \in Allocators : UNCHANGED Central(b)!vars
    BY <1>1, ConstructStep, Zenon DEF Central!vars
  <2> QED BY <2>1, Zenon DEF CentralSteps
<1>2. CASE Close(a)
  <2>1. Central(a)!OpenOrClose
    BY <1>0, <1>2, CloseStep, Zenon DEF Central!OpenOrClose, Central!NoAnswer, Answer
  <2> QED BY <1>0, <1>2, <2>1, CloseStep, OnlyOneAnswers, Zenon DEF Central!Next
<1>3. ASSUME NEW q \in Requests, Allocate(a, q) PROVE CentralSteps
  <2>1. PICK p \in Pointers :
          /\ answer' = [answer EXCEPT ![a] = Answer("allocated", p, Kind(q))]
          /\ LiveKind(a)[p] = Free /\ Becomes(a, p, Kind(q))
    BY <1>3, AllocateStep, Zenon
  <2>2. answer'[a].said = "allocated" /\ answer'[a].ptr = p /\ answer'[a].kind = Kind(q)
    BY <1>0, <2>1, Zenon DEF Answer
  <2>3. Central(a)!Allocate
    BY <2>1, <2>2, KindOfRequest, Zenon DEF Central!Allocate, Central!Answers, Becomes
  <2> QED BY <1>0, <2>1, <2>3, OnlyOneAnswers, Zenon DEF Central!Next, Becomes
<1>4. ASSUME NEW q \in Requests, AllocateFails(a, q) \/ InsertionFails(a, q) PROVE CentralSteps
  <2>1. answer' = [answer EXCEPT ![a] = Answer("failed", NoAddr, Kind(q))]
        /\ \A b \in Allocators : LiveKind(b)' = LiveKind(b)
    BY <1>4, FailStep, Zenon
  <2>2. answer'[a].said = "failed" /\ answer'[a].ptr = NoAddr /\ answer'[a].kind = Kind(q)
    BY <1>0, <2>1, Zenon DEF Answer
  <2>3. Central(a)!AllocateFails
    BY <2>1, <2>2, KindOfRequest, Zenon DEF Central!AllocateFails
  <2> QED BY <1>0, <2>1, <2>3, OnlyOneAnswers, Zenon DEF Central!Next
<1>5. ASSUME NEW p \in Pointers, NEW k \in Kinds \cup {Unsized}, Deallocate(a, p, k) PROVE CentralSteps
  <2>1. answer' = [answer EXCEPT ![a] = Answer("returned", p, k)] /\ Becomes(a, p, Free) /\ Accepts(a, p, k)
    BY <1>5, DeallocateStep, Zenon
  <2>2. answer'[a].said = "returned" /\ answer'[a].ptr = p /\ answer'[a].kind = k
    BY <1>0, <2>1, Zenon DEF Answer
  <2>3. Central(a)!Releasable(p, k)
    BY <2>1, AcceptsIff, Zenon DEF Central!Releasable
  <2>4. Central(a)!Deallocate
    BY <2>1, <2>2, <2>3, Zenon DEF Central!Deallocate, Central!Answers, Becomes
  <2> QED BY <1>0, <2>1, <2>4, OnlyOneAnswers, Zenon DEF Central!Next, Becomes
<1>6. ASSUME NEW p \in Pointers, NEW k \in Kinds \cup {Unsized}, DeallocateRejected(a, p, k) PROVE CentralSteps
  <2>1. answer' = [answer EXCEPT ![a] = Answer("refused", p, k)]
        /\ \A b \in Allocators : LiveKind(b)' = LiveKind(b)
    BY <1>6, RejectedStep, Zenon
  <2>2. answer'[a].said = "refused" /\ answer'[a].ptr = p /\ answer'[a].kind = k
    BY <1>0, <2>1, Zenon DEF Answer
  <2>3. ~ Central(a)!Releasable(p, k)
    BY <1>6, AcceptsIff, Zenon DEF Central!Releasable, DeallocateRejected
  <2>4. Central(a)!DeallocateRefused
    BY <2>1, <2>2, <2>3, Zenon DEF Central!DeallocateRefused, Central!Answers
  <2> QED BY <1>0, <2>1, <2>4, OnlyOneAnswers, Zenon DEF Central!Next
<1> QED BY <1>1, <1>2, <1>3, <1>4, <1>5, <1>6, Zenon DEF CallerStep

\* SegregatedAllocator behaves as the central storage ThreadCachedAllocator
\* assumes behind its mutex: it hands out no address in use, and takes one back
\* exactly if it is in use there with the size or the class that is named.
THEOREM SegregatedImplementsCentralStorage == Spec => ImplementsCentralStorage
<1>1. ResourceInit => \A a \in Allocators : Central(a)!Init
  <2> SUFFICES ASSUME ResourceInit, NEW a \in Allocators PROVE Central(a)!Init
    BY Zenon
  <2>1. pools[a] = NoChunks /\ fallback[a] = <<>> /\ answer[a] = Answer("none", NoAddr, Unsized)
    BY Zenon DEF ResourceInit, Init
  <2>2. \A p \in Pointers : LiveKind(a)[p] = Free
    BY <2>1, NothingOwned, InitSInv, KindOf, Zenon DEF KindsAre
  <2>3. LiveKind(a) = [p \in Pointers |-> Free]
    <3>1. LiveKind(a) = [p \in Pointers |-> LiveKind(a)[p]]
      BY Zenon DEF LiveKind
    <3> QED BY <2>2, <3>1, Zenon
  <2> QED BY <2>1, <2>3, Zenon DEF Central!Init, Central!NoAnswer, Answer
<1>2. SInv /\ BufferInvariant /\ [Next]_resourceVars =>
        [\A a \in Allocators : Central(a)!Next \/ UNCHANGED Central(a)!vars]_vars
  <2> SUFFICES ASSUME SInv, BufferInvariant, [Next]_resourceVars PROVE CentralSteps \/ UNCHANGED vars
    BY Zenon DEF CentralSteps
  <2> QED BY NextCases, CallerCentral, Zenon
<1> QED BY <1>1, <1>2, AllocatorInvariantHolds, PTL DEF Spec, SInv, ImplementsCentralStorage

------------------------------------------------------------------------------
(* SizeClassSelector.                                                      *)

\* Among powers of two, a class suits a request when it is as large as the size
\* and the alignment.
LEMMA SuitsIff ==
  ASSUME NEW c \in Nat, is_power_of_two(c), NEW q, q.size \in Nat, q.alignment \in Nat,
         is_power_of_two(q.alignment)
  PROVE  Suits(c, q) <=> c >= Larger(Size(q), q.alignment)
<1>1. PICK n, al : n = q.size /\ al = q.alignment /\ n \in Nat /\ al \in Nat
  BY Zenon
<1>2. PICK i \in 0 .. c, j \in 0 .. al : c = Two(i) /\ al = Two(j)
  BY <1>1, Zenon DEF is_power_of_two, Two
<1>3. i \in Nat /\ j \in Nat
  BY <1>1, <1>2
<1>4. c \in Nat \ {0} /\ al \in Nat \ {0}
  BY <1>2, <1>3, TwoFacts, Zenon
<1>5. c >= al => Multiple(c, al)
  <2>1. Two(j) <= Two(i) => Multiple(Two(i), Two(j))
    BY <1>3, TwoDivides, Zenon
  <2>2. c >= al => al <= c
    BY <1>4
  <2> QED BY <1>2, <2>1, <2>2, Zenon
<1>6. Multiple(c, al) => c >= al
  <2> SUFFICES ASSUME NEW k \in Nat, c = k * al PROVE c >= al
    BY Zenon DEF Multiple
  <2>1. k # 0 /\ k >= 1
    <3>1. k = 0 => k * al = 0
      BY <1>4
    <3> QED BY <1>4, <3>1
  <2>2. 1 * al <= k * al
    BY <1>4, <2>1, Monotone
  <2> QED BY <1>4, <2>2
<1>7. c % al = 0 <=> Multiple(c, al)
  BY <1>4, MultipleIff, Zenon
<1>8. c >= Larger(Size(q), q.alignment) <=> c >= n /\ c >= al
  BY <1>1, <1>4 DEF Larger, Size
<1>9. Suits(c, q) <=> c >= n /\ c % al = 0
  BY <1>1, Zenon DEF Suits
<1> QED BY <1>5, <1>6, <1>7, <1>8, <1>9, Zenon

\* select() routes a request to the first class that suits it.
LEMMA SelectExact ==
  ASSUME NEW cs \in Seq(Nat), ValidClasses(cs), NEW q, q.size \in Nat, q.alignment \in Nat,
         is_power_of_two(q.alignment)
  PROVE  LET c == select(cs, q)
         IN  IF c = 0 THEN \A i \in DOMAIN cs : ~ Suits(cs[i], q)
             ELSE /\ Suits(cs[c], q)
                  /\ \A i \in DOMAIN cs : Suits(cs[i], q) => cs[c] <= cs[i]
<1>1. cs \in Seq(Int) /\ Increasing(cs) /\ DOMAIN cs = 1 .. Len(cs) /\ Len(cs) \in Nat
  BY DEF ValidClasses, Increasing
<1>2. PICK v : v = Larger(Size(q), q.alignment) /\ v \in Nat /\ v \in Int
  BY DEF Larger, Size
<1>3. PICK b : b = lower_bound(cs, v) /\ IsBound(cs, v, b)
  BY <1>1, <1>2, LowerBound, Zenon
<1>4. \A i \in 1 .. Len(cs) : cs[i] \in Nat /\ is_power_of_two(cs[i])
  BY <1>1 DEF ValidClasses
<1>5. \A i \in 1 .. Len(cs) : Suits(cs[i], q) <=> cs[i] >= v
  BY <1>2, <1>4, SuitsIff, Zenon
<1>6. \A i \in 1 .. Len(cs) : Suits(cs[i], q) <=> ~ (i < b)
  BY <1>1, <1>2, <1>3, <1>4, <1>5 DEF IsBound
<1>7. select(cs, q) = IF b = Len(cs) + 1 THEN 0 ELSE b
  BY <1>2, <1>3, Zenon DEF select
<1>8. b \in 1 .. Len(cs) + 1
  BY <1>3, Zenon DEF IsBound
<1>9. CASE b = Len(cs) + 1
  <2>1. \A i \in 1 .. Len(cs) : i < b
    BY <1>1, <1>9
  <2> QED BY <1>1, <1>6, <1>7, <1>9, <2>1, Zenon
<1>10. CASE b # Len(cs) + 1
  <2>1. b \in 1 .. Len(cs) /\ b # 0 /\ ~ (b < b)
    BY <1>1, <1>8, <1>10
  <2>2. \A i \in 1 .. Len(cs) : ~ (i < b) => cs[b] <= cs[i]
    <3> SUFFICES ASSUME NEW i \in 1 .. Len(cs), ~ (i < b) PROVE cs[b] <= cs[i]
      BY Zenon
    <3>1. b < i => cs[b] < cs[i]
      BY <1>1, <2>1, IncreasingOrder, Zenon
    <3> QED BY <1>1, <1>4, <2>1, <3>1
  <2> QED BY <1>1, <1>6, <1>7, <1>10, <2>1, <2>2, Zenon
<1> QED BY <1>9, <1>10, Zenon

\* Once the vector is accepted the classes stay as they are, so that the last
\* answer stays right.
SelectorInvariant ==
    /\ stage # "unused" => classes \in Vectors
    /\ stage = "built" => ValidClasses(classes)
    /\ SelectsSmallestSuitable

LEMMA SelectorStart == SizeInit => SelectorInvariant
<1> SUFFICES ASSUME SizeInit PROVE SelectorInvariant
  BY Zenon
<1>1. reply.said = "nothing" /\ stage # "built" /\ (stage # "unused" => classes \in Vectors)
  BY DEF SizeInit, SelectorInit, NoAnswer
<1>2. SelectsSmallestSuitable
  BY <1>1 DEF SelectsSmallestSuitable
<1> QED BY <1>1, <1>2, Zenon DEF SelectorInvariant

LEMMA SelectKeeps ==
  ASSUME SelectorInvariant, NEW q \in [size : Sizes, alignment : Alignments], Select(q)
  PROVE  SelectorInvariant'
<1>1. stage = "built" /\ classes \in Vectors /\ ValidClasses(classes) /\ UNCHANGED <<classes, stage>>
  BY Zenon DEF SelectorInvariant, Select
<1>2. q.size \in Nat /\ q.alignment \in Nat /\ classes \in Seq(Nat)
  BY <1>1, SelectorAssumption
<1>3. CASE ~ is_power_of_two(q.alignment)
  <2>1. reply' = [request |-> q, said |-> "invalid", index |-> 0]
    BY <1>3, Zenon DEF Select
  <2>2. SelectsSmallestSuitable'
    BY <2>1 DEF SelectsSmallestSuitable
  <2> QED BY <1>1, <2>2, Zenon DEF SelectorInvariant
<1>4. CASE is_power_of_two(q.alignment)
  <2>1. PICK c : c = select(classes, q)
    BY Zenon
  <2>2. reply' = [request |-> q, said |-> IF c = 0 THEN "fallback" ELSE "class", index |-> c]
    BY <1>4, <2>1, Zenon DEF Select
  <2>3. IF c = 0 THEN \A i \in DOMAIN classes : ~ Suits(classes[i], q)
        ELSE /\ Suits(classes[c], q)
             /\ \A i \in DOMAIN classes : Suits(classes[i], q) => classes[c] <= classes[i]
    BY <1>1, <1>2, <1>4, <2>1, SelectExact, Zenon
  <2>4. reply'.request = q /\ reply'.index = c /\ reply'.said = IF c = 0 THEN "fallback" ELSE "class"
    BY <2>2, Zenon
  <2>5. SelectsSmallestSuitable'
    <3>1. CASE c = 0
      <4>1. reply'.said = "fallback" /\ reply'.said # "class"
        BY <2>4, <3>1
      <4> QED BY <1>1, <2>3, <2>4, <3>1, <4>1, Zenon DEF SelectsSmallestSuitable
    <3>2. CASE c # 0
      <4>1. reply'.said = "class" /\ reply'.said # "fallback"
        BY <2>4, <3>2
      <4> QED BY <1>1, <2>3, <2>4, <3>2, <4>1, Zenon DEF SelectsSmallestSuitable
    <3> QED BY <3>1, <3>2, Zenon
  <2> QED BY <1>1, <2>5, Zenon DEF SelectorInvariant
<1> QED BY <1>3, <1>4, Zenon

LEMMA NextKeepsSelector ==
  SelectorInvariant /\ [SizeNext]_<<layoutVars, selectorVars>> => SelectorInvariant'
<1> SUFFICES ASSUME SelectorInvariant, [SizeNext]_<<layoutVars, selectorVars>> PROVE SelectorInvariant'
  BY Zenon
<1>1. CASE UNCHANGED selectorVars
  BY <1>1, Zenon DEF selectorVars, SelectorInvariant, SelectsSmallestSuitable
<1>2. CASE ConstructSelector
  <2>1. UNCHANGED <<classes, reply>> /\ stage = "new" /\ (stage' = "built" => ValidClasses(classes))
    BY <1>2 DEF ConstructSelector
  <2>2. classes \in Vectors /\ SelectsSmallestSuitable'
    BY <2>1, Zenon DEF SelectorInvariant, SelectsSmallestSuitable
  <2> QED BY <2>1, <2>2, Zenon DEF SelectorInvariant
<1> QED BY <1>1, <1>2, SelectKeeps, Zenon DEF SizeNext, SelectorNext

\* The binary search of SizeClassSelector::select, for every vector of classes
\* the constructor accepts and every size and alignment, finds the smallest
\* class that suits the request, and the fallback is taken only when none does.
THEOREM SelectsSmallestSuitableHolds == SizeSpec => []SelectsSmallestSuitable
<1>1. SelectorInvariant => SelectsSmallestSuitable
  BY Zenon DEF SelectorInvariant
<1> QED BY <1>1, SelectorStart, NextKeepsSelector, PTL DEF SizeSpec
==============================================================================
