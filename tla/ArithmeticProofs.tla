-------------------------- MODULE ArithmeticProofs --------------------------
(***************************************************************************)
(* The size_t arithmetic of checked_math.h is exact for every width of     *)
(* size_t, and checked_cast between integer types of every width, not only *)
(* for the small ones TLC enumerates.                                      *)
(***************************************************************************)
EXTENDS Arithmetic, TLAPS

USE DEF Size, Nullopt

-----------------------------------------------------------------------------
\* The guard a > SIZE_MAX - b refuses exactly the sums that would wrap.
LEMMA AddExact ==
  ASSUME NEW a \in Size, NEW b \in Size
  PROVE  safe(checked_add(a, b)) = IF a + b \in Size THEN <<a + b>> ELSE <<>>
BY SizeAssumption DEF checked_add, Wrap, safe

\* The guard b > a refuses exactly the negative differences.
LEMMA SubExact ==
  ASSUME NEW a \in Size, NEW b \in Size
  PROVE  safe(checked_sub(a, b)) = IF a - b \in Size THEN <<a - b>> ELSE <<>>
BY SizeAssumption DEF checked_sub, Wrap, safe

\* The guard a > SIZE_MAX / b, a division that rounds down, refuses exactly
\* the products that would wrap; the shortcut for zero never divides by it.
LEMMA MulExact ==
  ASSUME NEW a \in Size, NEW b \in Size
  PROVE  safe(checked_mul(a, b)) = IF a * b \in Size THEN <<a * b>> ELSE <<>>
<1>1. CASE a = 0 \/ b = 0
  BY <1>1, SizeAssumption DEF checked_mul, safe
<1>2. CASE a > 0 /\ b > 0
  <2>1. a > SIZE_MAX \div b <=> a * b > SIZE_MAX
    BY <1>2, SizeAssumption
  <2>2. a * b \in Nat
    BY SizeAssumption
  <2> QED BY <1>2, <2>1, <2>2, SizeAssumption DEF checked_mul, Wrap, safe
<1> QED BY <1>1, <1>2, SizeAssumption

\* A sum that is no size_t passes no cap either, a cap of SIZE_MAX included.
LEMMA GrowExact ==
  ASSUME NEW a \in Size, NEW b \in Size, NEW cap \in Size
  PROVE  checked_grow(a, b, cap) = IF a + b <= cap THEN a + b ELSE Nullopt
BY SizeAssumption DEF checked_grow, checked_add, Wrap

\* range_in_bounds is the test of the end against the size, for offsets and
\* lengths whose sum is no size_t too.
LEMMA InBoundsExact ==
  ASSUME NEW o \in Size, NEW n \in Size, NEW sz \in Size
  PROVE  range_in_bounds(o, n, sz) = (o + n <= sz)
BY SizeAssumption DEF range_in_bounds, checked_add, Wrap

\* Doubling that wraps, falls short of the need or passes the cap gives way to
\* the need; kMinGrowth may be doubled past SIZE_MAX too.
LEMMA NextCapacityExact ==
  ASSUME NEW c \in Size, NEW n \in Size
  PROVE  LET doubled == 2 * (IF c < kMinGrowth THEN kMinGrowth ELSE c)
         IN  next_capacity(c, n) = IF doubled \in n .. MAX_ALLOC_BYTES THEN doubled ELSE n
<1>1. PICK g \in Size : g = (IF c < kMinGrowth THEN kMinGrowth ELSE c) /\ g > 0
  BY SizeAssumption
<1>2. checked_mul(g, 2) = IF 2 * g \in Size THEN 2 * g ELSE Nullopt
  <2>1. g > SIZE_MAX \div 2 <=> 2 * g > SIZE_MAX
    BY SizeAssumption
  <2> QED BY <1>1, <2>1, SizeAssumption DEF checked_mul, Wrap
<1> QED BY <1>1, <1>2, SizeAssumption DEF next_capacity

-----------------------------------------------------------------------------
(***************************************************************************)
(* Casts.  A type of b bits has 2 ^ b values, half of them below zero if   *)
(* it is signed.                                                           *)
(***************************************************************************)

\* v is in the range of type t.
In(t, v) == v \in min(t) .. max(t)

\* r is the remainder of v.
LEMMA ModIs ==
  ASSUME NEW m \in Nat \ {0}, NEW k \in Int, NEW r \in 0 .. m - 1, NEW v, v = k * m + r
  PROVE  v % m = r
OBVIOUS

\* The limits in terms of the halves.
LEMMA Limits ==
  ASSUME NEW t \in Type
  PROVE  \E h \in Nat \ {0} :
           /\ 2 ^ (t.bits - 1) = h /\ 2 ^ t.bits = 2 * h
           /\ t.signed => min(t) = - h /\ max(t) = h - 1
           /\ ~ t.signed => min(t) = 0 /\ max(t) = 2 * h - 1
<1>1. t.bits \in Widths /\ t.signed \in BOOLEAN
  BY DEF Type
<1>2. PICK h \in Nat \ {0} : 2 ^ (t.bits - 1) = h /\ 2 ^ t.bits = 2 * h
  BY <1>1, PowersAssumption
<1> QED BY <1>1, <1>2 DEF min, max

\* A value that the type can hold is converted to itself.
LEMMA CastIn ==
  ASSUME NEW t \in Type, NEW v, In(t, v)
  PROVE  static_cast(t, v) = v
<1>1. PICK h \in Nat \ {0} : /\ 2 ^ t.bits = 2 * h
                             /\ t.signed => min(t) = - h /\ max(t) = h - 1
                             /\ ~ t.signed => min(t) = 0 /\ max(t) = 2 * h - 1
  BY Limits
<1>2. PICK m \in Nat \ {0} : m = 2 * h
  OBVIOUS
<1>3. t.signed \in BOOLEAN
  BY DEF Type
<1>4. CASE v >= 0
  <2>1. v \in 0 .. m - 1 /\ v = 0 * m + v /\ ~ (v > max(t))
    BY <1>1, <1>2, <1>3, <1>4 DEF In
  <2>2. v % m = v
    BY <2>1, ModIs
  <2> QED BY <1>1, <1>2, <2>1, <2>2 DEF static_cast
<1>5. CASE v < 0
  <2>1. v + m \in 0 .. m - 1 /\ v = (-1) * m + (v + m) /\ v + m > max(t) /\ v \in Int
    BY <1>1, <1>2, <1>3, <1>5 DEF In
  <2>2. v % m = v + m
    BY <2>1, ModIs
  <2>3. v + m - m = v
    BY <2>1
  <2> QED BY <1>1, <1>2, <2>1, <2>2, <2>3 DEF static_cast
<1>6. v \in Int
  BY <1>1, <1>3 DEF In
<1> QED BY <1>4, <1>5, <1>6

\* The largest value of a wider type becomes all ones in an unsigned one.
LEMMA CastWide ==
  ASSUME NEW t \in Type, NEW u \in Type, ~ u.signed, u.bits < t.bits
  PROVE  static_cast(u, max(t)) = max(u) /\ max(u) <= max(t)
<1>1. PICK h \in Nat \ {0} : /\ 2 ^ u.bits = 2 * h /\ max(u) = 2 * h - 1
  BY Limits
<1>2. PICK g \in Nat \ {0} : /\ 2 ^ (t.bits - 1) = g
                             /\ max(t) = IF t.signed THEN g - 1 ELSE 2 * g - 1
  BY Limits DEF Type
<1>3. PICK q \in Nat \ {0} : g = q * (2 * h)
  BY <1>1, <1>2, PowersAssumption DEF Type
<1>4. PICK m \in Nat \ {0} : m = 2 * h
  OBVIOUS
<1>5. PICK k \in Nat \ {0} : max(t) = k * m - 1
  <2>1. CASE t.signed
    BY <1>2, <1>3, <1>4, <2>1
  <2>2. CASE ~ t.signed
    <3>1. PICK k \in Nat \ {0} : k = 2 * q
      OBVIOUS
    <3>2. max(t) = k * m - 1
      BY <1>2, <1>3, <1>4, <2>2, <3>1
    <3> QED BY <3>2
  <2> QED BY <2>1, <2>2
<1>6. k * m \in Nat /\ k * m >= m /\ max(t) = (k - 1) * m + (m - 1)
  BY <1>5
<1>7. max(t) % m = m - 1
  BY <1>4, <1>6, ModIs
<1> QED BY <1>1, <1>4, <1>6, <1>7 DEF static_cast

\* Between two types of either signedness, a refused value is one that the
\* destination cannot hold.
LEMMA CastExact ==
  ASSUME NEW dst \in Type, NEW src \in Type, NEW v \in min(src) .. max(src),
         ~ (dst.signed /\ src.signed /\ dst.bits > src.bits)
  PROVE  checked_cast(dst, src, v) = IF In(dst, v) THEN <<v>> ELSE <<>>
<1>1. PICK U : U = make_unsigned(src)
  OBVIOUS
<1>2. U \in Type /\ ~ U.signed /\ U.bits = src.bits
  BY <1>1 DEF Type, make_unsigned
<1>3. PICK h \in Nat \ {0} : /\ 2 ^ (src.bits - 1) = h /\ 2 ^ src.bits = 2 * h
                             /\ src.signed => min(src) = - h /\ max(src) = h - 1
                             /\ ~ src.signed => min(src) = 0 /\ max(src) = 2 * h - 1
  BY Limits
<1>4. min(U) = 0 /\ max(U) = 2 * h - 1
  BY <1>2, <1>3 DEF min, max
<1>5. PICK g \in Nat \ {0} : /\ 2 ^ (dst.bits - 1) = g /\ 2 ^ dst.bits = 2 * g
                             /\ dst.signed => min(dst) = - g /\ max(dst) = g - 1
                             /\ ~ dst.signed => min(dst) = 0 /\ max(dst) = 2 * g - 1
  BY Limits
<1>6. /\ dst.signed \in BOOLEAN /\ src.signed \in BOOLEAN
      /\ dst.bits \in Nat /\ src.bits \in Nat /\ dst.bits \in Widths /\ src.bits \in Widths
  BY WidthsAssumption DEF Type
<1>7. v \in Int
  BY <1>3, <1>6
<1>8. In(dst, v) => static_cast(dst, v) = v
  BY CastIn
<1>9. v >= 0 => static_cast(U, v) = v
  <2>1. v >= 0 => In(U, v)
    BY <1>3, <1>4, <1>6, <1>7 DEF In
  <2> QED BY <1>2, <2>1, CastIn
<1>10. PICK refused \in BOOLEAN :
         refused <=> IF src.signed = dst.signed
                     THEN v < static_cast(src, min(dst)) \/ v > static_cast(src, max(dst))
                     ELSE IF src.signed
                     THEN v < 0 \/ static_cast(U, v) > static_cast(U, max(dst))
                     ELSE v > static_cast(src, max(dst))
  OBVIOUS
<1>11. checked_cast(dst, src, v) = IF refused THEN <<>> ELSE <<static_cast(dst, v)>>
  BY <1>1, <1>10 DEF checked_cast
<1>12. CASE dst.bits <= src.bits
  <2>1. g <= h
    <3>1. CASE dst.bits = src.bits
      BY <1>3, <1>5, <3>1
    <3>2. CASE dst.bits < src.bits
      <4>1. PICK q \in Nat \ {0} : h = q * (2 * g)
        BY <1>3, <1>5, <1>6, <3>2, PowersAssumption
      <4> QED BY <4>1
    <3> QED BY <1>6, <1>12, <3>1, <3>2
  <2>2. src.signed = dst.signed => static_cast(src, min(dst)) = min(dst) /\ static_cast(src, max(dst)) = max(dst)
    <3>1. src.signed = dst.signed => In(src, min(dst)) /\ In(src, max(dst))
      BY <1>3, <1>5, <1>6, <2>1 DEF In
    <3> QED BY <3>1, CastIn
  <2>3. ~ src.signed => static_cast(src, max(dst)) = max(dst)
    <3>1. ~ src.signed => In(src, max(dst))
      BY <1>3, <1>5, <1>6, <2>1 DEF In
    <3> QED BY <3>1, CastIn
  <2>4. static_cast(U, max(dst)) = max(dst)
    <3>1. In(U, max(dst))
      BY <1>4, <1>5, <1>6, <2>1 DEF In
    <3> QED BY <1>2, <3>1, CastIn
  <2>5. refused <=> ~ In(dst, v)
    BY <1>3, <1>5, <1>6, <1>7, <1>9, <1>10, <2>1, <2>2, <2>3, <2>4 DEF In
  <2> QED BY <1>8, <1>11, <2>5
<1>13. CASE dst.bits > src.bits
  <2>1. static_cast(U, max(dst)) = max(U) /\ max(U) <= max(dst)
    BY <1>2, <1>6, <1>13, CastWide
  <2>2. ~ src.signed => static_cast(src, max(dst)) = max(src) /\ max(src) <= max(dst)
    BY <1>6, <1>13, CastWide
  <2>3. ~ src.signed /\ ~ dst.signed => static_cast(src, min(dst)) = 0
    <3>1. ~ src.signed /\ ~ dst.signed => In(src, min(dst)) /\ min(dst) = 0
      BY <1>3, <1>5 DEF In
    <3> QED BY <3>1, CastIn
  <2>4. refused <=> ~ In(dst, v)
    BY <1>3, <1>4, <1>5, <1>6, <1>7, <1>9, <1>10, <1>13, <2>1, <2>2, <2>3 DEF In
  <2> QED BY <1>8, <1>11, <2>4
<1> QED BY <1>6, <1>12, <1>13

-----------------------------------------------------------------------------
\* A call leaves an exact answer, whatever was there before.
LEMMA CallExact == Call => SizesExact'
<1> SUFFICES ASSUME Call PROVE SizesExact'
  OBVIOUS
<1>1. ASSUME NEW a \in Size, NEW b \in Size, Add(a, b) PROVE SizesExact'
  BY <1>1, AddExact DEF Add, SizesExact
<1>2. ASSUME NEW a \in Size, NEW b \in Size, Sub(a, b) PROVE SizesExact'
  BY <1>2, SubExact DEF Sub, SizesExact
<1>3. ASSUME NEW a \in Size, NEW b \in Size, Mul(a, b) PROVE SizesExact'
  BY <1>3, MulExact DEF Mul, SizesExact
<1>4. ASSUME NEW a \in Size, NEW b \in Size, NEW c \in Size, Grow(a, b, c) PROVE SizesExact'
  BY <1>4, GrowExact DEF Grow, SizesExact
<1>5. ASSUME NEW a \in Size, NEW b \in Size, NEW c \in Size, InBounds(a, b, c)
      PROVE  SizesExact'
  BY <1>5, InBoundsExact DEF InBounds, SizesExact
<1>6. ASSUME NEW a \in Size, NEW b \in Size, NextCapacity(a, b) PROVE SizesExact'
  BY <1>6, NextCapacityExact DEF NextCapacity, SizesExact
<1>7. ASSUME NEW dst, NEW src, NEW v, Cast(dst, src, v) PROVE SizesExact'
  BY <1>7 DEF Cast, SizesExact
<1> QED BY <1>1, <1>2, <1>3, <1>4, <1>5, <1>6, <1>7 DEF Call

\* Every size_t function of checked_math.h returns the mathematical result
\* when there is one and refuses otherwise, and next_capacity doubles whenever
\* the doubled capacity serves: no call ever wraps, for every SIZE_MAX.
THEOREM AlwaysExact == Spec => []SizesExact
<1>1. Init => SizesExact
  BY DEF Init, SizesExact
<1>2. SizesExact /\ [Next]_vars => SizesExact'
  <2>1. Used => SizesExact'
    BY DEF Used, SizesExact
  <2>2. SizesExact /\ UNCHANGED vars => SizesExact'
    BY DEF vars, SizesExact
  <2> QED BY <2>1, <2>2, CallExact DEF Next
<1> QED BY <1>1, <1>2, PTL DEF Spec

\* "Narrowing-aware int cast. nullopt on out-of-range." (checked_math.h:70), for
\* integer types of every width, but for the casts that widen a signed type to
\* a signed one.
THEOREM AlwaysCastsExact == Spec => []CastsExact
<1>1. Init => CastsExact
  BY DEF Init, CastsExact
<1>2. CastsExact /\ [Next]_vars => CastsExact'
  <2> SUFFICES ASSUME CastsExact, [Next]_vars PROVE CastsExact'
    OBVIOUS
  <2>1. ASSUME NEW dst \in Type, NEW src \in Type, NEW v \in min(src) .. max(src), Cast(dst, src, v)
        PROVE  CastsExact'
    BY <2>1, CastExact DEF Cast, CastsExact, Widening, ExactCast, In
  <2>2. Used => CastsExact'
    BY DEF Used, CastsExact
  <2>3. UNCHANGED vars => CastsExact'
    BY DEF vars, CastsExact, ExactCast, Widening
  <2>4. ASSUME NEW a, NEW b, Add(a, b) \/ Sub(a, b) \/ Mul(a, b) \/ NextCapacity(a, b) PROVE CastsExact'
    BY <2>4 DEF Add, Sub, Mul, NextCapacity, CastsExact
  <2>5. ASSUME NEW a, NEW b, NEW c, Grow(a, b, c) \/ InBounds(a, b, c) PROVE CastsExact'
    BY <2>5 DEF Grow, InBounds, CastsExact
  <2> QED BY <2>1, <2>2, <2>3, <2>4, <2>5 DEF Next, Call
<1> QED BY <1>1, <1>2, PTL DEF Spec
=============================================================================
