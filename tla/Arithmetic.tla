----------------------------- MODULE Arithmetic -----------------------------
(***************************************************************************)
(* The functions of include/onedge/checked_math.h as calls a program makes *)
(* one after another, against what they should compute.  The size_t        *)
(* functions are those of CheckedMath, next_capacity of the containers     *)
(* included; checked_cast is modelled here, for integer types of any       *)
(* widths.                                                                 *)
(***************************************************************************)
EXTENDS CheckedMath

CONSTANT
  Widths  \* the bit widths of the integer types

ASSUME WidthsAssumption == Widths \subseteq Nat \ {0}

\* The laws of exponents, as far as the widths need them: proofs have no other
\* access to 2 ^ n.
ASSUME PowersAssumption ==
  \A m \in Widths :
    /\ 2 ^ (m - 1) \in Nat \ {0}
    /\ 2 ^ m = 2 * 2 ^ (m - 1)
    /\ \A n \in Widths : m < n => /\ 2 ^ (n - 1 - m) \in Nat \ {0}
                                  /\ 2 ^ (n - 1) = 2 ^ (n - 1 - m) * 2 ^ m

VARIABLES
  call,  \* the last call
  ret    \* what it returned

vars == <<call, ret>>

-----------------------------------------------------------------------------
\* An integer type, its limits, and the conversion static_cast does.

Type == [signed : BOOLEAN, bits : Widths]

min(t) == IF t.signed THEN - 2 ^ (t.bits - 1) ELSE 0
max(t) == IF t.signed THEN 2 ^ (t.bits - 1) - 1 ELSE 2 ^ t.bits - 1

static_cast(t, v) ==
  LET low == v % 2 ^ t.bits
  IN  IF low > max(t) THEN low - 2 ^ t.bits ELSE low

make_unsigned(t) == [t EXCEPT !.signed = FALSE]

\* Mutant: forgets that a negative value has no unsigned counterpart.
checked_cast_unsigned(dst, src, v) ==
  IF v > static_cast(src, max(dst)) THEN <<>> ELSE <<static_cast(dst, v)>>

\* An std::optional: the value, or nothing.
checked_cast(dst, src, v) ==
  LET U == make_unsigned(src)
      refused ==
        IF src.signed = dst.signed
        THEN v < static_cast(src, min(dst)) \/ v > static_cast(src, max(dst))
        ELSE IF src.signed
        THEN v < 0 \/ static_cast(U, v) > static_cast(U, max(dst))
        ELSE v > static_cast(src, max(dst))
  IN  IF refused THEN <<>> ELSE <<static_cast(dst, v)>>

\* safe_add, safe_sub, safe_mul: the value, or nothing but error overflow.
safe(v) == IF v = Nullopt THEN <<>> ELSE <<v>>

-----------------------------------------------------------------------------
Init == call = <<"none">> /\ ret = 0

Add(a, b)          == call' = <<"add", a, b>> /\ ret' = safe(checked_add(a, b))
Sub(a, b)          == call' = <<"sub", a, b>> /\ ret' = safe(checked_sub(a, b))
Mul(a, b)          == call' = <<"mul", a, b>> /\ ret' = safe(checked_mul(a, b))
Grow(a, b, cap)    == call' = <<"grow", a, b, cap>> /\ ret' = checked_grow(a, b, cap)
InBounds(o, n, sz) == call' = <<"in_bounds", o, n, sz>> /\ ret' = range_in_bounds(o, n, sz)
NextCapacity(c, n) == call' = <<"next_capacity", c, n>> /\ ret' = next_capacity(c, n)
Cast(dst, src, v)  == call' = <<"cast", dst, src, v>> /\ ret' = checked_cast(dst, src, v)

\* The caller has used the result and is about to call again.
Used == call # <<"none">> /\ call' = <<"none">> /\ ret' = 0

Call ==
  \/ \E a, b \in Size :
       \/ Add(a, b) \/ Sub(a, b) \/ Mul(a, b) \/ NextCapacity(a, b)
       \/ \E c \in Size : Grow(a, b, c) \/ InBounds(a, b, c)
  \/ \E dst, src \in Type : \E v \in min(src) .. max(src) : Cast(dst, src, v)

Next == (call = <<"none">> /\ Call) \/ Used

Spec == Init /\ [][Next]_vars

-----------------------------------------------------------------------------
\* The checked size arithmetic gives the mathematical result whenever that
\* is a size_t (and, for checked_grow, passes the cap), and refuses exactly
\* the others: nothing ever wraps.  A growing container asks for twice its
\* capacity where that covers the need and passes the cap, and for the need
\* where it does not, also when twice the capacity is no size_t.
SizesExact ==
  LET Exact(v) == IF v \in Size THEN <<v>> ELSE <<>>
  IN  /\ call[1] = "add" => ret = Exact(call[2] + call[3])
      /\ call[1] = "sub" => ret = Exact(call[2] - call[3])
      /\ call[1] = "mul" => ret = Exact(call[2] * call[3])
      /\ call[1] = "grow" =>
           ret = IF call[2] + call[3] <= call[4] THEN call[2] + call[3] ELSE Nullopt
      /\ call[1] = "in_bounds" => ret = (call[2] + call[3] <= call[4])
      /\ call[1] = "next_capacity" =>
           LET doubled == 2 * (IF call[2] < kMinGrowth THEN kMinGrowth ELSE call[2])
           IN  ret = IF doubled \in call[3] .. MAX_ALLOC_BYTES THEN doubled ELSE call[3]

\* A cast returns the value when the destination can hold it, else nothing.
ExactCast ==
  ret = IF call[4] \in min(call[2]) .. max(call[2]) THEN <<call[4]>> ELSE <<>>

Widening == call[2].signed /\ call[3].signed /\ call[2].bits > call[3].bits

\* checked_cast is exact for every pair of types but those that widen a
\* signed type to a signed one.
CastsExact == call[1] = "cast" /\ ~Widening => ExactCast

\* "Narrowing-aware int cast. nullopt on out-of-range.": for every pair.
\* The code does not keep this (disagreement 7 of the README).
AllCastsExact == call[1] = "cast" => ExactCast
=============================================================================
