---------------------------- MODULE CheckedMath ----------------------------
(***************************************************************************)
(* The size_t arithmetic of include/onedge/checked_math.h, and the growth  *)
(* policy next_capacity that buffer.cpp and string.cpp each hold a copy of.*)
(* size_t is 0 .. SIZE_MAX; an std::optional<size_t> is a size_t or        *)
(* Nullopt.  The machine operators wrap modulo SIZE_MAX + 1, and are       *)
(* written with that wrap here, so that a wrong guard would show.          *)
(***************************************************************************)
EXTENDS Integers

CONSTANTS
  SIZE_MAX,         \* the largest size_t
  MAX_ALLOC_BYTES,  \* ONEDGE_MAX_ALLOC_BYTES, cap on a single allocation
  kMinGrowth        \* smallest capacity that geometric growth starts from

ASSUME SizeAssumption ==
  /\ SIZE_MAX \in Nat
  /\ MAX_ALLOC_BYTES \in 1 .. SIZE_MAX
  /\ kMinGrowth \in 1 .. MAX_ALLOC_BYTES

Size == 0 .. SIZE_MAX

\* A value outside size_t, standing for std::nullopt.
Nullopt == -1

Wrap(n) == n % (SIZE_MAX + 1)

\* Mutant: compares after the sum has wrapped, and misses a wrap to the top.
checked_add_late(a, b) == IF Wrap(a + b) + 1 < a THEN Nullopt ELSE Wrap(a + b)

checked_add(a, b) == IF a > SIZE_MAX - b THEN Nullopt ELSE Wrap(a + b)

checked_sub(a, b) == IF b > a THEN Nullopt ELSE Wrap(a - b)

checked_mul(a, b) ==
  IF a = 0 \/ b = 0 THEN 0
  ELSE IF a > SIZE_MAX \div b THEN Nullopt
  ELSE Wrap(a * b)

checked_grow(current, additional, cap) ==
  LET sum == checked_add(current, additional)
  IN  IF sum = Nullopt \/ sum > cap THEN Nullopt ELSE sum

range_in_bounds(offset, length, container_size) ==
  LET end == checked_add(offset, length)
  IN  end # Nullopt /\ end <= container_size

\* Mutant: doubles past the cap on a single allocation.
next_capacity_uncapped(current, needed) ==
  LET doubled == checked_mul(IF current < kMinGrowth THEN kMinGrowth ELSE current, 2)
  IN  IF doubled # Nullopt /\ doubled >= needed THEN doubled ELSE needed

\* The doubled capacity when it covers the need and passes the cap, else
\* exactly what is needed.
next_capacity(current, needed) ==
  LET grown   == IF current < kMinGrowth THEN kMinGrowth ELSE current
      doubled == checked_mul(grown, 2)
  IN  IF doubled # Nullopt /\ doubled >= needed /\ doubled <= MAX_ALLOC_BYTES
      THEN doubled
      ELSE needed
=============================================================================
