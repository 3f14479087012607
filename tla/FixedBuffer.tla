---------------------------- MODULE FixedBuffer ----------------------------
(***************************************************************************)
(* oe::fixed_buffer<N> (include/onedge/fixed_buffer.h): N bytes inside the *)
(* object and a size, one action per operation.  A source is a null        *)
(* pointer, part of the caller's memory, or part of what some object holds.*)
(***************************************************************************)
EXTENDS CheckedMath, Sequences

CONSTANTS
  N,            \* the template argument
  Obj,          \* the fixed buffers of the program, live or not
  Caller, Null, \* where else a pointer may point
  Byte,         \* the values of a byte
  CallerBytes   \* what the caller's own memory, of N bytes, holds

Slot == 0 .. N - 1

ASSUME FixedBufferAssumption ==
  /\ N \in 1 .. SIZE_MAX - 1
  /\ Caller \notin Obj /\ Null \notin Obj /\ Caller # Null
  /\ 0 \in Byte
  /\ CallerBytes \in [Slot -> Byte]

VARIABLES
  storage,  \* storage_ of each object
  size,     \* size_ of each object
  alive,    \* the objects that exist
  high,     \* history: the largest size since creation or secure_clear
  call,     \* history: the last call, with its arguments
  ret       \* history: what it returned

vars == <<storage, size, alive, high, call, ret>>

Zeroed == [i \in Slot |-> 0]

Source == [of : Obj \cup {Caller, Null}, off : 0 .. N, len : Size]

\* The arguments a caller may pass, a length too large to be true included.
MayPass(s, too_long) ==
  \/ s.of = Null /\ s.off = 0
  \/ s.of = Caller /\ (s.off + s.len <= N \/ (s.off = 0 /\ too_long))
  \/ s.of \in alive /\ s.off + s.len <= size[s.of]

\* Byte i of a source.
Deref(s, i) == IF s.of = Caller THEN CallerBytes[s.off + i] ELSE storage[s.of][s.off + i]

Init ==
  /\ storage = [x \in Obj |-> Zeroed]
  /\ size = [x \in Obj |-> 0]
  /\ alive = {}
  /\ high = [x \in Obj |-> 0]
  /\ call = <<"none">>
  /\ ret = [code |-> "ok", val |-> <<>>]

Returns(c, code, val) == call' = c /\ ret' = [code |-> code, val |-> val]

\* A call that changes no object.
Looks(c, code, val) == Returns(c, code, val) /\ UNCHANGED <<storage, size, alive, high>>

\* A call after which x has storage st, size n and history top.
Sets(c, x, st, n, top) ==
  /\ storage' = [storage EXCEPT ![x] = st]
  /\ size' = [size EXCEPT ![x] = n]
  /\ high' = [high EXCEPT ![x] = top]
  /\ Returns(c, "ok", <<>>)

\* A call on x, which stays alive.
Ends(c, x, st, n) ==
  Sets(c, x, st, n, IF n > high[x] THEN n ELSE high[x]) /\ UNCHANGED alive

\* memset of n bytes from offset to.
Filled(st, to, v, n) == [i \in Slot |-> IF i \in to .. to + n - 1 THEN v ELSE st[i]]

-----------------------------------------------------------------------------
Construct(x) ==
  /\ x \notin alive
  /\ alive' = alive \cup {x}
  /\ Sets(<<"construct", x>>, x, Zeroed, 0, 0)

\* The destructor does nothing; the object's memory is no longer anyone's.
Destroy(x) ==
  /\ x \in alive
  /\ alive' = alive \ {x}
  /\ Sets(<<"destroy", x>>, x, Zeroed, 0, 0)

\* The implicit copy operations, which also serve for moves, copy all N
\* bytes, those past the size included.
CopyConstruct(x, y) ==
  /\ x \notin alive /\ y \in alive
  /\ alive' = alive \cup {x}
  /\ Sets(<<"copy_construct", x, y>>, x, storage[y], size[y], high[y])

CopyAssign(x, y) ==
  /\ x \in alive /\ y \in alive
  /\ Sets(<<"copy_assign", x, y>>, x, storage[y], size[y], high[y])
  /\ UNCHANGED alive

At(x, i) ==
  /\ x \in alive
  /\ \/ i >= size[x] /\ Looks(<<"at", x, i>>, "out_of_range", <<>>)
     \/ i < size[x] /\ Looks(<<"at", x, i>>, "ok", <<storage[x][i]>>)

Set(x, i, v) ==
  LET c == <<"set", x, i, v>>
  IN  /\ x \in alive
      /\ \/ i >= size[x] /\ Looks(c, "out_of_range", <<>>)
         \/ i < size[x] /\ Ends(c, x, Filled(storage[x], i, v, 1), size[x])

\* Mutant: off by one at the capacity.
AppendByte_late(x, v) ==
  /\ x \in alive
  /\ \/ size[x] > N /\ Looks(<<"append_byte", x, v>>, "capacity_exceeded", <<>>)
     \/ /\ size[x] <= N
        /\ Ends(<<"append_byte", x, v>>, x, Filled(storage[x], size[x], v, 1), size[x] + 1)

AppendByte(x, v) ==
  LET c == <<"append_byte", x, v>>
  IN  /\ x \in alive
      /\ \/ size[x] >= N /\ Looks(c, "capacity_exceeded", <<>>)
         \/ size[x] < N /\ Ends(c, x, Filled(storage[x], size[x], v, 1), size[x] + 1)

AppendBytes(x, s) ==
  LET c        == <<"append", x, s>>
      new_size == checked_add(size[x], s.len)
      code     == IF s.len = 0 THEN "ok"
                  ELSE IF s.of = Null THEN "null_pointer"
                  ELSE IF new_size = Nullopt THEN "overflow"
                  ELSE IF new_size > N THEN "capacity_exceeded" ELSE "ok"
      Copied   == [i \in Slot |-> IF i \in size[x] .. new_size - 1 THEN Deref(s, i - size[x])
                                  ELSE storage[x][i]]
  IN  /\ x \in alive
      /\ MayPass(s, size[x] + s.len > N)
      /\ \/ (s.len = 0 \/ code # "ok") /\ Looks(c, code, <<>>)
         \/ s.len > 0 /\ code = "ok" /\ Ends(c, x, Copied, new_size)

\* Mutant: relies on the bytes past the size being zero.
Resize_unfilled(x, n, v) ==
  /\ x \in alive
  /\ \/ n > N /\ Looks(<<"resize", x, n, v>>, "capacity_exceeded", <<>>)
     \/ /\ n <= N
        /\ Ends(<<"resize", x, n, v>>, x,
                IF v = 0 THEN storage[x] ELSE Filled(storage[x], size[x], v, n - size[x]), n)

\* Shrinking keeps the bytes past the new size.
Resize(x, n, v) ==
  LET c == <<"resize", x, n, v>>
  IN  /\ x \in alive
      /\ \/ n > N /\ Looks(c, "capacity_exceeded", <<>>)
         \/ n <= N /\ Ends(c, x, Filled(storage[x], size[x], v, n - size[x]), n)

Clear(x) == x \in alive /\ Ends(<<"clear", x>>, x, storage[x], 0)

\* Mutant: zeroes the bytes in use only, as buffer::secure_clear does.
SecureClear_used(x) ==
  /\ x \in alive
  /\ Sets(<<"secure_clear", x>>, x, Filled(storage[x], 0, 0, size[x]), 0, 0)
  /\ UNCHANGED alive

SecureClear(x) ==
  /\ x \in alive
  /\ Sets(<<"secure_clear", x>>, x, Zeroed, 0, 0)
  /\ UNCHANGED alive

Fill(x, v) == x \in alive /\ Ends(<<"fill", x, v>>, x, Filled(storage[x], 0, v, size[x]), size[x])

verify(x) == size[x] <= N

Next ==
  \E x \in Obj :
    \/ Construct(x) \/ Destroy(x) \/ Clear(x) \/ SecureClear(x)
    \/ \E y \in Obj : CopyConstruct(x, y) \/ CopyAssign(x, y)
    \/ \E n \in Size : At(x, n)
    \/ \E v \in Byte : AppendByte(x, v) \/ Fill(x, v)
    \/ \E n \in Size, v \in Byte : Set(x, n, v) \/ Resize(x, n, v)
    \/ \E s \in Source : AppendBytes(x, s)

Spec == Init /\ [][Next]_vars

-----------------------------------------------------------------------------
\* Storage, sizes and histories have their types; verify() holds.
TypeOK ==
  /\ storage \in [Obj -> [Slot -> Byte]]
  /\ size \in [Obj -> 0 .. N] /\ \A x \in Obj : verify(x)
  /\ high \in [Obj -> 0 .. N]
  /\ alive \subseteq Obj

\* secure_clear "Zeros all N bytes (not just used portion)": nothing that was
\* in the object before the last secure_clear, below or past its size at that
\* time, is anywhere in its storage, or in a copy's, but where it was written
\* again.
NoResidue == \A x \in alive : \A i \in Slot : i >= high[x] => storage[x][i] = 0

Contents(x) == [i \in 1 .. size[x] |-> storage[x][i - 1]]

Abs == INSTANCE AbstractFixedBuffer
         WITH contents <- [x \in Obj |-> Contents(x)], MAX_ALLOC_BYTES <- N

\* "Same checks as oe::buffer, no heap, fixed N.": a fixed buffer behaves as
\* a buffer whose allocation cap is N, with the same codes for the same
\* arguments, and never reports a lack of memory.
Implements == Abs!FixedSpec
=============================================================================
