------------------------------- MODULE Buffer -------------------------------
(***************************************************************************)
(* oe::buffer (include/onedge/buffer.h, src/buffer.cpp): one action per    *)
(* operation, over any number of buffer objects sharing one heap.          *)
(*                                                                         *)
(* The private helpers return, as in the code, an error code and the new   *)
(* state; since the allocator may refuse, and realloc may move the block,  *)
(* they are sets of outcomes.  BUFFER_AUDIT aborts the process when the    *)
(* three fields disagree, so it guards every audited operation; that it    *)
(* never fires is the property Consistent.                                 *)
(***************************************************************************)
EXTENDS Container

ASSUME BufferAssumption == Slack = 0

\* BUFFER_AUDIT.
Audit(x) ==
  /\ obj[x].size <= obj[x].cap
  /\ obj[x].cap = 0 \/ obj[x].data # Null
  /\ obj[x].cap # 0 \/ obj[x].data = Null

verify(b) ==
  IF b.cap = 0 THEN b.data = Null /\ b.size = 0
  ELSE b.data # Null /\ b.size <= b.cap

\* Mutant: no cap on a single allocation.
reserve_uncapped(h, b, new_cap) ==
  {Outcome("ok", realloc(h, b.data, p, new_cap), [data |-> p, size |-> b.size, cap |-> new_cap], FALSE)
     : p \in Room(h, b.data)}

\* Mutant: records the capacity before it knows that realloc succeeded.
reserve_early(h, b, new_cap) ==
  IF new_cap <= b.cap THEN {Outcome("ok", h, b, FALSE)}
  ELSE {Outcome("out_of_memory", h, [b EXCEPT !.cap = new_cap], FALSE)}

reserve(h, b, new_cap) ==
  IF new_cap <= b.cap THEN {Outcome("ok", h, b, FALSE)}
  ELSE IF new_cap > MAX_ALLOC_BYTES THEN {Outcome("capacity_exceeded", h, b, FALSE)}
  ELSE {Outcome("out_of_memory", h, b, FALSE)} \cup
       {Outcome("ok", realloc(h, b.data, p, new_cap), [data |-> p, size |-> b.size, cap |-> new_cap], FALSE)
          : p \in Room(h, b.data)}

\* Mutant: asks for more room even when there is enough.
grow_always(h, b, needed) == reserve(h, b, next_capacity(b.cap, needed))

grow_to_at_least(h, b, needed) ==
  LET wanted == next_capacity(b.cap, needed)
  IN  IF needed <= b.cap THEN {Outcome("ok", h, b, FALSE)}
      ELSE reserve(h, b, IF wanted < needed THEN needed ELSE wanted)

\* Mutant: keeps reading the source where it was before the growth.
copy_in_stale(h, b, dst_offset, p, off, len) ==
  {IF o.code # "ok" THEN o
   ELSE Outcome("ok", memmove(o.heap, o.buf.data, dst_offset, p, off, len), o.buf,
                ~ (Inside(o.heap, p, off, len) /\ Inside(o.heap, o.buf.data, dst_offset, len)))
     : o \in grow_to_at_least(h, b, dst_offset + len)}

\* Copy len bytes from offset off of block p to dst_offset of b, growing b
\* first; a source inside b is found again in the block b has afterwards.
copy_in_possibly_aliased(h, b, dst_offset, p, off, len) ==
  LET aliased   == pointer_in_range(p, off, b.data, b.cap)
      end       == checked_add(dst_offset, len)
      Copied(o) ==
        LET src == IF aliased THEN o.buf.data ELSE p
        IN  Outcome("ok", memmove(o.heap, o.buf.data, dst_offset, src, off, len), o.buf,
                    ~ (Inside(o.heap, src, off, len) /\ Inside(o.heap, o.buf.data, dst_offset, len)))
  IN  IF end = Nullopt THEN {Outcome("overflow", h, b, FALSE)}
      ELSE {IF o.code = "ok" THEN Copied(o) ELSE o : o \in grow_to_at_least(h, b, end)}

-----------------------------------------------------------------------------
\* Factories.

with_capacity(h, n) ==
  IF n = 0 THEN {Outcome("ok", h, Empty, FALSE)}
  ELSE IF n > MAX_ALLOC_BYTES THEN {Outcome("capacity_exceeded", h, Empty, FALSE)}
  ELSE {Outcome("out_of_memory", h, Empty, FALSE)} \cup
       {Outcome("ok", malloc(h, p, n), [data |-> p, size |-> 0, cap |-> n], FALSE)
          : p \in Room(h, Null)}

\* Mutant: sets the size of the new buffer and forgets to fill it.
from_bytes_unfilled(h, q, off, n) ==
  {IF o.code = "ok" THEN [o EXCEPT !.buf.size = n] ELSE o : o \in with_capacity(h, n)}

\* The n bytes from offset off of block q.
from_bytes(h, q, off, n) ==
  LET Filled(o) == Outcome("ok", memmove(o.heap, o.buf.data, 0, q, off, n),
                           [o.buf EXCEPT !.size = n], ~ Inside(h, q, off, n))
  IN  IF n = 0 THEN with_capacity(h, 0)
      ELSE IF q = Null THEN {Outcome("null_pointer", h, Empty, FALSE)}
      ELSE {IF o.code = "ok" THEN Filled(o) ELSE o : o \in with_capacity(h, n)}

WithCapacity(x, n) ==
  \E o \in with_capacity(heap, n) : Creates(<<"with_capacity", x, n>>, x, o)

FromBytes(x, s) ==
  /\ MayPass(s, 0, s.len > MAX_ALLOC_BYTES)
  /\ \E o \in from_bytes(heap, target(s), s.off, s.len) : Creates(<<"from_bytes", x, s>>, x, o)

Clone(x, y) ==
  /\ y \in alive /\ Audit(y)
  /\ \E o \in from_bytes(heap, obj[y].data, 0, obj[y].size) : Creates(<<"clone", x, y>>, x, o)

-----------------------------------------------------------------------------
\* Operations on a live buffer.

At(x, i) ==
  /\ x \in alive /\ Audit(x)
  /\ \/ i >= obj[x].size /\ Looks(<<"at", x, i>>, "out_of_range", <<>>, FALSE)
     \/ /\ i < obj[x].size
        /\ Looks(<<"at", x, i>>, "ok", <<Load(heap, obj[x].data, i)>>,
                 ~ Inside(heap, obj[x].data, i, 1))

Set(x, i, v) ==
  LET b == obj[x]
  IN  /\ x \in alive /\ Audit(x)
      /\ Ends(<<"set", x, i, v>>, x,
              IF i >= b.size THEN Outcome("out_of_range", heap, b, FALSE)
              ELSE Outcome("ok", memset(heap, b.data, i, v, 1), b, ~ Inside(heap, b.data, i, 1)))

Reserve(x, n) ==
  /\ x \in alive /\ Audit(x)
  /\ \E o \in reserve(heap, obj[x], n) : Ends(<<"reserve", x, n>>, x, o)

\* Shrinking keeps the allocation, and the bytes past the new size.
Resize(x, n, v) ==
  LET b == obj[x]
      Sized(o) ==
        Outcome("ok",
                IF n > b.size THEN memset(o.heap, o.buf.data, b.size, v, n - b.size) ELSE o.heap,
                [o.buf EXCEPT !.size = n],
                n > b.size /\ ~ Inside(o.heap, o.buf.data, b.size, n - b.size))
  IN  /\ x \in alive /\ Audit(x)
      /\ \E o \in IF n > MAX_ALLOC_BYTES THEN {Outcome("capacity_exceeded", heap, b, FALSE)}
                  ELSE grow_to_at_least(heap, b, n) :
           Ends(<<"resize", x, n, v>>, x, IF o.code = "ok" THEN Sized(o) ELSE o)

Clear(x) ==
  /\ x \in alive /\ Audit(x)
  /\ Ends(<<"clear", x>>, x, Outcome("ok", heap, [obj[x] EXCEPT !.size = 0], FALSE))

SecureClear(x) ==
  LET b == obj[x]
  IN  /\ x \in alive /\ Audit(x)
      /\ Ends(<<"secure_clear", x>>, x,
              Outcome("ok", secure_zero(heap, b.data, b.size), [b EXCEPT !.size = 0],
                      b.size > 0 /\ ~ Inside(heap, b.data, 0, b.size)))

AppendByte(x, v) ==
  LET b        == obj[x]
      new_size == checked_add(b.size, 1)
      Put(o)   == Outcome("ok", memset(o.heap, o.buf.data, b.size, v, 1),
                          [o.buf EXCEPT !.size = new_size], ~ Inside(o.heap, o.buf.data, b.size, 1))
  IN  /\ x \in alive /\ Audit(x)
      /\ \E o \in IF new_size = Nullopt THEN {Outcome("overflow", heap, b, FALSE)}
                  ELSE grow_to_at_least(heap, b, new_size) :
           Ends(<<"append_byte", x, v>>, x, IF o.code = "ok" THEN Put(o) ELSE o)

AppendBytes(x, s) ==
  LET b        == obj[x]
      new_size == checked_add(b.size, s.len)
      Outcomes ==
        IF s.len = 0 THEN {Outcome("ok", heap, b, FALSE)}
        ELSE IF target(s) = Null THEN {Outcome("null_pointer", heap, b, FALSE)}
        ELSE IF new_size = Nullopt THEN {Outcome("overflow", heap, b, FALSE)}
        ELSE {IF o.code = "ok" THEN Outcome("ok", o.heap, [o.buf EXCEPT !.size = new_size], o.bad) ELSE o
                : o \in copy_in_possibly_aliased(heap, b, b.size, target(s), s.off, s.len)}
  IN  /\ x \in alive /\ Audit(x)
      /\ MayPass(s, 0, b.size + s.len > MAX_ALLOC_BYTES)
      /\ \E o \in Outcomes : Ends(<<"append", x, s>>, x, o)

Write(x, offset, s) ==
  LET b    == obj[x]
      fits == range_in_bounds(offset, s.len, b.size)
      code == IF s.len = 0 THEN "ok"
              ELSE IF target(s) = Null THEN "null_pointer"
              ELSE IF fits THEN "ok"
              ELSE IF checked_add(offset, s.len) = Nullopt THEN "overflow" ELSE "out_of_range"
  IN  /\ x \in alive /\ Audit(x)
      /\ MayPass(s, 0, ~fits)
      /\ Ends(<<"write", x, offset, s>>, x,
              IF s.len = 0 \/ code # "ok" THEN Outcome(code, heap, b, FALSE)
              ELSE Outcome("ok", memmove(heap, b.data, offset, target(s), s.off, s.len), b,
                           ~ (/\ Inside(heap, target(s), s.off, s.len)
                              /\ Inside(heap, b.data, offset, s.len))))

\* What lands in the caller's out array is the value returned; a null out
\* array is out = FALSE.
Read(x, offset, out, len) ==
  LET c         == <<"read", x, offset, out, len>>
      available == obj[x].size - offset
      to_copy   == IF len < available THEN len ELSE available
  IN  /\ x \in alive /\ Audit(x)
      /\ \/ offset > obj[x].size /\ Looks(c, "out_of_range", <<>>, FALSE)
         \/ offset <= obj[x].size /\ len = 0 /\ Looks(c, "ok", <<>>, FALSE)
         \/ offset <= obj[x].size /\ len > 0 /\ ~out /\ Looks(c, "null_pointer", <<>>, FALSE)
         \/ /\ offset <= obj[x].size /\ len > 0 /\ out
            /\ Looks(c, "ok", [i \in 1 .. to_copy |-> Load(heap, obj[x].data, offset + i - 1)],
                     to_copy > 0 /\ ~ Inside(heap, obj[x].data, offset, to_copy))

Fill(x, v) ==
  LET b == obj[x]
  IN  /\ x \in alive /\ Audit(x)
      /\ Ends(<<"fill", x, v>>, x,
              IF b.size > 0 /\ b.data # Null
              THEN Outcome("ok", memset(heap, b.data, 0, v, b.size), b, ~ Inside(heap, b.data, 0, b.size))
              ELSE Outcome("ok", heap, b, FALSE))

Next ==
  \/ LifetimeNext
  \/ \E x \in Obj :
       \/ Clear(x) \/ SecureClear(x)
       \/ \E y \in Obj : Clone(x, y)
       \/ \E n \in Size : WithCapacity(x, n) \/ Reserve(x, n) \/ At(x, n)
       \/ \E v \in Byte : AppendByte(x, v) \/ Fill(x, v)
       \/ \E n \in Size, v \in Byte : Set(x, n, v) \/ Resize(x, n, v)
       \/ \E s \in Source : FromBytes(x, s) \/ AppendBytes(x, s)
       \/ \E n \in Size, s \in Source : Write(x, n, s)
       \/ \E n, len \in Size, out \in BOOLEAN : Read(x, n, out, len)

Spec == Init /\ [][Next]_vars

-----------------------------------------------------------------------------
(***************************************************************************)
(* Properties of buffers.                                                  *)
(***************************************************************************)

\* The audit macro would abort the process at the next call, and verify()
\* would report corruption, if a call, a refused one included, ever left
\* data_, size_ and cap_ in disagreement: none does.
Consistent == \A x \in alive : Audit(x) /\ verify(obj[x])

\* data() is "invalidated by anything that may grow": a pointer a caller got
\* from data() stays good through every call after which the contents still
\* fit the capacity there was, reserve and moves apart, and through every
\* call that is refused.
DataStable ==
  [][\A x \in alive \cap alive' :
       \/ call'[1] \in {"reserve", "move_construct", "move_assign"} /\ ret'.code = "ok"
       \/ obj'[x].size > obj[x].cap
       \/ obj'[x].data = obj[x].data /\ obj'[x].cap = obj[x].cap]_vars

Abs == INSTANCE AbstractBuffer WITH contents <- [x \in Obj |-> Contents(x)]

\* Every buffer behaves as the sequence of bytes AbstractBuffer describes:
\* what a call leaves and returns is exactly what its arguments ask for, also
\* when the source lies inside the buffer that grows, and a refused call
\* changes nothing.
Implements == Abs!Spec
=============================================================================
