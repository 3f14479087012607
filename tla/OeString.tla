------------------------------ MODULE OeString ------------------------------
(***************************************************************************)
(* oe::string (include/onedge/string.h, src/string.cpp): one action per    *)
(* operation, over any number of string objects sharing one heap.  A       *)
(* string of capacity cap_ owns a block of cap_ + 1 bytes and keeps a NUL  *)
(* after its last byte.  Overloads that only forward (from_view, append of *)
(* a view or of a string, assign of a view) are the operation they forward *)
(* to, with a source inside some object or in the caller's memory.         *)
(*                                                                         *)
(* STRING_AUDIT aborts the process on a corrupt object, so it guards every *)
(* audited operation; that it never fires is the property Consistent.      *)
(***************************************************************************)
EXTENDS Container

CONSTANT
  Excluded  \* calls the callers of this instance do not make

(***************************************************************************)
(* Four kinds of calls after which a string does not hold what it should:  *)
(*   bare_replace       replace(0, 0, "") on a string without storage;     *)
(*   view_at_capacity   a view of the string's own terminator, when the    *)
(*                      string fills its capacity;                         *)
(*   shifted_terminator a view that ends with the string's own terminator  *)
(*                      and begins in the part that insert or replace      *)
(*                      moves;                                             *)
(*   inner_view         replacing a range, other than the end of the       *)
(*                      string, by a view of different length that begins  *)
(*                      inside the range.                                  *)
(***************************************************************************)
ASSUME StringAssumption ==
  /\ Slack = 1
  /\ Excluded \subseteq {"bare_replace", "view_at_capacity", "shifted_terminator", "inner_view"}

\* Callers do not make the calls where cond holds, if they are excluded.
Avoid(kind, cond) == kind \in Excluded => ~cond

\* STRING_AUDIT.
Audit(x) ==
  /\ obj[x].size <= obj[x].cap
  /\ obj[x].cap = 0 \/ obj[x].data # Null
  /\ obj[x].cap # 0 \/ obj[x].data = Null
  /\ obj[x].data = Null \/ Load(heap, obj[x].data, obj[x].size) = 0

verify(h, b) ==
  IF b.cap = 0 THEN b.data = Null /\ b.size = 0
  ELSE b.data # Null /\ b.size <= b.cap /\ Load(h, b.data, b.size) = 0

\* data_[size_] = '\0', at the end of an operation that went well so far.
Terminated(o) ==
  Outcome("ok", memset(o.heap, o.buf.data, o.buf.size, 0, 1), o.buf,
          o.bad \/ ~ Inside(o.heap, o.buf.data, o.buf.size, 1))

\* Mutant: makes no room for the terminator.
reserve_short(h, b, new_cap) ==
  IF new_cap <= b.cap THEN {Outcome("ok", h, b, FALSE)}
  ELSE IF new_cap > MAX_ALLOC_BYTES THEN {Outcome("capacity_exceeded", h, b, FALSE)}
  ELSE {Terminated(Outcome("ok", realloc(h, b.data, p, new_cap),
                           [data |-> p, size |-> b.size, cap |-> new_cap], FALSE))
          : p \in Room(h, b.data)}

\* Mutant: no cap on a single allocation.
reserve_uncapped(h, b, new_cap) ==
  IF new_cap <= b.cap THEN {Outcome("ok", h, b, FALSE)}
  ELSE {Terminated(Outcome("ok", realloc(h, b.data, p, new_cap + 1),
                           [data |-> p, size |-> b.size, cap |-> new_cap], FALSE))
          : p \in Room(h, b.data)}

\* Mutant: relies on the terminator written by whoever filled the block.
reserve_unterminated(h, b, new_cap) ==
  IF new_cap <= b.cap THEN {Outcome("ok", h, b, FALSE)}
  ELSE IF new_cap >= MAX_ALLOC_BYTES THEN {Outcome("capacity_exceeded", h, b, FALSE)}
  ELSE {Outcome("ok", realloc(h, b.data, p, new_cap + 1),
                [data |-> p, size |-> b.size, cap |-> new_cap], FALSE)
          : p \in Room(h, b.data)}

reserve_exact(h, b, new_cap) ==
  LET alloc_size == checked_add(new_cap, 1)
  IN  IF new_cap <= b.cap THEN {Outcome("ok", h, b, FALSE)}
      ELSE IF alloc_size = Nullopt THEN {Outcome("overflow", h, b, FALSE)}
      ELSE IF alloc_size > MAX_ALLOC_BYTES THEN {Outcome("capacity_exceeded", h, b, FALSE)}
      ELSE {Outcome("out_of_memory", h, b, FALSE)} \cup
           {Terminated(Outcome("ok", realloc(h, b.data, p, alloc_size),
                               [data |-> p, size |-> b.size, cap |-> new_cap], FALSE))
              : p \in Room(h, b.data)}

grow_to_at_least(h, b, needed) ==
  LET wanted == next_capacity(b.cap, needed)
  IN  IF needed <= b.cap THEN {Outcome("ok", h, b, FALSE)}
      ELSE reserve_exact(h, b, IF wanted < needed THEN needed ELSE wanted)

\* memmove into the string that o leaves, noting whether it stays in bounds.
Moved(o, to, p, from, n) ==
  IF n = 0 THEN o
  ELSE Outcome("ok", memmove(o.heap, o.buf.data, to, p, from, n), o.buf,
               o.bad \/ ~ (Inside(o.heap, p, from, n) /\ Inside(o.heap, o.buf.data, to, n)))

\* Every operation that takes bytes in ends by setting size_ and terminator.
Sized(o, n) == Terminated([o EXCEPT !.buf.size = n])

\* Mutant: keeps reading the source where it was before the growth.
copy_in_stale(h, b, dst_offset, p, off, len, target_size) ==
  {IF o.code = "ok" THEN Moved(o, dst_offset, p, off, len) ELSE o
     : o \in grow_to_at_least(h, b, target_size)}

copy_in_possibly_aliased(h, b, dst_offset, p, off, len, target_size) ==
  LET aliased == pointer_in_range(p, off, b.data, b.cap)
  IN  {IF o.code = "ok" THEN Moved(o, dst_offset, IF aliased THEN o.buf.data ELSE p, off, len) ELSE o
         : o \in grow_to_at_least(h, b, target_size)}

\* Mutant: does not follow a source inside the tail.
splice_unadjusted(h, b, pos, length, p, off, len, new_size) ==
  LET aliased == pointer_in_range(p, off, b.data, b.cap)
      Shifted(o) == Moved(o, pos + len, o.buf.data, pos + length, b.size - pos - length)
      Filled(o)  == Moved(o, pos, IF aliased THEN o.buf.data ELSE p, off, len)
  IN  {IF o.code = "ok" THEN Sized(Filled(Shifted(o)), new_size) ELSE o
         : o \in grow_to_at_least(h, b, new_size)}

\* What insert (with length = 0) and replace do once their arguments are
\* good: grow, move the tail to its place, move the source into the gap,
\* having followed a source inside the tail to where it went.
splice(h, b, pos, length, p, off, len, new_size) ==
  LET aliased     == pointer_in_range(p, off, b.data, b.cap)
      tail_offset == pos + length
      eff_offset  == IF aliased /\ off >= tail_offset THEN off + len - length ELSE off
      Shifted(o)  == Moved(o, pos + len, o.buf.data, tail_offset, b.size - tail_offset)
      Filled(o)   == Moved(o, pos, IF aliased THEN o.buf.data ELSE p, eff_offset, len)
  IN  {IF o.code = "ok" THEN Sized(Filled(Shifted(o)), new_size) ELSE o
         : o \in grow_to_at_least(h, b, new_size)}

-----------------------------------------------------------------------------
\* Factories.

with_capacity(h, n) ==
  IF n = 0 THEN {Outcome("ok", h, Empty, FALSE)} ELSE reserve_exact(h, Empty, n)

\* Mutant: sets the size of the new string and forgets to fill it.
from_bytes_unfilled(h, q, off, n) ==
  {IF o.code = "ok" THEN Sized(o, n) ELSE o : o \in with_capacity(h, n)}

\* The n bytes from offset off of block q.
from_bytes(h, q, off, n) ==
  IF n = 0 THEN {Outcome("ok", h, Empty, FALSE)}
  ELSE IF q = Null THEN {Outcome("null_pointer", h, Empty, FALSE)}
  ELSE {IF o.code = "ok" THEN Sized(Moved(o, 0, q, off, n), n) ELSE o : o \in with_capacity(h, n)}

\* The bytes before the first NUL among the cap first ones, else Nullopt.
bounded_strlen(h, q, off, cap) ==
  LET nul == {i \in 0 .. cap - 1 : Load(h, q, off + i) = 0}
  IN  IF nul = {} THEN Nullopt ELSE CHOOSE i \in nul : \A j \in nul : i <= j

from_cstr(h, q, off) ==
  LET n == bounded_strlen(h, q, off, MAX_ALLOC_BYTES)
  IN  IF q = Null THEN {Outcome("null_pointer", h, Empty, FALSE)}
      ELSE IF n = Nullopt
      THEN {Outcome("not_null_terminated", h, Empty, ~ Inside(h, q, off, MAX_ALLOC_BYTES))}
      ELSE {[o EXCEPT !.bad = o.bad \/ ~ Inside(h, q, off, n + 1)] : o \in from_bytes(h, q, off, n)}

WithCapacity(x, n) ==
  \E o \in with_capacity(heap, n) : Creates(<<"with_capacity", x, n>>, x, o)

FromBytes(x, s) ==
  /\ MayPass(s, 1, s.len >= MAX_ALLOC_BYTES)
  /\ \E o \in from_bytes(heap, target(s), s.off, s.len) : Creates(<<"from_bytes", x, s>>, x, o)

\* The C strings a caller may pass; s is all it can see from the pointer on:
\* null, the rest of some c_str(), or an array of its own that holds a NUL or
\* is as long as the cap.
Cstr(s) ==
  \/ s.of = Null /\ s.off = 0 /\ s.len = 0
  \/ s.of \in alive /\ s.off + s.len = obj[s.of].size + 1 /\ s.len > 0
  \/ /\ s.of = Caller /\ s.off + s.len = MAX_ALLOC_BYTES
     /\ s.off = 0 \/ \E a \in s.off .. MAX_ALLOC_BYTES - 1 : CallerBytes[a] = 0

\* The c_str() of a string without storage is a static "".
StaticEmpty(s) == s.of \in Obj /\ target(s) = Null

FromCstr(x, s) ==
  /\ Cstr(s)
  /\ \E o \in IF StaticEmpty(s) THEN from_bytes(heap, Null, 0, 0)
              ELSE from_cstr(heap, target(s), s.off) :
       Creates(<<"from_cstr", x, s>>, x, o)

Clone(x, y) ==
  /\ y \in alive /\ Audit(y)
  /\ \E o \in from_bytes(heap, obj[y].data, 0, obj[y].size) : Creates(<<"clone", x, y>>, x, o)

\* The code of a call that names a range of a string of the given size.
RangeCode(pos, length, size) ==
  IF range_in_bounds(pos, length, size) THEN "ok"
  ELSE IF checked_add(pos, length) = Nullopt THEN "overflow" ELSE "out_of_range"

Substr(x, y, pos, length) ==
  LET code == RangeCode(pos, length, obj[y].size)
  IN  /\ y \in alive /\ Audit(y)
      /\ \E o \in IF code # "ok" THEN {Outcome(code, heap, Empty, FALSE)}
                  ELSE from_bytes(heap, obj[y].data, pos, length) :
           Creates(<<"substr", x, y, pos, length>>, x, o)

-----------------------------------------------------------------------------
\* Operations on a live string.

At(x, i) ==
  /\ x \in alive /\ Audit(x)
  /\ \/ i >= obj[x].size /\ Looks(<<"at", x, i>>, "out_of_range", <<>>, FALSE)
     \/ /\ i < obj[x].size
        /\ Looks(<<"at", x, i>>, "ok", <<Load(heap, obj[x].data, i)>>,
                 ~ Inside(heap, obj[x].data, i, 1))

Reserve(x, n) ==
  /\ x \in alive /\ Audit(x)
  /\ \E o \in reserve_exact(heap, obj[x], n) : Ends(<<"reserve", x, n>>, x, o)

\* size_ = 0; if (data_) data_[0] = '\0';
clear(h, b) ==
  LET o == Outcome("ok", h, [b EXCEPT !.size = 0], FALSE)
  IN  IF b.data = Null THEN o ELSE Terminated(o)

Clear(x) ==
  /\ x \in alive /\ Audit(x)
  /\ Ends(<<"clear", x>>, x, clear(heap, obj[x]))

SecureClear(x) ==
  LET b == obj[x]
  IN  /\ x \in alive /\ Audit(x)
      /\ Ends(<<"secure_clear", x>>, x, clear(secure_zero(heap, b.data, b.size), b))

AppendChar(x, v) ==
  LET b        == obj[x]
      new_size == checked_add(b.size, 1)
      Put(o)   == Outcome("ok", memset(o.heap, o.buf.data, b.size, v, 1), o.buf,
                          ~ Inside(o.heap, o.buf.data, b.size, 1))
  IN  /\ x \in alive /\ Audit(x)
      /\ \E o \in IF new_size = Nullopt THEN {Outcome("overflow", heap, b, FALSE)}
                  ELSE grow_to_at_least(heap, b, new_size) :
           Ends(<<"append_char", x, v>>, x, IF o.code = "ok" THEN Sized(Put(o), new_size) ELSE o)

\* The view s of string x begins at x's terminator and x fills its capacity.
AtCapacity(x, s) == s.of = x /\ s.len > 0 /\ s.off = obj[x].cap

\* append of the len bytes from offset off of block p.
append(h, b, p, off, len) ==
  LET new_size == checked_add(b.size, len)
  IN  IF len = 0 THEN {Outcome("ok", h, b, FALSE)}
      ELSE IF p = Null THEN {Outcome("null_pointer", h, b, FALSE)}
      ELSE IF new_size = Nullopt THEN {Outcome("overflow", h, b, FALSE)}
      ELSE {IF o.code = "ok" THEN Sized(o, new_size) ELSE o
              : o \in copy_in_possibly_aliased(h, b, b.size, p, off, len, new_size)}

AppendBytes(x, s) ==
  /\ x \in alive /\ Audit(x)
  /\ MayPass(s, 1, obj[x].size + s.len >= MAX_ALLOC_BYTES)
  /\ Avoid("view_at_capacity", AtCapacity(x, s))
  /\ \E o \in append(heap, obj[x], target(s), s.off, s.len) : Ends(<<"append", x, s>>, x, o)

Assign(x, s) ==
  LET b        == obj[x]
      Outcomes ==
        IF s.len = 0 THEN {clear(heap, b)}
        ELSE IF target(s) = Null THEN {Outcome("null_pointer", heap, b, FALSE)}
        ELSE {IF o.code = "ok" THEN Sized(o, s.len) ELSE o
                : o \in copy_in_possibly_aliased(heap, b, 0, target(s), s.off, s.len, s.len)}
  IN  /\ x \in alive /\ Audit(x)
      /\ MayPass(s, 1, s.len >= MAX_ALLOC_BYTES)
      /\ \E o \in Outcomes : Ends(<<"assign", x, s>>, x, o)

\* A std::string_view over a null pointer is empty.
View(s) == s.of = Null => s.len = 0

\* The view s of x ends with x's terminator and begins at or after offset pos.
EndsBehind(x, s, pos) == s.of = x /\ s.off >= pos /\ s.off + s.len > obj[x].size

Insert(x, pos, s) ==
  LET b        == obj[x]
      new_size == checked_add(b.size, s.len)
      Outcomes ==
        IF pos > b.size THEN {Outcome("out_of_range", heap, b, FALSE)}
        ELSE IF s.len = 0 THEN {Outcome("ok", heap, b, FALSE)}
        ELSE IF new_size = Nullopt THEN {Outcome("overflow", heap, b, FALSE)}
        ELSE splice(heap, b, pos, 0, target(s), s.off, s.len, new_size)
  IN  /\ x \in alive /\ Audit(x)
      /\ View(s) /\ MayPass(s, 1, b.size + s.len >= MAX_ALLOC_BYTES)
      /\ Avoid("view_at_capacity", AtCapacity(x, s))
      /\ Avoid("shifted_terminator", EndsBehind(x, s, pos))
      /\ \E o \in Outcomes : Ends(<<"insert", x, pos, s>>, x, o)

\* checked_sub cannot fail here: the range is known to lie in the string.
Replace(x, pos, length, s) ==
  LET b        == obj[x]
      code     == RangeCode(pos, length, b.size)
      new_size == checked_add(checked_sub(b.size, length), s.len)
      Outcomes ==
        IF code # "ok" THEN {Outcome(code, heap, b, FALSE)}
        ELSE IF new_size = Nullopt THEN {Outcome("overflow", heap, b, FALSE)}
        ELSE splice(heap, b, pos, length, target(s), s.off, s.len, new_size)
  IN  /\ x \in alive /\ Audit(x)
      /\ View(s) /\ MayPass(s, 1, b.size - length + s.len >= MAX_ALLOC_BYTES)
      /\ Avoid("bare_replace", b.data = Null /\ s.len = 0)
      /\ Avoid("view_at_capacity", AtCapacity(x, s))
      /\ Avoid("shifted_terminator", EndsBehind(x, s, pos + length) /\ s.len # length)
      /\ Avoid("inner_view",
               /\ s.of = x /\ s.len \notin {0, length}
               /\ s.off \in pos + 1 .. pos + length - 1 /\ pos + length < b.size)
      /\ \E o \in Outcomes : Ends(<<"replace", x, pos, length, s>>, x, o)

\* What lands in the caller's out array is the value returned, truncated or
\* not; a null out array is out = FALSE.
CopyToCstr(x, out, out_len) ==
  LET c       == <<"copy_to_cstr", x, out, out_len>>
      b       == obj[x]
      to_copy == IF b.size < out_len - 1 THEN b.size ELSE out_len - 1
  IN  /\ x \in alive /\ Audit(x)
      /\ \/ out_len = 0 /\ Looks(c, "invalid_argument", <<>>, FALSE)
         \/ out_len > 0 /\ ~out /\ Looks(c, "null_pointer", <<>>, FALSE)
         \/ /\ out_len > 0 /\ out
            /\ Looks(c, IF to_copy < b.size THEN "truncated" ELSE "ok",
                     Append([i \in 1 .. to_copy |-> Load(heap, b.data, i - 1)], 0),
                     to_copy > 0 /\ ~ Inside(heap, b.data, 0, to_copy))

Next ==
  \/ LifetimeNext
  \/ \E x \in Obj :
       \/ Clear(x) \/ SecureClear(x)
       \/ \E y \in Obj : Clone(x, y) \/ \E pos, n \in Size : Substr(x, y, pos, n)
       \/ \E n \in Size : WithCapacity(x, n) \/ Reserve(x, n) \/ At(x, n)
       \/ \E n \in Size, out \in BOOLEAN : CopyToCstr(x, out, n)
       \/ \E v \in Byte : AppendChar(x, v)
       \/ \E s \in Source :
            \/ FromBytes(x, s) \/ FromCstr(x, s) \/ AppendBytes(x, s) \/ Assign(x, s)
            \/ \E pos \in Size : Insert(x, pos, s) \/ \E n \in Size : Replace(x, pos, n, s)

Spec == Init /\ [][Next]_vars

-----------------------------------------------------------------------------
(***************************************************************************)
(* Properties of strings.                                                  *)
(***************************************************************************)

\* The audit macro would abort the process at the next call, and verify()
\* would report corruption, if a call ever left data_, size_ and cap_ in
\* disagreement or the string without its NUL: none does.
Consistent == \A x \in alive : Audit(x) /\ verify(heap, obj[x])

Abs == INSTANCE AbstractString WITH contents <- [x \in Obj |-> Contents(x)]

\* Every string behaves as the sequence of bytes AbstractString describes:
\* append, assign, insert, replace, substr and copy_to_cstr give exactly the
\* bytes asked for, also from a view of the string that is being changed, and
\* a refused call changes nothing.
Implements == Abs!Spec

\* Growth is "capped against overflow and the alloc cap": an append is refused
\* for its size only when the longer string and its NUL would not fit in the
\* largest allocation.  The code does not keep this: doubling to exactly the cap
\* forgets the terminator (reserve_exact; disagreement 6 of the README).
RefusesOnlyTooLong ==
  [][call'[1] \in {"append_char", "append"} /\ ret'.code = "capacity_exceeded" =>
       LET added == IF call'[1] = "append_char" THEN 1 ELSE call'[3].len
       IN  obj[call'[2]].size + added + 1 > MAX_ALLOC_BYTES]_vars
=============================================================================
