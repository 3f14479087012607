-------------------------------- MODULE CApi --------------------------------
(***************************************************************************)
(* The C ABI (include/onedge/c_api.h, src/c_api.cpp): one action per       *)
(* function.  A handle is a heap-allocated wrapper around one container;   *)
(* it is the object here, Null when the caller passes a null handle or, to *)
(* a function that creates one, no place to store it.  The wrapper's own   *)
(* allocation is part of `alive`, and may fail.                            *)
(***************************************************************************)
EXTENDS Mixed

CONSTANT Untouched  \* *out_copied as the caller left it

VARIABLE copied  \* history: *out_copied after the last call

vars == <<heap, obj, alive, fault, call, ret, copied>>

Init == B!Init /\ copied = Untouched

NoCount == copied' = Untouched

\* A call that reports v and changes nothing.
Reports(c, code, v) == B!Looks(c, code, v, FALSE) /\ NoCount

\* if (!b) return OE_E_NULL_POINTER, and the same for a null `out`.
NoHandle(c) == c[2] = Null /\ Reports(c, "null_pointer", <<>>)

\* if (b) ..., in a function that returns nothing; delete of a null pointer.
NoOp(c) == c[2] = Null /\ Reports(c, "ok", <<>>)

\* Mutant: the container a failed handle leaves behind is released, not freed.
handle_leaks(outcomes) ==
  outcomes \cup {B!Outcome("out_of_memory", o.heap, B!Empty, o.bad)
                   : o \in {o \in outcomes : o.code = "ok"}}

\* new (std::nothrow) of a handle for the container a factory gave: it may
\* fail, and then the result's destructor frees the container.
handle(outcomes) ==
  outcomes \cup {B!Outcome("out_of_memory", B!free(o.heap, o.buf.data), B!Empty, o.bad)
                   : o \in {o \in outcomes : o.code = "ok"}}

\* The function that creates handle c[2] ends, its factory having answered.
Makes(c, outcomes) ==
  /\ c[2] # Null
  /\ \E o \in handle(outcomes) : B!Creates(c, c[2], o)
  /\ NoCount

\* if (out_copied) *out_copied = n.
Counts(out_copied, n) == copied' = IF out_copied THEN n ELSE Untouched

-----------------------------------------------------------------------------
\* Buffers.

oe_buffer_create(b, n) ==
  \/ NoHandle(<<"with_capacity", b, n>>)
  \/ Makes(<<"with_capacity", b, n>>, B!with_capacity(heap, n))

oe_buffer_destroy(b) == NoOp(<<"destroy", b>>) \/ (B!Destroy(b) /\ NoCount)

oe_buffer_size(b) == Reports(<<"size", b>>, "ok", <<IF b = Null THEN 0 ELSE obj[b].size>>)

oe_buffer_capacity(b) ==
  Reports(<<"capacity", b>>, "ok", <<IF b = Null THEN 0 ELSE obj[b].cap>>)

\* The bytes the caller finds at data(), up to size().
oe_buffer_data(b) == Reports(<<"data", b>>, "ok", IF b = Null THEN <<>> ELSE B!Contents(b))

oe_buffer_reserve(b, n) == NoHandle(<<"reserve", b, n>>) \/ (B!Reserve(b, n) /\ NoCount)

oe_buffer_resize(b, n, v) == NoHandle(<<"resize", b, n, v>>) \/ (B!Resize(b, n, v) /\ NoCount)

oe_buffer_clear(b) == NoOp(<<"clear", b>>) \/ (B!Clear(b) /\ NoCount)

oe_buffer_secure_clear(b) == NoOp(<<"secure_clear", b>>) \/ (B!SecureClear(b) /\ NoCount)

oe_buffer_verify(b) ==
  Reports(<<"verify", b>>, "ok", <<b # Null /\ B!verify(obj[b])>>)

oe_buffer_append(b, s) == NoHandle(<<"append", b, s>>) \/ (B!AppendBytes(b, s) /\ NoCount)

oe_buffer_read(b, offset, out, len, out_copied) ==
  \/ NoHandle(<<"read", b, offset, out, len>>)
  \/ /\ B!Read(b, offset, out, len)
     /\ Counts(out_copied, IF ret'.code = "ok" THEN Len(ret'.val) ELSE 0)

oe_buffer_write(b, offset, s) ==
  NoHandle(<<"write", b, offset, s>>) \/ (B!Write(b, offset, s) /\ NoCount)

-----------------------------------------------------------------------------
\* Strings.

oe_string_create(s) ==
  \/ NoHandle(<<"construct", s>>)
  \/ Makes(<<"construct", s>>, {B!Outcome("ok", heap, B!Empty, FALSE)})

oe_string_from_cstr(s, cstr) ==
  LET c == <<"from_cstr", s, cstr>>
  IN  /\ S!Cstr(cstr) /\ Bounded(cstr)
      /\ \/ NoHandle(c)
         \/ Makes(c, IF S!StaticEmpty(cstr) THEN S!from_bytes(heap, Null, 0, 0)
                     ELSE S!from_cstr(heap, S!target(cstr), cstr.off))

oe_string_from_bytes(s, d) ==
  LET c == <<"from_bytes", s, d>>
  IN  /\ S!MayPass(d, 1, d.len >= MAX_ALLOC_BYTES) /\ Bounded(d)
      /\ NoHandle(c) \/ Makes(c, S!from_bytes(heap, S!target(d), d.off, d.len))

oe_string_destroy(s) == NoOp(<<"destroy", s>>) \/ (S!Destroy(s) /\ NoCount)

oe_string_size(s) == Reports(<<"size", s>>, "ok", <<IF s = Null THEN 0 ELSE obj[s].size>>)

oe_string_capacity(s) ==
  Reports(<<"capacity", s>>, "ok", <<IF s = Null THEN 0 ELSE obj[s].cap>>)

\* The bytes the caller finds there, up to and including the one at size().
oe_string_cstr(s) ==
  Reports(<<"cstr", s>>, "ok",
          IF s = Null \/ obj[s].data = Null THEN <<0>>
          ELSE Append(S!Contents(s), S!Load(heap, obj[s].data, obj[s].size)))

oe_string_reserve(s, n) == NoHandle(<<"reserve", s, n>>) \/ (S!Reserve(s, n) /\ NoCount)

oe_string_clear(s) == NoOp(<<"clear", s>>) \/ (S!Clear(s) /\ NoCount)

oe_string_secure_clear(s) == NoOp(<<"secure_clear", s>>) \/ (S!SecureClear(s) /\ NoCount)

oe_string_verify(s) ==
  Reports(<<"verify", s>>, "ok", <<s # Null /\ S!verify(heap, obj[s])>>)

\* Mutant: takes the bytes up to the cap for a string that ends there.
scan_cut(p, off) ==
  LET n == S!bounded_strlen(heap, p, off, MAX_ALLOC_BYTES)
  IN  [len  |-> IF n = B!Nullopt THEN MAX_ALLOC_BYTES - 1 ELSE n,
       code |-> "ok",
       bad  |-> ~ S!Inside(heap, p, off, IF n = B!Nullopt THEN MAX_ALLOC_BYTES ELSE n + 1)]

\* The scan of oe_string_append_cstr: it stops at a NUL or at the cap, and
\* reads every byte up to there.
scan(p, off) ==
  LET n == S!bounded_strlen(heap, p, off, MAX_ALLOC_BYTES)
      i == IF n = B!Nullopt THEN MAX_ALLOC_BYTES ELSE n
  IN  [len  |-> i,
       code |-> IF i = MAX_ALLOC_BYTES /\ S!Load(heap, p, off + i - 1) # 0
                THEN "not_null_terminated" ELSE "ok",
       bad  |-> ~ S!Inside(heap, p, off, IF i = MAX_ALLOC_BYTES THEN i ELSE i + 1)]

oe_string_append_cstr(s, cstr) ==
  LET c        == <<"append_cstr", s, cstr>>
      found    == IF S!StaticEmpty(cstr) THEN [len |-> 0, code |-> "ok", bad |-> FALSE]
                  ELSE scan(S!target(cstr), cstr.off)
      Outcomes == IF found.code # "ok" THEN {B!Outcome(found.code, heap, obj[s], FALSE)}
                  ELSE S!append(heap, obj[s], S!target(cstr), cstr.off, found.len)
  IN  /\ S!Cstr(cstr) /\ Bounded(cstr)
      /\ \/ NoHandle(c)
         \/ s # Null /\ cstr.of = Null /\ Reports(c, "null_pointer", <<>>)
         \/ /\ s # Null /\ cstr.of # Null /\ S!Audit(s)
            /\ \E o \in Outcomes : S!Ends(c, s, [o EXCEPT !.bad = @ \/ found.bad])
            /\ NoCount

oe_string_append_bytes(s, d) ==
  /\ Bounded(d)
  /\ NoHandle(<<"append", s, d>>) \/ (S!AppendBytes(s, d) /\ NoCount)

\* Mutant: forgets that the count is not in a truncated result.
partial_zero(size, out_len) == 0

\* What was written before the NUL, recomputed when the copy was truncated.
partial(size, out_len) == IF size < out_len - 1 THEN size ELSE out_len - 1

oe_string_copy_to_cstr(s, out, out_len, out_copied) ==
  \/ NoHandle(<<"copy_to_cstr", s, out, out_len>>)
  \/ /\ S!CopyToCstr(s, out, out_len)
     /\ Counts(out_copied, CASE ret'.code = "ok" -> Len(ret'.val) - 1
                             [] ret'.code = "truncated" /\ out_len > 0 -> partial(obj[s].size, out_len)
                             [] OTHER -> 0)

-----------------------------------------------------------------------------

Handle(kind) == (kind \cap alive) \cup {Null}

BufferNext ==
  \/ \E b \in Bufs \cup {Null}, n \in B!Size : oe_buffer_create(b, n)
  \/ \E b \in Handle(Bufs) :
       \/ oe_buffer_destroy(b) \/ oe_buffer_size(b) \/ oe_buffer_capacity(b) \/ oe_buffer_data(b)
       \/ oe_buffer_clear(b) \/ oe_buffer_secure_clear(b) \/ oe_buffer_verify(b)
       \/ \E n \in B!Size :
            \/ oe_buffer_reserve(b, n)
            \/ \E v \in Byte : oe_buffer_resize(b, n, v)
            \/ \E s \in B!Source : oe_buffer_write(b, n, s)
            \/ \E len \in B!Size, out, counted \in BOOLEAN : oe_buffer_read(b, n, out, len, counted)
       \/ \E s \in B!Source : oe_buffer_append(b, s)

StringNext ==
  \/ \E s \in Strs \cup {Null} :
       \/ oe_string_create(s)
       \/ \E d \in S!Source : oe_string_from_cstr(s, d) \/ oe_string_from_bytes(s, d)
  \/ \E s \in Handle(Strs) :
       \/ oe_string_destroy(s) \/ oe_string_size(s) \/ oe_string_capacity(s) \/ oe_string_cstr(s)
       \/ oe_string_clear(s) \/ oe_string_secure_clear(s) \/ oe_string_verify(s)
       \/ \E n \in S!Size :
            \/ oe_string_reserve(s, n)
            \/ \E out, counted \in BOOLEAN : oe_string_copy_to_cstr(s, out, n, counted)
       \/ \E d \in S!Source : oe_string_append_cstr(s, d) \/ oe_string_append_bytes(s, d)

Next == BufferNext \/ StringNext

Spec == Init /\ [][Next]_vars

-----------------------------------------------------------------------------
(***************************************************************************)
(* Properties.                                                             *)
(***************************************************************************)

\* "*out_copied is what was written before the NUL": when a call on a good
\* handle reports a count, it is the number of bytes that landed in the
\* caller's array, in a short read, a truncated copy and a refused call too.
CountsMatch ==
  [][call'[2] # Null /\ copied' # Untouched =>
       copied' = LET landed == Len(ret'.val)
                 IN  IF call'[1] = "copy_to_cstr" /\ landed > 0 THEN landed - 1 ELSE landed]_vars

Abs == INSTANCE AbstractCApi WITH contents <- [x \in Obj |-> B!Contents(x)]

\* Seen through the C functions, handles of both kinds behave as byte
\* sequences that never share anything: sources may lie in the other kind,
\* a null handle changes nothing, a handle that could not be allocated leaves
\* no trace, and append_cstr takes exactly the bytes before the first NUL.
Implements == Abs!Spec
=============================================================================
