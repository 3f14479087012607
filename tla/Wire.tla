-------------------------------- MODULE Wire --------------------------------
(***************************************************************************)
(* oe::writer, oe::span and oe::reader together: a writer appends fields   *)
(* to a buffer, a span is taken of the buffer's bytes and sliced, a reader *)
(* goes over it (writer.h, span.h, reader.h).  The buffer is what          *)
(* AbstractBuffer promises, a sequence of bytes that takes an append whole *)
(* or refuses it.  A successful append may move the buffer's block, so     *)
(* callers take a new span after it.                                       *)
(*                                                                         *)
(* A byte is a digit of base Base; shifts by 8, 16, ... bits and masks     *)
(* with 0xFF are multiplication, division and remainder by its powers.     *)
(***************************************************************************)
EXTENDS CheckedMath, FiniteSets, Sequences

CONSTANTS
  Base,      \* the number of values of a byte
  Prior,     \* what the buffer may hold when the writer is attached to it
  Raw,       \* lengths of the byte arrays given to write_bytes
  Values,    \* the integers given to the writer, by width and byte order
  MaxFields  \* bound: fields in a message

ASSUME WireAssumption ==
  /\ Base \in Nat \ {0, 1} /\ MaxFields \in Nat
  /\ Raw \subseteq Size
  /\ \A q \in Prior : q \in Seq(0 .. Base - 1) /\ Len(q) <= MAX_ALLOC_BYTES

\* The definition of ^, to which proofs have no other access.
ASSUME PowersAssumption == Base ^ 0 = 1 /\ \A i \in 0 .. 7 : Base ^ (i + 1) = Base * Base ^ i

VARIABLES
  bytes,    \* the contents of the buffer
  out,      \* the writer points to the buffer (or to nothing)
  written,  \* written_
  view,     \* the span, as part of bytes: the reader's data_
  pos,      \* the reader's pos_
  start,    \* history: the size of the buffer when the writer was attached
  fields,   \* history: where each accepted write put what
  call, ret \* history: the last call, what it returned

vars == <<bytes, out, written, view, pos, start, fields, call, ret>>

Buf == INSTANCE AbstractBuffer
         WITH Obj <- {0}, contents <- [x \in {0} |-> bytes], alive <- {0},
              Caller <- 0, Null <- 0, CallerBytes <- <<>>

Width == [u8 |-> 1, u16_be |-> 2, u32_be |-> 4, u32_le |-> 4, u64_be |-> 8]
Ints  == DOMAIN Width

\* An integer of n bytes is one that n digits can hold.
ASSUME ValuesAssumption ==
  \A kind \in Ints : \A v \in Values[kind] : v \in Nat /\ v < Base ^ Width[kind]

Lesser(m, n) == IF m < n THEN m ELSE n

NoSpan == [off |-> 0, len |-> 0]

Init ==
  /\ bytes \in Prior
  /\ out \in BOOLEAN
  /\ written = 0
  /\ view = NoSpan /\ pos = 0
  /\ start = Len(bytes)
  /\ fields = {}
  /\ call = <<"none">>
  /\ ret = [code |-> "ok", val |-> <<>>]

Returns(c, code, v) == call' = c /\ ret' = [code |-> code, val |-> v]

\* The byte at offset i of the buffer; past its end there might be anything.
Load(i) == IF i < Len(bytes) THEN bytes[i + 1] ELSE 0

-----------------------------------------------------------------------------
\* The writer.

\* buffer::append of the len bytes of data, null if given is FALSE: the codes
\* it may return.
append(len, given) ==
  IF len = 0 THEN {"ok"} ELSE IF ~given THEN {"null_pointer"} ELSE Buf!Room(Len(bytes) + len)

\* Mutant: counts the bytes before it knows that they were taken.
counted_early(code, len) == Wrap(written + len)

\* if (r.ok()) written_ += len.
counted(code, len) == IF code = "ok" THEN Wrap(written + len) ELSE written

write_bytes(kind, v, array, len, given) ==
  \E code \in IF out THEN append(len, given) ELSE {"null_pointer"} :
    /\ Returns(<<"write", kind, v>>, code, <<>>)
    /\ written' = IF out THEN counted(code, len) ELSE written
    /\ \/ /\ code = "ok"
          /\ bytes' = bytes \o array
          /\ fields' = fields \cup (IF len = 0 THEN {} ELSE
                {[at |-> Len(bytes), len |-> len, kind |-> kind, val |-> v]})
          /\ view' = NoSpan /\ pos' = 0
       \/ code # "ok" /\ UNCHANGED <<bytes, fields, view, pos>>
    /\ UNCHANGED <<out, start>>

\* (v >> 8 * i) & 0xFF
digit(v, i) == (v \div Base ^ i) % Base

write_u8(v) == write_bytes("u8", v, <<v>>, 1, TRUE)

write_u16_be(v) == write_bytes("u16_be", v, <<digit(v, 1), digit(v, 0)>>, 2, TRUE)

write_u32_be(v) ==
  write_bytes("u32_be", v, <<digit(v, 3), digit(v, 2), digit(v, 1), digit(v, 0)>>, 4, TRUE)

write_u32_le(v) ==
  write_bytes("u32_le", v, <<digit(v, 0), digit(v, 1), digit(v, 2), digit(v, 3)>>, 4, TRUE)

write_u64_be(v) == write_bytes("u64_be", v, [i \in 1 .. 8 |-> digit(v, 7 - (i - 1))], 8, TRUE)

\* The arrays callers pass hold 1, 0, 1, 0, ...; those too long to be taken
\* need not be there.
Array(len) == [i \in 1 .. Lesser(len, MAX_ALLOC_BYTES) |-> i % 2]

-----------------------------------------------------------------------------
\* Spans, and a reader constructed over each.

\* The caller's span is now the len bytes from offset off, its reader new.
Spans(c, code, off, len) ==
  /\ Returns(c, code, <<>>)
  /\ view' = [off |-> off, len |-> len]
  /\ pos' = 0
  /\ UNCHANGED <<bytes, out, written, start, fields>>

\* The call leaves buffer, writer, span and reader alone.
Looks(c, code, v) ==
  Returns(c, code, v) /\ UNCHANGED <<bytes, out, written, view, pos, start, fields>>

open == Spans(<<"open">>, "ok", 0, Len(bytes))

subspan(offset, count) ==
  LET c == <<"subspan", offset, count>>
  IN  \/ /\ offset > view.len \/ count > Wrap(view.len - offset)
         /\ Looks(c, "out_of_range", <<>>)
      \/ /\ offset <= view.len /\ count <= Wrap(view.len - offset)
         /\ Spans(c, "ok", view.off + offset, count)

first(count) == Spans(<<"first", count>>, "ok", view.off, Lesser(count, view.len))

last(count) ==
  LET take == Lesser(count, view.len)
  IN  Spans(<<"last", count>>, "ok", view.off + (view.len - take), take)

\* data_[i].
data(i) == Load(view.off + i)

at(i) == Looks(<<"at", i>>, "ok", IF i < view.len THEN <<data(i)>> ELSE <<>>)

-----------------------------------------------------------------------------
\* The reader.

remaining == Wrap(view.len - pos)

\* n bytes from the cursor on.
here(n) == [i \in 1 .. n |-> data(pos + i - 1)]

\* The read is good for v and moves the cursor by n.
Advances(c, v, n) ==
  /\ Returns(c, "ok", v)
  /\ pos' = Wrap(pos + n)
  /\ UNCHANGED <<bytes, out, written, view, start, fields>>

Short(c) == Looks(c, "out_of_range", <<>>)

\* Mutant: tests where the cursor would go, after the sum has wrapped.
skip_wrapping(n) ==
  \/ Wrap(pos + n) > view.len /\ Short(<<"skip", n>>)
  \/ Wrap(pos + n) <= view.len /\ Advances(<<"skip", n>>, <<>>, n)

skip(n) ==
  \/ n > remaining /\ Short(<<"skip", n>>)
  \/ n <= remaining /\ Advances(<<"skip", n>>, <<>>, n)

\* given: the caller's array is not null.
read_bytes(given, len) ==
  LET c == <<"read_bytes", len, given>>
  IN  \/ len = 0 /\ Looks(c, "ok", <<>>)
      \/ len > 0 /\ ~given /\ Looks(c, "null_pointer", <<>>)
      \/ len > 0 /\ given /\ len > remaining /\ Short(c)
      \/ len > 0 /\ given /\ len <= remaining /\ Advances(c, here(len), len)

read_view(len) ==
  \/ len > remaining /\ Short(<<"read_view", len>>)
  \/ len <= remaining /\ Advances(<<"read_view", len>>, here(len), len)

peek_view(len) ==
  \/ len > remaining /\ Short(<<"peek_view", len>>)
  \/ len <= remaining /\ Looks(<<"peek_view", len>>, "ok", here(len))

\* An integer read: v is what the bytes at the cursor come to.
Reads(kind, v) ==
  \/ remaining < Width[kind] /\ Short(<<"read", kind>>)
  \/ remaining >= Width[kind] /\ Advances(<<"read", kind>>, <<v>>, Width[kind])

\* data_[pos_ + i] << 8 * n
shifted(i, n) == data(pos + i) * Base ^ n

read_u8 == Reads("u8", data(pos))

read_u16_be == Reads("u16_be", shifted(0, 1) + shifted(1, 0))

read_u32_be == Reads("u32_be", shifted(0, 3) + shifted(1, 2) + shifted(2, 1) + shifted(3, 0))

\* Mutant: network order here too.
read_u32_le_swapped ==
  Reads("u32_le", shifted(0, 3) + shifted(1, 2) + shifted(2, 1) + shifted(3, 0))

read_u32_le == Reads("u32_le", shifted(0, 0) + shifted(1, 1) + shifted(2, 2) + shifted(3, 3))

\* v after i rounds of v = (v << 8) | data_[pos_ + i].
rounds[i \in 0 .. 8] == IF i = 0 THEN 0 ELSE rounds[i - 1] * Base + data(pos + i - 1)

read_u64_be == Reads("u64_be", rounds[8])

-----------------------------------------------------------------------------

WriterNext ==
  /\ Cardinality(fields) < MaxFields
  /\ \/ \E len \in Raw, given \in BOOLEAN : write_bytes("raw", 0, Array(len), len, given)
     \/ \E v \in Values["u8"] : write_u8(v)
     \/ \E v \in Values["u16_be"] : write_u16_be(v)
     \/ \E v \in Values["u32_be"] : write_u32_be(v)
     \/ \E v \in Values["u32_le"] : write_u32_le(v)
     \/ \E v \in Values["u64_be"] : write_u64_be(v)

SpanNext ==
  \/ open
  \/ \E n \in Size : first(n) \/ last(n) \/ at(n) \/ \E m \in Size : subspan(n, m)

ReaderNext ==
  \/ read_u8 \/ read_u16_be \/ read_u32_be \/ read_u32_le \/ read_u64_be
  \/ \E n \in Size :
       \/ skip(n) \/ read_view(n) \/ peek_view(n)
       \/ \E given \in BOOLEAN : read_bytes(given, n)

Next == WriterNext \/ SpanNext \/ ReaderNext

Spec == Init /\ [][Next]_vars

-----------------------------------------------------------------------------
\* examples/parse_framed_message.cpp, on the first n bytes of the buffer: the
\* payload, or the code of a frame that is turned down.  from_bytes may still
\* be out of memory, which is not a matter of the frame.

declared == Load(0) * Base ^ 3 + Load(1) * Base ^ 2 + Load(2) * Base + Load(3)

from_bytes(off, n) == [code |-> "ok", payload |-> [i \in 1 .. n |-> Load(off + i - 1)]]

Rejected(code) == [code |-> code, payload |-> <<>>]

\* Mutant: the hand-written check the example warns of.
parse_wrapping(n) ==
  IF n < 4 THEN Rejected("parse_error")
  ELSE IF Wrap(4 + declared) > n THEN Rejected("parse_error")
  ELSE from_bytes(4, declared)

parse_framed_message(n) ==
  IF n < 4 THEN Rejected("parse_error")
  ELSE LET end == checked_add(4, declared)
       IN  IF end = Nullopt THEN Rejected("overflow")
           ELSE IF end > n THEN Rejected("parse_error")
           ELSE from_bytes(4, declared)

-----------------------------------------------------------------------------
(***************************************************************************)
(* Properties.                                                             *)
(***************************************************************************)

\* A refused write, also in the middle of a message, leaves neither part of a
\* field nor a count behind: written() is what the buffer has gained, and the
\* fields that were accepted lie side by side and cover it.
WritesWhole ==
  /\ written = Len(bytes) - start
  /\ \A i \in start .. Len(bytes) - 1 :
       \E f \in fields : /\ i \in f.at .. f.at + f.len - 1
                         /\ \A g \in fields : i \in g.at .. g.at + g.len - 1 => g = f

\* "Same endian-coverage as reader": an integer the writer was given comes
\* back from the reader whose cursor reaches it, through any slices, skips,
\* short reads and peeks on the way, whatever was refused in between.
RoundTrip ==
  [][\A f \in fields :
       /\ call' = <<"read", f.kind>>
       /\ f.at = view.off + pos
       /\ f.at + f.len <= view.off + view.len
       => ret' = [code |-> "ok", val |-> <<f.val>>]]_vars

\* A length the writer put in front of a frame is the length the example's
\* parser takes: a frame is accepted exactly when all of it is in the input,
\* and the payload is what follows the length, for every cut of the input
\* and for lengths that overflow size_t.
FramesParse ==
  \A f \in fields : \A n \in 0 .. Len(bytes) :
    f.at = 0 /\ f.kind = "u32_be" =>
      LET r == parse_framed_message(n)
      IN  /\ r.code = "ok" <=> n >= 4 + f.val
          /\ r.code = "ok" => r.payload = [i \in 1 .. f.val |-> bytes[4 + i]]

Abs == INSTANCE AbstractReader
         WITH span <- SubSeq(bytes, view.off + 1, view.off + view.len),
              rest <- SubSeq(bytes, view.off + pos + 1, view.off + view.len)

\* Span and reader are sequences, of which slices and reads take parts: no
\* argument up to SIZE_MAX moves the cursor past the end or back, and "short
\* reads return out_of_range and leave the cursor where it was".
Implements == Abs!Spec
=============================================================================
