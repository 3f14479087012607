--------------------------- MODULE AbstractReader ---------------------------
(***************************************************************************)
(* What oe::span and oe::reader promise: a span is a sequence of bytes, a  *)
(* slice a part of it; a reader has the rest of its span before it, and a  *)
(* read takes bytes off the front or, if there are too few, nothing.       *)
(***************************************************************************)
EXTENDS Integers, Sequences

VARIABLES bytes, span, rest, call, ret

Init == span = <<>> /\ rest = <<>>

Same == UNCHANGED <<bytes, span, rest>>

\* The part of q from offset off that has n bytes.
Part(q, off, n) == SubSeq(q, off + 1, off + n)

Capped(n) == IF n < Len(span) THEN n ELSE Len(span)

Becomes(q) == span' = q /\ rest' = q /\ ret'.code = "ok" /\ UNCHANGED bytes

\* A write ends the life of spans, unless it is refused.
Write(c) ==
  \/ c[1] = "write" /\ ret'.code = "ok" /\ span' = <<>> /\ rest' = <<>>
  \/ c[1] = "write" /\ ret'.code # "ok" /\ Same

Slice(c) ==
  \/ c[1] = "open" /\ Becomes(bytes)
  \/ c[1] = "first" /\ Becomes(Part(span, 0, Capped(c[2])))
  \/ c[1] = "last" /\ Becomes(Part(span, Len(span) - Capped(c[2]), Capped(c[2])))
  \/ c[1] = "at" /\ ret'.val = Part(span, c[2], IF c[2] < Len(span) THEN 1 ELSE 0) /\ Same
  \/ /\ c[1] = "subspan"
     /\ IF c[2] + c[3] <= Len(span) THEN Becomes(Part(span, c[2], c[3]))
        ELSE ret'.code = "out_of_range" /\ Same

\* n bytes are taken, and handed out as they are if raw.
Take(n, raw) ==
  IF n > Len(rest) THEN ret' = [code |-> "out_of_range", val |-> <<>>] /\ Same
  ELSE /\ ret'.code = "ok"
       /\ raw => ret'.val = Part(rest, 0, n)
       /\ rest' = Part(rest, n, Len(rest) - n)
       /\ UNCHANGED <<bytes, span>>

Read(c) ==
  \/ c[1] = "skip" /\ Take(c[2], FALSE)
  \/ c[1] = "read_view" /\ Take(c[2], TRUE)
  \/ /\ c[1] = "read_bytes"
     /\ IF c[2] > 0 /\ ~c[3] THEN ret'.code = "null_pointer" /\ Same ELSE Take(c[2], TRUE)
  \/ /\ c[1] = "peek_view" /\ Same
     /\ ret' = IF c[2] > Len(rest) THEN [code |-> "out_of_range", val |-> <<>>]
               ELSE [code |-> "ok", val |-> Part(rest, 0, c[2])]
  \/ /\ c[1] = "read"
     /\ Take([u8 |-> 1, u16_be |-> 2, u32_be |-> 4, u32_le |-> 4, u64_be |-> 8][c[2]], FALSE)

Next == Write(call') \/ Slice(call') \/ Read(call')

Spec == Init /\ [][Next]_<<bytes, span, rest, call, ret>>
=============================================================================
