--------------------------- MODULE AbstractBuffer ---------------------------
(***************************************************************************)
(* What oe::buffer promises.                                               *)
(***************************************************************************)
EXTENDS AbstractContainer

\* q with the bytes from offset at replaced by those of w.
Overwrite(q, at, w) ==
  [i \in 1 .. Len(q) |-> IF i \in at + 1 .. at + Len(w) THEN w[i - at] ELSE q[i]]

Repeat(v, n) == [i \in 1 .. n |-> v]

\* The codes with which a call that needs n bytes of storage may return.
Room(n) ==
  IF n > SIZE_MAX THEN {"overflow"}
  ELSE IF n > MAX_ALLOC_BYTES THEN {"capacity_exceeded"}
  ELSE {"ok", "out_of_memory"}

\* ... and one that needs n bytes to take in a source.
Take(s, n) ==
  IF s.len = 0 THEN {"ok"} ELSE IF s.of = Null THEN {"null_pointer"} ELSE Room(n)

Create(c) ==
  /\ c[2] \notin alive
  /\ \/ c[1] = "with_capacity" /\ Becomes(c[2], <<>>, IF c[3] = 0 THEN {"ok"} ELSE Room(c[3]))
     \/ c[1] = "from_bytes" /\ Becomes(c[2], Value(c[3]), Take(c[3], c[3].len))
     \/ /\ c[1] = "clone"
        /\ LET q == contents[c[3]]
           IN  Becomes(c[2], q, IF q = <<>> THEN {"ok"} ELSE Room(Len(q)))

Use(c) ==
  LET x == c[2]
      q == contents[x]
      n == Len(q)
  IN
  /\ x \in alive
  /\ \/ c[1] = "at" /\ Yields(<<q[c[3] + 1]>>, Index(c[3] < n))
     \/ /\ c[1] = "read"
        /\ Yields(Part(q, c[3], Smaller(c[5], n - c[3])),
                  IF c[3] > n THEN {"out_of_range"}
                  ELSE IF c[5] > 0 /\ ~c[4] THEN {"null_pointer"} ELSE {"ok"})
     \/ c[1] = "set" /\ Becomes(x, Overwrite(q, c[3], <<c[4]>>), Index(c[3] < n))
     \/ c[1] = "reserve" /\ Becomes(x, q, Room(c[3]))
     \/ /\ c[1] = "resize"
        /\ Becomes(x, Part(q, 0, Smaller(c[3], n)) \o Repeat(c[4], c[3] - n),
                   IF c[3] <= n THEN {"ok"} ELSE Room(c[3]))
     \/ c[1] \in {"clear", "secure_clear"} /\ Becomes(x, <<>>, {"ok"})
     \/ c[1] = "append_byte" /\ Becomes(x, Append(q, c[3]), Room(n + 1))
     \/ c[1] = "append" /\ Becomes(x, q \o Value(c[3]), Take(c[3], n + c[3].len))
     \/ /\ c[1] = "write"
        /\ Becomes(x, Overwrite(q, c[3], Value(c[4])),
                   IF c[4].len = 0 THEN {"ok"}
                   ELSE IF c[4].of = Null THEN {"null_pointer"}
                   ELSE Range(c[3], c[4].len, n))
     \/ c[1] = "fill" /\ Becomes(x, Repeat(c[3], n), {"ok"})

Next == Lifetime(call') \/ Create(call') \/ Use(call')

Spec == Init /\ [][Next]_avars
=============================================================================
