--------------------------- MODULE AbstractString ---------------------------
(***************************************************************************)
(* What oe::string promises: a live string is a sequence of bytes, NULs    *)
(* included, followed by a terminator that does not count.                 *)
(***************************************************************************)
EXTENDS AbstractContainer

\* The bytes a source stands for: it may reach the terminator of a string.
Text(s) ==
  IF s.len = 0 \/ s.of = Caller THEN Value(s)
  ELSE Part(Append(contents[s.of], 0), s.off, s.len)

\* q with its n bytes from offset off replaced by w.
Splice(q, off, n, w) ==
  Part(q, 0, off) \o w \o Part(q, off + n, Len(q) - off - n)

\* The codes with which a call that allocates a string of n bytes may return.
Room(n) ==
  IF n + 1 > SIZE_MAX THEN {"overflow"}
  ELSE IF n + 1 > MAX_ALLOC_BYTES THEN {"capacity_exceeded"}
  ELSE {"ok", "out_of_memory"}

\* ... and one that makes a string of m bytes one of n bytes.  Past half the
\* cap on an allocation, growth may give up early.
Grow(m, n) ==
  IF n <= m THEN {"ok"}
  ELSE Room(n) \cup (IF MAX_ALLOC_BYTES < 2 * n /\ n < SIZE_MAX THEN {"capacity_exceeded"} ELSE {})

\* s is a null pointer with something expected behind it, else codes.
Given(s, codes) == IF s.len > 0 /\ s.of = Null THEN {"null_pointer"} ELSE codes

Create(c) ==
  /\ c[2] \notin alive
  /\ \/ c[1] = "with_capacity" /\ Becomes(c[2], <<>>, IF c[3] = 0 THEN {"ok"} ELSE Room(c[3]))
     \/ /\ c[1] = "from_bytes"
        /\ Becomes(c[2], Text(c[3]), Given(c[3], IF c[3].len = 0 THEN {"ok"} ELSE Room(c[3].len)))
     \/ /\ c[1] = "clone"
        /\ LET q == contents[c[3]]
           IN  Becomes(c[2], q, IF q = <<>> THEN {"ok"} ELSE Room(Len(q)))
     \/ /\ c[1] = "substr"
        /\ LET q == contents[c[3]]
           IN  IF Range(c[4], c[5], Len(q)) = {"ok"}
               THEN Becomes(c[2], Part(q, c[4], c[5]), IF c[5] = 0 THEN {"ok"} ELSE Room(c[5]))
               ELSE Refuses(Range(c[4], c[5], Len(q)))

\* Where a NUL is in q, and what comes before the first one.
Nuls(q)    == {i \in 1 .. Len(q) : q[i] = 0}
UpToNul(q) == Part(q, 0, (CHOOSE i \in Nuls(q) : \A j \in Nuls(q) : i <= j) - 1)

\* from_cstr: the bytes up to the first NUL, if it comes soon enough.
FromCstr(x, s) ==
  /\ x \notin alive
  /\ IF s.of = Null THEN Refuses({"null_pointer"})
     ELSE IF Nuls(Text(s)) = {} THEN Refuses({"not_null_terminated"})
     ELSE LET q == UpToNul(Text(s))
          IN  Becomes(x, q, IF q = <<>> THEN {"ok"} ELSE Room(Len(q)))

\* copy_to_cstr: as much as fits in n bytes with a terminator, and never
\* silently less than all of it.
CopyOut(q, out, n) ==
  /\ LET m == Smaller(Len(q), n - 1)
     IN  IF n = 0 \/ ~out THEN Refuses({IF n = 0 THEN "invalid_argument" ELSE "null_pointer"})
         ELSE ret' = [code |-> IF m < Len(q) THEN "truncated" ELSE "ok",
                      val  |-> Append(Part(q, 0, m), 0)]
  /\ UNCHANGED <<contents, alive>>

Use(c) ==
  LET x == c[2]
      q == contents[x]
      n == Len(q)
  IN
  /\ x \in alive
  /\ \/ c[1] = "at" /\ Yields(<<q[c[3] + 1]>>, Index(c[3] < n))
     \/ c[1] = "reserve" /\ Becomes(x, q, IF c[3] <= n THEN {"ok"} ELSE Room(c[3]))
     \/ c[1] \in {"clear", "secure_clear"} /\ Becomes(x, <<>>, {"ok"})
     \/ c[1] = "append_char" /\ Becomes(x, Append(q, c[3]), Grow(n, n + 1))
     \/ c[1] = "append" /\ Becomes(x, q \o Text(c[3]), Given(c[3], Grow(n, n + c[3].len)))
     \/ c[1] = "assign" /\ Becomes(x, Text(c[3]), Given(c[3], Grow(n, c[3].len)))
     \/ /\ c[1] = "insert"
        /\ Becomes(x, Splice(q, c[3], 0, Text(c[4])),
                   IF c[3] > n THEN {"out_of_range"} ELSE Grow(n, n + c[4].len))
     \/ /\ c[1] = "replace"
        /\ IF Range(c[3], c[4], n) = {"ok"}
           THEN Becomes(x, Splice(q, c[3], c[4], Text(c[5])), Grow(n, n - c[4] + c[5].len))
           ELSE Refuses(Range(c[3], c[4], n))
     \/ c[1] = "copy_to_cstr" /\ CopyOut(q, c[3], c[4])

Next ==
  \/ Lifetime(call') \/ Create(call') \/ Use(call')
  \/ call'[1] = "from_cstr" /\ FromCstr(call'[2], call'[3])

Spec == Init /\ [][Next]_avars
=============================================================================
