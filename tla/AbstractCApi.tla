---------------------------- MODULE AbstractCApi ----------------------------
(***************************************************************************)
(* What the C functions promise: buffers and strings as AbstractBuffer and *)
(* AbstractString describe them, reached through handles that may be null  *)
(* and whose own allocation may fail.                                      *)
(***************************************************************************)
EXTENDS Integers, Sequences

CONSTANTS Bufs, Strs, Caller, Null, CallerBytes, SIZE_MAX, MAX_ALLOC_BYTES

VARIABLES contents, alive, call, ret

Obj == Bufs \cup Strs

B == INSTANCE AbstractBuffer
S == INSTANCE AbstractString

Creating  == {"with_capacity", "construct", "from_cstr", "from_bytes"}
Reporting == {"size", "capacity", "data", "cstr", "verify"}

\* What the getters say; a null handle looks like an empty container, but
\* does not pass for a sound one.
Report(c) ==
  LET q == IF c[2] = Null THEN <<>> ELSE contents[c[2]]
  IN  /\ c[2] \in alive \cup {Null}
      /\ UNCHANGED <<contents, alive>>
      /\ ret'.code = "ok"
      /\ \/ c[1] = "size" /\ ret'.val = <<Len(q)>>
         \/ c[1] = "capacity" /\ ret'.val[1] >= Len(q)
         \/ c[1] = "data" /\ ret'.val = q
         \/ c[1] = "cstr" /\ ret'.val = Append(q, 0)
         \/ c[1] = "verify" /\ ret'.val = <<c[2] # Null>>

NoHandle(c) ==
  /\ c[2] = Null /\ c[1] \notin Reporting
  /\ UNCHANGED <<contents, alive>>
  /\ ret' = [code |-> IF c[1] \in {"destroy", "clear", "secure_clear"} THEN "ok" ELSE "null_pointer",
             val  |-> <<>>]

\* append_cstr: the bytes up to the first NUL, if it comes soon enough.
AppendCstr(x, s) ==
  LET q    == S!Text(s)
      line == S!UpToNul(q)
      n    == Len(contents[x])
  IN  /\ x \in alive
      /\ IF s.of = Null THEN S!Refuses({"null_pointer"})
         ELSE IF S!Nuls(q) = {} THEN S!Refuses({"not_null_terminated"})
         ELSE S!Becomes(x, contents[x] \o line, S!Grow(n, n + Len(line)))

\* A handle that cannot be allocated: nothing has happened.
NoMemory(c) == c[1] \in Creating /\ c[2] \notin alive /\ S!Refuses({"out_of_memory"})

Next ==
  LET c == call'
  IN  \/ NoHandle(c) \/ NoMemory(c) \/ Report(c)
      \/ c[2] \in Bufs /\ (B!Create(c) \/ B!Use(c) \/ (c[1] = "destroy" /\ B!Lifetime(c)))
      \/ /\ c[2] \in Strs
         /\ \/ S!Create(c) \/ S!Use(c) \/ (c[1] \in {"construct", "destroy"} /\ S!Lifetime(c))
            \/ c[1] = "from_cstr" /\ S!FromCstr(c[2], c[3])
            \/ c[1] = "append_cstr" /\ AppendCstr(c[2], c[3])

Spec == S!Init /\ [][Next]_<<contents, alive, call, ret>>
=============================================================================
