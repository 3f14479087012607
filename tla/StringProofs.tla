---------------------------- MODULE StringProofs ----------------------------
(***************************************************************************)
(* Proofs about every string program, for every number of objects, heap    *)
(* blocks, byte values and every setting of the limits.                    *)
(*                                                                         *)
(* First, that it keeps its strings sound and NUL terminated, provided     *)
(* that callers do not make three of the four kinds of calls named in      *)
(* OeString (Careful).  Then, that it implements AbstractString: each call *)
(* makes of the string exactly the bytes asked for, also from a view of    *)
(* the string being changed, or is refused with a code its arguments       *)
(* justify and changes nothing.  That needs callers who make none of the   *)
(* four (Cautious).                                                        *)
(***************************************************************************)
EXTENDS OeString, ContainerProofs, WellFoundedInduction

USE DEF Size, Nullopt

\* The callers avoid the calls after which a string is no longer sound.
Careful == {"bare_replace", "view_at_capacity", "shifted_terminator"} \subseteq Excluded

\* There is a NUL after the last byte.
Ended(h, b) == b.data # Null => Load(h, b.data, b.size) = 0

\* The inductive invariant: that of every container, and the terminators.
StrInv(K) == Inv(K) /\ \A x \in Obj \cap K : Ended(heap, obj[x])

\* A source inside a container of the other kind ends with its contents: only
\* a string has one more readable byte.
Within(K, s) == s.of \in Obj \ K => s.off + s.len <= obj[s.of].size

\* An operation on b ended with outcome o and left a terminated string.
Done(h, b, o) == Local(h, b, o) /\ Ended(o.heap, o.buf)

-----------------------------------------------------------------------------
(***************************************************************************)
(* The private helpers of string.                                          *)
(***************************************************************************)

\* Writing the terminator after the last byte: it has its own place in the
\* block and disturbs no byte of the string.
LEMMA TerminateDone ==
  ASSUME NEW h, GoodHeap(h), NEW b, Sound(h, b), NEW g, Local(h, b, g), g.buf.data # Null
  PROVE  /\ Done(h, b, Terminated(g))
         /\ Terminated(g) = Ok(Terminated(g).heap, g.buf)
         /\ Terminated(g).code = "ok" /\ Terminated(g).buf = g.buf
         /\ \A a \in Nat : a # g.buf.size =>
              Load(Terminated(g).heap, g.buf.data, a) = Load(g.heap, g.buf.data, a)
<1>1. PICK p, m : p = g.buf.data /\ m = g.buf.size
  OBVIOUS
<1>2. GoodHeap(g.heap) /\ Sound(g.heap, g.buf) /\ g.bad = FALSE /\ g.buf \in Header
  BY DEF Local, Sound, SoundAs
<1>3. p \in Block \ {Caller} /\ m \in Nat /\ m <= g.buf.cap /\ g.buf.cap \in Nat
      /\ g.heap[p].len = g.buf.cap + 1
  BY <1>1, <1>2, SoundBounds, StringAssumption DEF Sound, SoundAs
<1>4. Inside(g.heap, p, m, 1) /\ 0 \in Byte
  BY <1>1, <1>3, MemoryAssumption DEF Inside
<1> DEFINE t == memset(g.heap, p, m, 0, 1)
<1>5. /\ SameBut(g.heap, t, p)
      /\ \A a \in Nat : a \in m .. m + 1 - 1 => Load(t, p, a) = 0
      /\ \A a \in Nat : a \notin m .. m + 1 - 1 => Load(t, p, a) = Load(g.heap, p, a)
  <2>1. PICK n \in Nat : n = 1
    OBVIOUS
  <2>2. /\ SameBut(g.heap, memset(g.heap, p, m, 0, n), p)
        /\ \A a \in Nat : a \in m .. m + n - 1 => Load(memset(g.heap, p, m, 0, n), p, a) = 0
        /\ \A a \in Nat : a \notin m .. m + n - 1 =>
             Load(memset(g.heap, p, m, 0, n), p, a) = Load(g.heap, p, a)
    BY <1>2, <1>3, <1>4, <2>1, MemsetCells
  <2> QED BY <2>1, <2>2
<1> HIDE DEF t
<1>6. Load(t, p, m) = 0 /\ \A a \in Nat : a # m => Load(t, p, a) = Load(g.heap, p, a)
  BY <1>3, <1>5
<1>7. \A a \in Nat : a < m => Load(t, p, a) # Undef
  BY <1>1, <1>2, <1>3, <1>6, SoundCells
<1>8. Local(g.heap, g.buf, Outcome("ok", t, [data |-> g.buf.data, size |-> m, cap |-> g.buf.cap], FALSE))
  BY <1>1, <1>2, <1>3, <1>5, <1>7, WriteLocal
<1>9. g.buf = [data |-> g.buf.data, size |-> m, cap |-> g.buf.cap]
  BY <1>1, <1>2 DEF Header
<1>10. Terminated(g) = Outcome("ok", t, g.buf, FALSE)
  BY <1>1, <1>2, <1>4 DEF Terminated, t
<1>13. Terminated(g) = Ok(t, g.buf)
  BY <1>10 DEF Ok
<1>11. Local(h, b, Terminated(g))
  BY <1>8, <1>9, <1>10, LocalTransitive
<1>12. Terminated(g).heap = t /\ Terminated(g).buf = g.buf /\ Terminated(g).code = "ok"
  BY <1>10 DEF Outcome
<1> QED BY <1>1, <1>6, <1>11, <1>12, <1>13 DEF Done, Ended

\* Making room for n bytes: the string is as before, with the room, or the
\* call is refused and nothing changed.
Grown(h, b, n, o) ==
  /\ Done(h, b, o)
  /\ o.code = "ok" =>
       /\ o = Ok(o.heap, o.buf)
       /\ o.buf.cap >= n /\ o.buf.cap >= b.cap /\ o.buf.size = b.size
       /\ n <= b.cap => o.heap = h /\ o.buf = b
       /\ \A a \in Nat : a < b.size => Load(o.heap, o.buf.data, a) = Load(h, b.data, a)
  /\ o.code # "ok" => o.heap = h /\ o.buf = b

\* Leaving everything as it is makes room where there is enough already.
LEMMA SameGrown ==
  ASSUME NEW h, GoodHeap(h), NEW b, Sound(h, b), Ended(h, b), NEW n \in Size, NEW code,
         code = "ok" => n <= b.cap
  PROVE  Grown(h, b, n, Outcome(code, h, b, FALSE))
<1> DEFINE o == Outcome(code, h, b, FALSE)
<1>1. Local(h, b, o)
  BY SameLocal
<1>2. o.heap = h /\ o.buf = b /\ o.code = code
  BY DEF Outcome
<1>5. code = "ok" => o = Ok(h, b)
  BY DEF Ok
<1>3. b.cap \in Nat /\ n \in Nat
  BY SoundBounds, SizeAssumption
<1> HIDE DEF o
<1>4. Grown(h, b, n, o)
  BY <1>1, <1>2, <1>3, <1>5 DEF Grown, Done
<1> QED BY <1>4 DEF o

\* reserve_exact makes room or changes nothing.
LEMMA ReserveGrown ==
  ASSUME NEW h, GoodHeap(h), NEW b, Sound(h, b), Ended(h, b), NEW n \in Size,
         NEW o \in reserve_exact(h, b, n)
  PROVE  Grown(h, b, n, o)
<1>0. b.cap \in Nat /\ n \in Nat /\ MAX_ALLOC_BYTES \in Nat /\ 1 \in Size
  BY SoundBounds, SizeAssumption
<1>1. checked_add(n, 1) = IF n + 1 \in Size THEN n + 1 ELSE Nullopt
  BY <1>0, CheckedAddExact
<1>2. CASE n <= b.cap
  BY <1>2, SameGrown DEF reserve_exact
<1>3. ASSUME NEW code, code # "ok", o = Outcome(code, h, b, FALSE) PROVE Grown(h, b, n, o)
  BY <1>3, SameGrown
<1>4. ASSUME NEW p \in Room(h, b.data), ~(n <= b.cap), NEW len, len = n + 1, len <= MAX_ALLOC_BYTES,
             o = Terminated(Outcome("ok", realloc(h, b.data, p, len),
                                    [data |-> p, size |-> b.size, cap |-> n], FALSE))
      PROVE  Grown(h, b, n, o)
  <2> DEFINE g == Outcome("ok", realloc(h, b.data, p, len), [data |-> p, size |-> b.size, cap |-> n], FALSE)
  <2>1. b.cap < n /\ len = n + Slack
    BY <1>0, <1>4, StringAssumption
  <2>2. Local(h, b, g)
    BY <1>0, <1>4, <2>1, ReallocLocal
  <2>3. g.heap = realloc(h, b.data, p, len) /\ g.buf = [data |-> p, size |-> b.size, cap |-> n]
    BY DEF Outcome
  <2>4. p \in Block /\ p # Null
    BY MemoryAssumption DEF Room
  <2>5. o = Terminated(g)
    BY <1>4
  <2> HIDE DEF g
  <2>6. /\ Done(h, b, o) /\ o.code = "ok" /\ o.buf = g.buf /\ o = Ok(o.heap, g.buf)
        /\ \A a \in Nat : a # g.buf.size => Load(o.heap, g.buf.data, a) = Load(g.heap, g.buf.data, a)
    BY <2>2, <2>3, <2>4, <2>5, TerminateDone
  <2>7. \A a \in Nat : a < len => Load(realloc(h, b.data, p, len), p, a) = Load(h, b.data, a)
    <3>1. b.data \in Block \cup {Null} /\ h \in [Block -> Chunk] /\ len \in 0 .. MAX_ALLOC_BYTES
      BY <1>0, <1>4, SoundBounds DEF GoodHeap
    <3> QED BY <2>4, <3>1, ReallocCells
  <2>8. b.size \in Nat /\ b.size <= b.cap
    BY SoundBounds
  <2>9. \A a \in Nat : a < b.size => Load(o.heap, o.buf.data, a) = Load(h, b.data, a)
    <3> SUFFICES ASSUME NEW a \in Nat, a < b.size PROVE Load(o.heap, p, a) = Load(h, b.data, a)
      BY <2>3, <2>6
    <3>1. a # b.size /\ a < len
      BY <1>0, <1>4, <2>1, <2>8
    <3> QED BY <2>3, <2>6, <2>7, <3>1
  <2> QED BY <1>0, <2>1, <2>3, <2>6, <2>9 DEF Grown
<1>5. CASE ~(n <= b.cap) /\ checked_add(n, 1) = Nullopt
  BY <1>3, <1>5 DEF reserve_exact
<1>6. CASE ~(n <= b.cap) /\ checked_add(n, 1) # Nullopt /\ checked_add(n, 1) > MAX_ALLOC_BYTES
  BY <1>3, <1>6 DEF reserve_exact
<1>7. CASE ~(n <= b.cap) /\ checked_add(n, 1) # Nullopt /\ ~(checked_add(n, 1) > MAX_ALLOC_BYTES)
  <2>1. PICK len : len = checked_add(n, 1)
    OBVIOUS
  <2>2. len = n + 1 /\ len <= MAX_ALLOC_BYTES
    BY <1>0, <1>1, <1>7, <2>1
  <2>3. \/ o = Outcome("out_of_memory", h, b, FALSE)
        \/ \E p \in Room(h, b.data) :
             o = Terminated(Outcome("ok", realloc(h, b.data, p, len),
                                    [data |-> p, size |-> b.size, cap |-> n], FALSE))
    BY <1>7, <2>1 DEF reserve_exact
  <2> QED BY <1>3, <1>4, <1>7, <2>2, <2>3
<1> QED BY <1>2, <1>5, <1>6, <1>7

\* So does grow_to_at_least.
LEMMA GrowGrown ==
  ASSUME NEW h, GoodHeap(h), NEW b, Sound(h, b), Ended(h, b), NEW n \in Size,
         NEW o \in grow_to_at_least(h, b, n)
  PROVE  Grown(h, b, n, o)
<1> DEFINE w == next_capacity(b.cap, n)
           t == IF w < n THEN n ELSE w
<1>1. b.cap \in Size /\ b.cap \in Nat /\ n \in Nat
  BY SoundBounds, SizeAssumption
<1>2. CASE n <= b.cap
  BY <1>2, SameGrown DEF grow_to_at_least
<1>3. CASE ~(n <= b.cap)
  <2>1. w \in Size /\ w >= n
    BY <1>1, NextCapacityBounds
  <2>2. t \in Size /\ t >= n /\ t \in Nat
    BY <2>1, SizeAssumption
  <2>3. o \in reserve_exact(h, b, t)
    BY <1>3 DEF grow_to_at_least
  <2> HIDE DEF t
  <2>4. Grown(h, b, t, o)
    BY <2>2, <2>3, ReserveGrown
  <2>5. o.buf.cap \in Nat
    BY <2>4, SizeAssumption DEF Grown, Done, Local, Sound, SoundAs, Header
  <2>6. o.code = "ok" => o.buf.cap >= n
    BY <1>1, <2>2, <2>4, <2>5 DEF Grown
  <2> QED BY <1>3, <2>4, <2>6 DEF Grown
<1> QED BY <1>2, <1>3

\* Changing the size field of an outcome's object.
LEMMA OutcomeSize ==
  ASSUME NEW t, NEW c \in Header, NEW m
  PROVE  [Ok(t, c) EXCEPT !.buf.size = m] = Ok(t, [data |-> c.data, size |-> m, cap |-> c.cap])
<1>1. PICK f : f = FALSE
  OBVIOUS
<1>2. [Outcome("ok", t, c, f) EXCEPT !.buf.size = m]
        = Outcome("ok", t, [data |-> c.data, size |-> m, cap |-> c.cap], f)
  BY SizeField DEF Outcome
<1> QED BY <1>1, <1>2 DEF Ok

\* The heap t is H, but for the n cells from offset to of block D, which are
\* what the n cells from offset off of block q were.
Copied(H, t, D, to, q, off, n) ==
  /\ SameBut(H, t, D)
  /\ \A a \in Nat : a \in to .. to + n - 1 => Load(t, D, a) = Load(H, q, off + (a - to))
  /\ \A a \in Nat : a \notin to .. to + n - 1 => Load(t, D, a) = Load(H, D, a)

\* memmove into the string that an operation leaves.
LEMMA MovedCells ==
  ASSUME NEW H, GoodHeap(H), NEW c, NEW D \in Block \ {Caller}, D = c.data,
         NEW to \in Nat, NEW n \in Nat, NEW q, NEW off \in Nat,
         n # 0 => q \in Block /\ Inside(H, q, off, n) /\ Inside(H, D, to, n)
  PROVE  \E t : Moved(Ok(H, c), to, q, off, n) = Ok(t, c) /\ Copied(H, t, D, to, q, off, n)
<1>1. CASE n = 0
  <2>1. Moved(Ok(H, c), to, q, off, n) = Ok(H, c)
    BY <1>1 DEF Moved
  <2>2. \A a \in Nat : a \notin to .. to + n - 1
    BY <1>1
  <2> QED BY <2>1, <2>2 DEF Copied, SameBut
<1>2. CASE n # 0
  <2> DEFINE t == memmove(H, D, to, q, off, n)
  <2>1. Moved(Ok(H, c), to, q, off, n) = Ok(t, c)
    BY <1>2 DEF Moved, Outcome, Ok
  <2>2. /\ SameBut(H, t, D)
        /\ \A a \in Nat : a \in to .. to + n - 1 => Load(t, D, a) = Load(H, q, off + (a - to))
        /\ \A a \in Nat : a \notin to .. to + n - 1 => Load(t, D, a) = Load(H, D, a)
    BY <1>2, MemmoveCells
  <2> HIDE DEF t
  <2> QED BY <2>1, <2>2 DEF Copied
<1> QED BY <1>1, <1>2

\* Setting the size and the terminator of a string whose cells below the
\* new size have been written.
LEMMA SizedDone ==
  ASSUME NEW h, GoodHeap(h), NEW b, Sound(h, b), NEW g, Local(h, b, g), g.buf.data # Null,
         NEW t, SameBut(g.heap, t, g.buf.data),
         NEW m \in Nat, m <= g.buf.cap, \A a \in Nat : a < m => Load(t, g.buf.data, a) # Undef,
         NEW u, u = Sized(Ok(t, g.buf), m)
  PROVE  /\ Done(h, b, u)
         /\ u.code = "ok" /\ u.buf.size = m /\ u.buf.data = g.buf.data
         /\ \A a \in Nat : a < m => Load(u.heap, g.buf.data, a) = Load(t, g.buf.data, a)
<1>1. GoodHeap(g.heap) /\ Sound(g.heap, g.buf) /\ g.buf \in Header
  BY DEF Local, Sound, SoundAs
<1> DEFINE c == [data |-> g.buf.data, size |-> m, cap |-> g.buf.cap]
           v == Ok(t, c)
<1>2. Local(g.heap, g.buf, v)
  BY <1>1, WriteLocal DEF Ok
<1>3. Local(h, b, v)
  BY <1>2, LocalTransitive
<1>4. [Ok(t, g.buf) EXCEPT !.buf.size = m] = v
  BY <1>1, OutcomeSize
<1>5. u = Terminated(v)
  BY <1>4 DEF Sized
<1>6. v.buf = c /\ v.heap = t /\ c.data = g.buf.data /\ c.size = m
  BY DEF Outcome, Ok
<1> HIDE DEF v, c
<1>7. /\ Done(h, b, u) /\ u.code = "ok" /\ u.buf = c
      /\ \A a \in Nat : a # m => Load(u.heap, g.buf.data, a) = Load(t, g.buf.data, a)
  BY <1>3, <1>5, <1>6, TerminateDone
<1>8. \A a \in Nat : a < m => a # m
  OBVIOUS
<1> QED BY <1>6, <1>7, <1>8

\* The bytes of a source, and where they are after b has grown: a source
\* inside b moves along with b, any other stays where it is.
LEMMA SourceKept ==
  ASSUME NEW h, GoodHeap(h), NEW b, Sound(h, b), Ended(h, b), NEW n \in Size, NEW g, Grown(h, b, n, g),
         g.code = "ok", NEW p, NEW off, NEW len, Written(h, p, off, len),
         p = b.data => off + len <= b.size + 1,
         NEW q, q = (IF p = b.data THEN g.buf.data ELSE p)
  PROVE  /\ Written(g.heap, q, off, len) /\ Inside(g.heap, q, off, len)
         /\ \A a \in Nat : off <= a /\ a < off + len => Load(g.heap, q, a) = Load(h, p, a)
         /\ \A a \in Nat : off <= a /\ a < off + len => Load(g.heap, q, a) # Undef
         /\ p # b.data => p # g.buf.data
<1>1. /\ Local(h, b, g) /\ Ended(g.heap, g.buf) /\ GoodHeap(g.heap) /\ Sound(g.heap, g.buf)
      /\ g.buf.size = b.size /\ g.buf.cap \in Nat /\ g.buf.cap >= b.cap
      /\ \A a \in Nat : a < b.size => Load(g.heap, g.buf.data, a) = Load(h, b.data, a)
  BY SoundBounds DEF Grown, Done, Local
<1>2. p \in Block /\ off \in Nat /\ len \in Nat \ {0} /\ off + len <= h[p].len /\ p # Null
      /\ h[p].len \in Nat
      /\ \A a \in Addr : off <= a /\ a < off + len => h[p].cell[a] # Undef
  BY SizeAssumption, MemoryAssumption DEF Written, GoodHeap, Chunk
<1>3. CASE p = b.data
  <2>1. b.data # Null /\ b.cap > 0 /\ b.size \in Nat /\ b.cap \in Nat /\ b.size <= b.cap
    BY <1>2, <1>3, SoundBounds
  <2>2. g.buf.data # Null /\ g.buf.data \in Block /\ g.heap[g.buf.data].len = g.buf.cap + 1
    BY <1>1, <2>1, StringAssumption DEF Sound, SoundAs
  <2>3. Load(g.heap, g.buf.data, b.size) = 0 /\ Load(h, b.data, b.size) = 0
    BY <1>1, <2>1, <2>2 DEF Ended
  <2>4. \A a \in Nat : off <= a /\ a < off + len => a < b.size \/ a = b.size
    BY <1>2, <1>3, <2>1
  <2>5. \A a \in Nat : off <= a /\ a < off + len => Load(g.heap, g.buf.data, a) = Load(h, b.data, a)
    BY <1>1, <2>3, <2>4
  <2>6. \A a \in Nat : off <= a /\ a < off + len => Load(g.heap, g.buf.data, a) # Undef
    BY <1>1, <2>3, <2>4, SoundCells, MemoryAssumption
  <2>7. off + len <= g.buf.cap + 1
    BY <1>1, <1>2, <1>3, <2>1
  <2>8. ASSUME NEW a \in Addr, off <= a, a < off + len PROVE g.heap[g.buf.data].cell[a] # Undef
    <3>1. a \in Nat /\ a < g.buf.cap + 1
      BY <1>1, <1>2, <2>7, <2>8, SizeAssumption DEF Addr
    <3>2. Load(g.heap, g.buf.data, a) # Undef
      BY <2>6, <2>8, <3>1
    <3> QED BY <2>2, <3>1, <3>2 DEF Load
  <2> QED BY <1>2, <1>3, <2>2, <2>5, <2>6, <2>7, <2>8 DEF Written, Inside
<1>4. CASE p # b.data
  <2>1. Live(h, p)
    BY <1>2 DEF Live
  <2>2. g.heap[p] = h[p] /\ p # g.buf.data
    BY <1>1, <1>2, <1>4, <2>1 DEF Local
  <2>3. q = p
    BY <1>4
  <2>4. \A a \in Nat : Load(g.heap, q, a) = Load(h, p, a)
    BY <2>2, <2>3 DEF Load
  <2>5. ASSUME NEW a \in Nat, off <= a, a < off + len PROVE Load(h, p, a) # Undef
    <3>1. a < h[p].len /\ a \in Addr
      <4>1. h[p].len \in 0 .. MAX_ALLOC_BYTES
        BY <1>2 DEF GoodHeap, Chunk
      <4> QED BY <1>2, <2>5, <4>1, SizeAssumption DEF Addr
    <3> QED BY <1>2, <2>5, <3>1 DEF Load
  <2>6. Written(g.heap, q, off, len) /\ Inside(g.heap, q, off, len)
    BY <1>2, <2>2, <2>3 DEF Written, Inside
  <2> QED BY <2>2, <2>4, <2>5, <2>6
<1> QED BY <1>3, <1>4

\* Filling the room made: n bytes go to offset to of the string, which ends
\* after them.
LEMMA FillDone ==
  ASSUME NEW h, GoodHeap(h), NEW b, Sound(h, b), NEW to \in Nat, to <= b.size, NEW n \in Nat \ {0},
         NEW m \in Size, m = to + n, NEW g, Grown(h, b, m, g), g.code = "ok",
         NEW q \in Block, NEW off \in Nat, Inside(g.heap, q, off, n),
         \A a \in Nat : off <= a /\ a < off + n => Load(g.heap, q, a) # Undef
  PROVE  LET u == Sized(Moved(g, to, q, off, n), m)
         IN  /\ Done(h, b, u) /\ u.code = "ok" /\ u.buf.size = m
             /\ \A a \in Nat : a < to => Load(u.heap, u.buf.data, a) = Load(h, b.data, a)
             /\ \A i \in Nat : i < n => Load(u.heap, u.buf.data, to + i) = Load(g.heap, q, off + i)
<1>1. PICK D : D = g.buf.data
  OBVIOUS
<1>2. /\ Local(h, b, g) /\ GoodHeap(g.heap) /\ Sound(g.heap, g.buf) /\ g.bad = FALSE
      /\ g.buf.size = b.size /\ g.buf.cap \in Nat /\ g.buf.cap >= m
      /\ \A a \in Nat : a < b.size => Load(g.heap, D, a) = Load(h, b.data, a)
  BY <1>1, SoundBounds DEF Grown, Done, Local
<1>3. D # Null /\ D \in Block \ {Caller} /\ g.heap[D].len = g.buf.cap + 1 /\ m \in Nat /\ b.size \in Nat
  BY <1>1, <1>2, SoundBounds, StringAssumption, SizeAssumption DEF Sound, SoundAs
<1>4. Inside(g.heap, D, to, n) /\ g = Ok(g.heap, g.buf)
  BY <1>2, <1>3 DEF Inside, Grown
<1>6. PICK t : /\ Moved(g, to, q, off, n) = Ok(t, g.buf)
               /\ SameBut(g.heap, t, D)
               /\ \A a \in Nat : a \in to .. to + n - 1 => Load(t, D, a) = Load(g.heap, q, off + (a - to))
               /\ \A a \in Nat : a \notin to .. to + n - 1 => Load(t, D, a) = Load(g.heap, D, a)
  <2>1. \E t : /\ Moved(Ok(g.heap, g.buf), to, q, off, n) = Ok(t, g.buf)
               /\ Copied(g.heap, t, D, to, q, off, n)
    BY <1>1, <1>2, <1>3, <1>4, MovedCells
  <2>2. Moved(Ok(g.heap, g.buf), to, q, off, n) = Moved(g, to, q, off, n)
    BY <1>4
  <2> QED BY <2>1, <2>2 DEF Copied
<1>8. \A a \in Nat : a < to => Load(t, D, a) = Load(h, b.data, a)
  BY <1>2, <1>3, <1>6
<1>9. ASSUME NEW i \in Nat, i < n PROVE Load(t, D, to + i) = Load(g.heap, q, off + i)
  <2>1. PICK a \in Nat : a = to + i
    OBVIOUS
  <2>2. a \in to .. to + n - 1 /\ off + (a - to) = off + i
    BY <1>9, <2>1
  <2>3. Load(t, D, a) = Load(g.heap, q, off + (a - to))
    BY <1>6, <2>2
  <2> QED BY <2>1, <2>2, <2>3
<1>10. ASSUME NEW a \in Nat, a < m PROVE Load(t, D, a) # Undef
  <2>1. CASE a < to
    <3>1. a < b.size
      BY <1>3, <2>1
    <3> QED BY <1>8, <2>1, <3>1, SoundCells
  <2>2. CASE a >= to
    <3>1. PICK i \in Nat : a = to + i /\ i < n
      <4>1. a - to \in Nat /\ a - to < n /\ a = to + (a - to)
        BY <1>10, <2>2
      <4> QED BY <4>1
    <3>2. PICK e \in Nat : e = off + i
      OBVIOUS
    <3>3. Load(g.heap, q, e) # Undef
      BY <3>1, <3>2
    <3> QED BY <1>9, <3>1, <3>2, <3>3
  <2> QED BY <2>1, <2>2
<1> DEFINE u == Sized(Moved(g, to, q, off, n), m)
<1>11. /\ Done(h, b, u) /\ u.code = "ok" /\ u.buf.size = m /\ u.buf.data = D
       /\ \A a \in Nat : a < m => Load(u.heap, D, a) = Load(t, D, a)
  <2>1. g.buf.data # Null /\ SameBut(g.heap, t, g.buf.data) /\ m <= g.buf.cap
        /\ \A a \in Nat : a < m => Load(t, g.buf.data, a) # Undef
    BY <1>1, <1>2, <1>3, <1>6, <1>10
  <2>2. u = Sized(Ok(t, g.buf), m)
    BY <1>6
  <2> HIDE DEF u
  <2> QED BY <1>1, <1>2, <1>3, <2>1, <2>2, SizedDone
<1> HIDE DEF u
<1>13. \A i \in Nat : i < n => Load(u.heap, D, to + i) = Load(t, D, to + i)
  <2> SUFFICES ASSUME NEW i \in Nat, i < n PROVE Load(u.heap, D, to + i) = Load(t, D, to + i)
    OBVIOUS
  <2>1. PICK a \in Nat : a = to + i
    OBVIOUS
  <2>2. a < m
    BY <2>1
  <2> QED BY <1>11, <2>1, <2>2
<1>14. \A a \in Nat : a < to => a < m
  OBVIOUS
<1> QED BY <1>8, <1>9, <1>11, <1>13, <1>14 DEF u

\* What taking n bytes from offset off of p in, at offset to, makes of b.
Filled(h, b, to, p, off, n, u) ==
  /\ Done(h, b, u) /\ u.code = "ok" /\ u.buf.size = to + n
  /\ \A a \in Nat : a < to => Load(u.heap, u.buf.data, a) = Load(h, b.data, a)
  /\ \A i \in Nat : i < n => Load(u.heap, u.buf.data, to + i) = Load(h, p, off + i)

\* A source that is where SourceKept says it is fills the room made for it.
LEMMA TakeIn ==
  ASSUME NEW h, GoodHeap(h), NEW b, Sound(h, b), Ended(h, b), NEW to \in Nat, to <= b.size, NEW n \in Nat \ {0},
         NEW m \in Size, m = to + n, NEW g, Grown(h, b, m, g), g.code = "ok",
         NEW p, NEW off, Written(h, p, off, n), p = b.data => off + n <= b.size + 1,
         NEW q, q = (IF p = b.data THEN g.buf.data ELSE p)
  PROVE  Filled(h, b, to, p, off, n, Sized(Moved(g, to, q, off, n), m))
<1>1. /\ Written(g.heap, q, off, n) /\ Inside(g.heap, q, off, n)
      /\ \A a \in Nat : off <= a /\ a < off + n => Load(g.heap, q, a) = Load(h, p, a)
      /\ \A a \in Nat : off <= a /\ a < off + n => Load(g.heap, q, a) # Undef
  BY SourceKept
<1>2. q \in Block /\ off \in Nat
  BY <1>1 DEF Written
<1>3. PICK u : u = Sized(Moved(g, to, q, off, n), m)
  OBVIOUS
<1>4. /\ Done(h, b, u) /\ u.code = "ok" /\ u.buf.size = m
      /\ \A a \in Nat : a < to => Load(u.heap, u.buf.data, a) = Load(h, b.data, a)
      /\ \A i \in Nat : i < n => Load(u.heap, u.buf.data, to + i) = Load(g.heap, q, off + i)
  BY <1>1, <1>2, <1>3, FillDone
<1>5. ASSUME NEW i \in Nat, i < n PROVE Load(g.heap, q, off + i) = Load(h, p, off + i)
  <2>1. PICK a \in Nat : a = off + i
    BY <1>2
  <2>2. off <= a /\ a < off + n
    BY <1>2, <1>5, <2>1
  <2> QED BY <1>1, <2>1, <2>2
<1> QED BY <1>3, <1>4, <1>5 DEF Filled

\* A copy of the n bytes from offset off of p to offset to of b, making m of
\* them: the source is there, and growth leaves it where the copy looks for it.
CopyReady(h, b, to, p, off, n, m) ==
  /\ GoodHeap(h) /\ Sound(h, b) /\ Ended(h, b)
  /\ to \in Nat /\ to <= b.size /\ off \in Nat /\ n \in Size \ {0} /\ m \in Size /\ m = to + n
  /\ p # Null
  /\ m < MAX_ALLOC_BYTES => Written(h, p, off, n)
  /\ p = b.data => off + n <= b.size + 1 /\ (off < b.cap \/ m <= b.cap)

\* copy_in_possibly_aliased, followed by the new size and terminator.
LEMMA CopyInDone ==
  ASSUME NEW h, NEW b, NEW to, NEW p, NEW off, NEW n, NEW m, CopyReady(h, b, to, p, off, n, m),
         NEW o \in copy_in_possibly_aliased(h, b, to, p, off, n, m)
  PROVE  /\ o.code = "ok" => Filled(h, b, to, p, off, n, Sized(o, m))
         /\ o.code # "ok" => Done(h, b, o) /\ o.heap = h /\ o.buf = b
         /\ \E g \in grow_to_at_least(h, b, m) : g.code = o.code
<1> USE DEF CopyReady
<1> DEFINE src(g) == IF pointer_in_range(p, off, b.data, b.cap) THEN g.buf.data ELSE p
<1>1. PICK g \in grow_to_at_least(h, b, m) : o = IF g.code = "ok" THEN Moved(g, to, src(g), off, n) ELSE g
  BY DEF copy_in_possibly_aliased
<1>2. Grown(h, b, m, g)
  BY <1>1, GrowGrown
<1>3. CASE g.code # "ok"
  BY <1>1, <1>2, <1>3 DEF Grown
<1>4. CASE g.code = "ok"
  <2>1. m <= g.buf.cap /\ g.buf.cap + 1 <= MAX_ALLOC_BYTES /\ g.buf.cap \in Nat /\ m \in Nat /\ b.cap \in Nat
    <3>1. GoodHeap(g.heap) /\ Sound(g.heap, g.buf) /\ g.buf.cap >= m
      BY <1>2, <1>4 DEF Grown, Done, Local
    <3>2. n \in Nat /\ m > 0
      BY SizeAssumption
    <3> QED BY <3>1, <3>2, SoundBounds, StringAssumption
  <2>2. Written(h, p, off, n) /\ n \in Nat \ {0}
    BY <2>1, SizeAssumption
  <2>3. src(g) = IF p = b.data THEN g.buf.data ELSE p
    <3>1. CASE p # b.data
      BY <3>1 DEF pointer_in_range
    <3>2. CASE p = b.data /\ off < b.cap
      BY <3>2 DEF pointer_in_range
    <3>3. CASE p = b.data /\ m <= b.cap
      BY <1>2, <1>4, <3>3 DEF Grown
    <3> QED BY <3>1, <3>2, <3>3
  <2>4. PICK q : q = src(g)
    OBVIOUS
  <2>5. Filled(h, b, to, p, off, n, Sized(Moved(g, to, q, off, n), m))
    BY <1>2, <1>4, <2>2, <2>3, <2>4, TakeIn
  <2>6. o = Moved(g, to, q, off, n) /\ o.code = "ok"
    <3>1. o = Moved(g, to, q, off, n)
      BY <1>1, <1>4, <2>4
    <3> QED BY <1>4, <3>1, SizeAssumption DEF Moved, Outcome
  <2> QED BY <1>4, <2>5, <2>6
<1> QED BY <1>3, <1>4

\* with_capacity gives an empty string with room, or none at all.
LEMMA WithCapacityGrown ==
  ASSUME NEW h, GoodHeap(h), NEW n \in Size, NEW o \in with_capacity(h, n)
  PROVE  Grown(h, Empty, n, o)
<1>1. Sound(h, Empty) /\ Ended(h, Empty) /\ Empty.cap = 0
  BY EmptySound DEF Ended, Empty
<1>2. CASE n = 0
  <2>1. o = Outcome("ok", h, Empty, FALSE)
    BY <1>2 DEF with_capacity
  <2>2. n <= Empty.cap
    BY <1>1, <1>2
  <2> QED BY <1>1, <2>1, <2>2, SameGrown
<1>3. CASE n # 0
  BY <1>1, <1>3, ReserveGrown DEF with_capacity
<1> QED BY <1>2, <1>3

\* from_bytes: a string with the bytes of the source, or none at all.
LEMMA FromBytesDone ==
  ASSUME NEW h, GoodHeap(h), NEW q \in Block \cup {Null}, NEW off \in Nat, NEW n \in Size,
         n # 0 /\ q # Null /\ n < MAX_ALLOC_BYTES => Written(h, q, off, n),
         NEW o \in from_bytes(h, q, off, n)
  PROVE  /\ Done(h, Empty, o)
         /\ o.code # "ok" => o.buf = Empty /\ o.heap = h
         /\ o.code = "ok" /\ n # 0 => Filled(h, Empty, 0, q, off, n, o)
         /\ o.code = "ok" => o.buf.size = n
<1>0. Sound(h, Empty) /\ Ended(h, Empty) /\ Empty.data = Null /\ Empty.size = 0 /\ Empty.cap = 0
  BY EmptySound DEF Empty, Ended
<1>1. ASSUME NEW code, o = Outcome(code, h, Empty, FALSE), code # "ok" \/ n = 0
      PROVE  /\ Done(h, Empty, o)
             /\ o.code # "ok" => o.buf = Empty /\ o.heap = h
             /\ o.code = "ok" => n = 0 /\ o.buf.size = n
  <2>1. o.code = code /\ o.buf = Empty /\ o.heap = h
    BY <1>1 DEF Outcome
  <2>2. Local(h, Empty, o)
    BY <1>0, <1>1, SameLocal
  <2> QED BY <1>0, <1>1, <2>1, <2>2 DEF Done
<1>2. CASE n = 0
  BY <1>1, <1>2 DEF from_bytes
<1>3. CASE n # 0 /\ q = Null
  BY <1>1, <1>3 DEF from_bytes
<1>4. CASE n # 0 /\ q # Null
  <2>1. PICK g \in with_capacity(h, n) : o = IF g.code = "ok" THEN Sized(Moved(g, 0, q, off, n), n) ELSE g
    BY <1>4 DEF from_bytes
  <2>2. Grown(h, Empty, n, g)
    BY <2>1, WithCapacityGrown
  <2>3. CASE g.code # "ok"
    BY <2>1, <2>2, <2>3 DEF Grown
  <2>4. CASE g.code = "ok"
    <3>1. n < MAX_ALLOC_BYTES /\ n \in Nat \ {0}
      <4>1. GoodHeap(g.heap) /\ Sound(g.heap, g.buf) /\ g.buf.cap >= n
        BY <2>2, <2>4 DEF Grown, Done, Local
      <4>2. n \in Nat /\ n > 0
        BY <1>4, SizeAssumption
      <4>3. g.buf.cap + 1 <= MAX_ALLOC_BYTES /\ g.buf.cap \in Nat
        BY <4>1, <4>2, SoundBounds, StringAssumption
      <4> QED BY <4>1, <4>2, <4>3, SizeAssumption
    <3>2. Written(h, q, off, n)
      BY <1>4, <3>1
    <3>3. 0 <= Empty.size /\ n = 0 + n /\ q # Empty.data
      BY <1>0, <1>4, <3>1
    <3>4. Filled(h, Empty, 0, q, off, n, Sized(Moved(g, 0, q, off, n), n))
      BY <1>0, <2>2, <2>4, <3>1, <3>2, <3>3, TakeIn
    <3> QED BY <1>4, <2>1, <2>4, <3>1, <3>4 DEF Filled
  <2> QED BY <2>3, <2>4
<1> QED BY <1>2, <1>3, <1>4

\* The cells of block p from offset lo up to hi have been written.
Set(h, p, lo, hi) == \A a \in Nat : lo <= a /\ a < hi => Load(h, p, a) # Undef

\* The cells of block D after insert or replace has moved the tail (k bytes)
\* from offset tail to offset to, and n bytes from offset eff of q to offset
\* pos: the heap was H and is t.
Laid(H, c, D, pos, tail, n, m, to, k, q, eff, t) ==
  /\ Moved(Moved(Ok(H, c), to, D, tail, k), pos, q, eff, n) = Ok(t, c)
  /\ SameBut(H, t, D)
  /\ \A a \in Nat : a < pos => Load(t, D, a) = Load(H, D, a)
  /\ \A a \in Nat : to <= a /\ a < m => Load(t, D, a) = Load(H, D, tail + (a - to))
  /\ \A a \in Nat : pos <= a /\ a < to => Load(t, D, a) # Undef
  /\ q # D => \A a, e \in Nat : pos <= a /\ a < to /\ e = eff + (a - pos) =>
       Load(t, D, a) = Load(H, q, e)
  /\ q = D => \A a, e \in Nat : pos <= a /\ a < to /\ e = eff + (a - pos) =>
       /\ ~(to <= e /\ e < m) => Load(t, D, a) = Load(H, D, e)
       /\ to <= e /\ e < m => Load(t, D, a) = Load(H, D, tail + (e - to))

\* Moving the tail and then the source into the gap lays the cells out so,
\* whether the source is in another block or in this one.
LEMMA SpliceCells ==
  ASSUME NEW H, GoodHeap(H), NEW c, NEW D \in Block \ {Caller}, D = c.data,
         NEW s \in Nat, NEW pos \in Nat, NEW tail \in Nat, pos <= tail, tail <= s, s < H[D].len,
         NEW n \in Nat, NEW m \in Nat, m < H[D].len,
         NEW to \in Nat, to = pos + n, NEW k \in Nat, tail + k = s, to + k = m,
         NEW q, NEW eff \in Nat, n # 0 => q \in Block /\ Inside(H, q, eff, n),
         Set(H, D, 0, s + 1), q # D => Set(H, q, eff, eff + n),
         n # 0 /\ q = D => eff + n <= s + 1 \/ (to <= eff /\ eff + n <= m)
  PROVE  \E t : Laid(H, c, D, pos, tail, n, m, to, k, q, eff, t)
<1>1. D # Null /\ H[D].len \in Nat
  BY MemoryAssumption, SizeAssumption DEF GoodHeap, Chunk
<1>2. Inside(H, D, to, k) /\ Inside(H, D, tail, k) /\ Inside(H, D, pos, n)
  BY <1>1 DEF Inside
<1>20. PICK g : Moved(Ok(H, c), to, D, tail, k) = Ok(g, c) /\ Copied(H, g, D, to, D, tail, k)
  BY <1>2, MovedCells
<1>3. /\ Moved(Ok(H, c), to, D, tail, k) = Ok(g, c) /\ SameBut(H, g, D)
      /\ \A a \in Nat : a \in to .. to + k - 1 => Load(g, D, a) = Load(H, D, tail + (a - to))
      /\ \A a \in Nat : a \notin to .. to + k - 1 => Load(g, D, a) = Load(H, D, a)
  BY <1>20 DEF Copied
<1>4. /\ GoodHeap(g) /\ Inside(g, D, pos, n)
      /\ n # 0 => q \in Block /\ Inside(g, q, eff, n)
      /\ q # D => (n # 0 => g[q] = H[q])
  BY <1>2, <1>3 DEF SameBut, Inside
<1>21. PICK t : Moved(Ok(g, c), pos, q, eff, n) = Ok(t, c) /\ Copied(g, t, D, pos, q, eff, n)
  BY <1>4, MovedCells
<1>5. /\ Moved(Ok(g, c), pos, q, eff, n) = Ok(t, c) /\ SameBut(g, t, D)
      /\ \A a \in Nat : a \in pos .. pos + n - 1 => Load(t, D, a) = Load(g, q, eff + (a - pos))
      /\ \A a \in Nat : a \notin pos .. pos + n - 1 => Load(t, D, a) = Load(g, D, a)
  BY <1>21 DEF Copied
<1>6. Moved(Moved(Ok(H, c), to, D, tail, k), pos, q, eff, n) = Ok(t, c)
  BY <1>3, <1>5
<1>7. SameBut(H, t, D)
  BY <1>3, <1>5 DEF SameBut
<1>8. ASSUME NEW a \in Nat, a < pos PROVE Load(t, D, a) = Load(H, D, a)
  <2>1. a \notin pos .. pos + n - 1 /\ a \notin to .. to + k - 1
    BY <1>8
  <2> QED BY <1>3, <1>5, <2>1
<1>9. ASSUME NEW a \in Nat, to <= a, a < m PROVE Load(g, D, a) = Load(H, D, tail + (a - to))
  <2>1. a \in to .. to + k - 1
    BY <1>9
  <2> QED BY <1>3, <2>1
<1>10. ASSUME NEW a \in Nat, ~(to <= a /\ a < m) PROVE Load(g, D, a) = Load(H, D, a)
  <2>1. a \notin to .. to + k - 1
    BY <1>10
  <2> QED BY <1>3, <2>1
<1>11. ASSUME NEW a \in Nat, to <= a, a < m PROVE Load(t, D, a) = Load(H, D, tail + (a - to))
  <2>1. a \notin pos .. pos + n - 1
    BY <1>11
  <2> QED BY <1>5, <1>9, <1>11, <2>1
<1>12. ASSUME NEW a \in Nat, pos <= a, a < pos + n
       PROVE  \E e \in Nat : /\ e = eff + (a - pos) /\ eff <= e /\ e < eff + n
                             /\ Load(t, D, a) = Load(g, q, e)
  <2>1. a \in pos .. pos + n - 1 /\ eff + (a - pos) \in Nat
        /\ eff <= eff + (a - pos) /\ eff + (a - pos) < eff + n
    BY <1>12
  <2> QED BY <1>5, <2>1
<1>13. CASE q # D
  <2>1. ASSUME NEW a \in Nat, pos <= a, a < pos + n
        PROVE  Load(t, D, a) = Load(H, q, eff + (a - pos)) /\ Load(t, D, a) # Undef
    <3>1. PICK e \in Nat : e = eff + (a - pos) /\ eff <= e /\ e < eff + n /\ Load(t, D, a) = Load(g, q, e)
      BY <1>12, <2>1
    <3>2. g[q] = H[q]
      BY <1>4, <1>13, <2>1
    <3>3. Load(g, q, e) = Load(H, q, e)
      BY <3>2 DEF Load
    <3> QED BY <1>13, <3>1, <3>3 DEF Set
  <2>2. Laid(H, c, D, pos, tail, n, m, to, k, q, eff, t)
    BY <1>6, <1>7, <1>8, <1>11, <1>13, <2>1 DEF Laid
  <2> QED BY <2>2
<1>14. CASE q = D
  <2>1. ASSUME NEW a \in Nat, pos <= a, a < pos + n
        PROVE  /\ ~(to <= eff + (a - pos) /\ eff + (a - pos) < m) =>
                     Load(t, D, a) = Load(H, D, eff + (a - pos))
               /\ to <= eff + (a - pos) /\ eff + (a - pos) < m =>
                     Load(t, D, a) = Load(H, D, tail + (eff + (a - pos) - to))
               /\ Load(t, D, a) # Undef
    <3>1. PICK e \in Nat : e = eff + (a - pos) /\ eff <= e /\ e < eff + n /\ Load(t, D, a) = Load(g, D, e)
      BY <1>12, <1>14, <2>1
    <3>2. ~(to <= e /\ e < m) => Load(t, D, a) = Load(H, D, e)
      BY <1>10, <3>1
    <3>3. to <= e /\ e < m => Load(t, D, a) = Load(H, D, tail + (e - to))
      BY <1>9, <3>1
    <3>4. Load(t, D, a) # Undef
      <4>1. CASE to <= e /\ e < m
        <5>1. tail + (e - to) \in Nat /\ tail + (e - to) <= s
          BY <4>1
        <5> QED BY <3>3, <4>1, <5>1 DEF Set
      <4>2. CASE ~(to <= e /\ e < m)
        <5>1. e <= s
          BY <1>14, <3>1, <4>2
        <5> QED BY <3>2, <4>2, <5>1 DEF Set
      <4> QED BY <4>1, <4>2
    <3> QED BY <3>1, <3>2, <3>3, <3>4
  <2>2. Laid(H, c, D, pos, tail, n, m, to, k, q, eff, t)
    BY <1>6, <1>7, <1>8, <1>11, <1>14, <2>1 DEF Laid
  <2> QED BY <2>2
<1> QED BY <1>13, <1>14

\* What replacing the bytes of b from pos to tail by n others makes of b,
\* leaving open what these n bytes are.
Spliced(h, b, pos, tail, n, u) ==
  /\ Done(h, b, u) /\ u.code = "ok" /\ u.buf.size + tail = b.size + pos + n
  /\ \A a \in Nat : a < pos => Load(u.heap, u.buf.data, a) = Load(h, b.data, a)
  /\ \A a \in Nat : pos + n <= a /\ a < u.buf.size =>
       Load(u.heap, u.buf.data, a) = Load(h, b.data, tail + (a - (pos + n)))

\* The n bytes from offset off of p begin inside the replaced part of b, which
\* is not as long as they are, and are in the way of the bytes that follow it.
Inner(b, pos, tail, p, off, n) ==
  p = b.data /\ pos < off /\ off < tail /\ tail < b.size /\ n + pos # tail

\* A splice of the n bytes from offset off of p, in the place of those of b
\* from pos to tail: the source is there, and the move of the tail leaves it
\* where splice looks for it.
Clean(h, b, pos, length, tail, p, off, n, m) ==
  /\ GoodHeap(h) /\ Sound(h, b) /\ Ended(h, b)
  /\ pos \in Nat /\ length \in Nat /\ tail \in Nat /\ tail = pos + length /\ tail <= b.size
  /\ p \in Block \cup {Null} /\ off \in Nat /\ n \in Size /\ m \in Size /\ m + length = b.size + n
  /\ n # 0 => p # Null
  /\ n = 0 => b.data # Null
  /\ n # 0 /\ m < MAX_ALLOC_BYTES => Written(h, p, off, n)
  /\ n # 0 /\ p = b.data => /\ off + n <= b.size + 1 /\ off < b.cap
                            /\ off + n <= b.size \/ off < tail \/ n = length

\* insert and replace.
LEMMA SpliceDone ==
  ASSUME NEW h, NEW b, NEW pos, NEW length, NEW tail, NEW p, NEW off, NEW n, NEW m,
         Clean(h, b, pos, length, tail, p, off, n, m), NEW o \in splice(h, b, pos, length, p, off, n, m)
  PROVE  /\ o.code # "ok" => Done(h, b, o) /\ o.heap = h /\ o.buf = b
         /\ o.code = "ok" => Spliced(h, b, pos, tail, n, o)
         /\ o.code = "ok" /\ ~ Inner(b, pos, tail, p, off, n) =>
              \A i \in Nat : i < n => Load(o.heap, o.buf.data, pos + i) = Load(h, p, off + i)
         /\ \E g \in grow_to_at_least(h, b, m) : g.code = o.code
<1> USE DEF Clean
<1> DEFINE aliased == pointer_in_range(p, off, b.data, b.cap)
           eff0 == IF aliased /\ off >= pos + length THEN off + n - length ELSE off
           Shifted(g) == Moved(g, pos + n, g.buf.data, pos + length, b.size - (pos + length))
           Fill(g) == Moved(g, pos, IF aliased THEN g.buf.data ELSE p, eff0, n)
<1>1. PICK g \in grow_to_at_least(h, b, m) : o = IF g.code = "ok" THEN Sized(Fill(Shifted(g)), m) ELSE g
  BY DEF splice
<1>2. Grown(h, b, m, g)
  BY <1>1, GrowGrown
<1>3. CASE g.code # "ok"
  BY <1>1, <1>2, <1>3 DEF Grown
<1>4. CASE g.code = "ok"
  <2>1. PICK D, s, H, c : D = g.buf.data /\ s = b.size /\ H = g.heap /\ c = g.buf
    OBVIOUS
  <2>2. /\ Local(h, b, g) /\ GoodHeap(H) /\ Sound(H, c) /\ Ended(H, c) /\ g = Ok(H, c)
        /\ c.size = s /\ c.cap >= m /\ c.cap >= b.cap
        /\ \A a \in Nat : a < s => Load(H, D, a) = Load(h, b.data, a)
    BY <1>2, <1>4, <2>1 DEF Grown, Done, Local
  <2>3. /\ s \in Nat /\ m \in Nat /\ n \in Nat /\ b.cap \in Nat /\ s <= b.cap /\ c.cap \in Nat
        /\ b.data # Null => b.cap > 0
    BY <2>1, <2>2, SoundBounds, SizeAssumption
  <2>4. c.cap > 0
    <3>1. CASE n = 0
      BY <2>2, <2>3, <3>1
    <3>2. CASE n # 0
      <4>1. m > 0
        BY <2>1, <2>3, <3>2
      <4> QED BY <2>2, <2>3, <4>1
    <3> QED BY <3>1, <3>2
  <2>5. D # Null /\ D \in Block \ {Caller} /\ H[D].len = c.cap + 1 /\ c.cap + 1 <= MAX_ALLOC_BYTES
    <3>1. GoodHeap(H) /\ Sound(H, c) /\ c.data = D
      BY <2>1, <2>2
    <3>2. c.data # Null
      BY <2>4, <3>1, SoundBounds
    <3>3. D \in Block \ {Caller} /\ H[D].len = c.cap + 1
      BY <3>1, <3>2, StringAssumption DEF Sound, SoundAs
    <3>4. c.cap + 1 <= MAX_ALLOC_BYTES
      BY <3>1, <3>2, SoundBounds, StringAssumption
    <3> QED BY <3>1, <3>2, <3>3, <3>4
  <2>6. s < H[D].len /\ m < H[D].len
    <3>1. PICK y \in Nat : y = c.cap /\ H[D].len = y + 1
      BY <2>3, <2>5
    <3>2. s <= y /\ m <= y
      BY <2>2, <2>3, <3>1
    <3> QED BY <2>3, <3>1, <3>2
  <2>7. PICK q : q = IF aliased THEN D ELSE p
    OBVIOUS
  <2>8. PICK eff : eff = eff0
    OBVIOUS
  <2>9. eff \in Nat
    BY <2>3, <2>8
  <2>10. n # 0 => Written(h, p, off, n) /\ p \in Block
    BY <2>2, <2>3, <2>5, SizeAssumption
  <2>11. n # 0 => (aliased <=> p = b.data)
    BY <2>3 DEF pointer_in_range
  <2>12. \A a \in Nat : a <= s => Load(H, D, a) # Undef
    <3>1. Load(H, D, s) = 0
      BY <2>1, <2>2, <2>5 DEF Ended
    <3>2. \A a \in Nat : a < s => Load(H, D, a) # Undef
      BY <2>1, <2>2, SoundCells
    <3> QED BY <2>3, <3>1, <3>2, MemoryAssumption
  <2>13. n # 0 /\ p # b.data =>
           /\ q = p /\ q # D /\ Inside(H, q, eff, n) /\ eff = off
           /\ \A a \in Nat : eff <= a /\ a < eff + n => Load(H, q, a) # Undef /\ Load(H, q, a) = Load(h, p, a)
    <3> SUFFICES ASSUME n # 0, p # b.data
                 PROVE  /\ q = p /\ q # D /\ Inside(H, q, eff, n) /\ eff = off
                        /\ \A a \in Nat : eff <= a /\ a < eff + n =>
                             Load(H, q, a) # Undef /\ Load(H, q, a) = Load(h, p, a)
      OBVIOUS
    <3>1. q = p /\ eff = off
      BY <2>7, <2>8, <2>11
    <3>2. q = IF p = b.data THEN g.buf.data ELSE p
      BY <3>1
    <3>3. /\ Inside(g.heap, q, off, n)
          /\ \A a \in Nat : off <= a /\ a < off + n => Load(g.heap, q, a) = Load(h, p, a)
          /\ \A a \in Nat : off <= a /\ a < off + n => Load(g.heap, q, a) # Undef
          /\ p # g.buf.data
      BY <1>2, <1>4, <2>10, <3>2, SourceKept
    <3> QED BY <2>1, <3>1, <3>3
  <2>14. n # 0 /\ p = b.data =>
           /\ q = D /\ Inside(H, D, eff, n)
           /\ eff + n <= s + 1 \/ (pos + n <= eff /\ eff + n <= m)
    <3> SUFFICES ASSUME n # 0, p = b.data
                 PROVE  /\ q = D /\ Inside(H, D, eff, n)
                        /\ eff + n <= s + 1 \/ (pos + n <= eff /\ eff + n <= m)
      OBVIOUS
    <3>1. q = D /\ aliased
      BY <2>7, <2>11
    <3>2. off + n <= s + 1 /\ (off + n <= s \/ off < tail \/ n = length)
      BY <2>1
    <3>3. eff + n <= s + 1 \/ (pos + n <= eff /\ eff + n <= m)
      <4>1. CASE off >= tail
        <5>1. eff = off + n - length
          BY <2>8, <3>1, <4>1
        <5> QED BY <2>1, <2>3, <3>2, <4>1, <5>1
      <4>2. CASE ~(off >= tail)
        <5>1. eff = off
          BY <2>8, <4>2
        <5> QED BY <3>2, <5>1
      <4> QED BY <4>1, <4>2
    <3>4. eff + n <= H[D].len
      BY <2>3, <2>5, <2>6, <2>9, <3>3
    <3> QED BY <2>5, <3>1, <3>3, <3>4 DEF Inside
  <2>15. PICK to : to = pos + n
    OBVIOUS
  <2>16. PICK k : k = s - tail
    OBVIOUS
  <2>17. /\ to \in Nat /\ k \in Nat /\ tail + k = s /\ to + k = m /\ pos <= tail /\ tail <= s
    BY <2>1, <2>3, <2>15, <2>16
  <2>18. /\ n # 0 => q \in Block /\ Inside(H, q, eff, n)
         /\ q # D => Set(H, q, eff, eff + n)
         /\ Set(H, D, 0, s + 1)
         /\ n # 0 /\ q = D => eff + n <= s + 1 \/ (to <= eff /\ eff + n <= m)
    BY <2>3, <2>5, <2>9, <2>10, <2>12, <2>13, <2>14, <2>15 DEF Set
  <2>25. PICK t : Laid(H, c, D, pos, tail, n, m, to, k, q, eff, t)
    <3>1. D = c.data
      BY <2>1
    <3> HIDE DEF aliased, eff0, Shifted, Fill
    <3> QED BY <2>2, <2>3, <2>5, <2>6, <2>9, <2>15, <2>17, <2>18, <3>1, SpliceCells
  <2>19. /\ Moved(Moved(Ok(H, c), to, D, tail, k), pos, q, eff, n) = Ok(t, c)
         /\ SameBut(H, t, D)
         /\ \A a \in Nat : a < pos => Load(t, D, a) = Load(H, D, a)
         /\ \A a \in Nat : to <= a /\ a < m => Load(t, D, a) = Load(H, D, tail + (a - to))
         /\ \A a \in Nat : pos <= a /\ a < to => Load(t, D, a) # Undef
         /\ q # D => \A a, e \in Nat : pos <= a /\ a < to /\ e = eff + (a - pos) =>
              Load(t, D, a) = Load(H, q, e)
         /\ q = D => \A a, e \in Nat : pos <= a /\ a < to /\ e = eff + (a - pos) =>
              /\ ~(to <= e /\ e < m) => Load(t, D, a) = Load(H, D, e)
              /\ to <= e /\ e < m => Load(t, D, a) = Load(H, D, tail + (e - to))
    BY <2>25 DEF Laid
  <2>20. o = Sized(Ok(t, g.buf), m)
    <3>1. Shifted(g) = Moved(Ok(H, c), to, D, tail, k)
      BY <2>1, <2>2, <2>15, <2>16
    <3>2. Moved(Ok(H, c), to, D, tail, k).buf = c
      BY DEF Moved, Ok, Outcome
    <3>3. Fill(Shifted(g)) = Ok(t, c)
      BY <2>1, <2>7, <2>8, <2>19, <3>1, <3>2
    <3> QED BY <1>1, <1>4, <2>1, <3>3
  <2>21. ASSUME NEW a \in Nat, a < m PROVE Load(t, D, a) # Undef
    <3>1. CASE a < pos
      <4>1. a <= s
        BY <2>17, <3>1
      <4> QED BY <2>12, <2>19, <3>1, <4>1
    <3>2. CASE pos <= a /\ a < to
      BY <2>19, <3>2
    <3>3. CASE to <= a
      <4>1. PICK e : e = tail + (a - to)
        OBVIOUS
      <4>2. e \in Nat /\ e <= s
        BY <2>17, <2>21, <3>3, <4>1
      <4> QED BY <2>12, <2>19, <2>21, <3>3, <4>1, <4>2
    <3> QED BY <2>3, <2>15, <3>1, <3>2, <3>3
  <2>22. /\ Done(h, b, o) /\ o.code = "ok" /\ o.buf.size = m /\ o.buf.data = D
         /\ \A a \in Nat : a < m => Load(o.heap, D, a) = Load(t, D, a)
    <3>1. /\ g.buf.data # Null /\ SameBut(g.heap, t, g.buf.data) /\ m <= g.buf.cap
          /\ \A a \in Nat : a < m => Load(t, g.buf.data, a) # Undef
      BY <2>1, <2>2, <2>3, <2>5, <2>19, <2>21
    <3>2. /\ Done(h, b, o) /\ o.code = "ok" /\ o.buf.size = m /\ o.buf.data = g.buf.data
          /\ \A a \in Nat : a < m => Load(o.heap, g.buf.data, a) = Load(t, g.buf.data, a)
      BY <2>2, <2>3, <2>20, <3>1, SizedDone
    <3> QED BY <2>1, <3>2
  <2>23. Spliced(h, b, pos, tail, n, o)
    <3>1. ASSUME NEW a \in Nat, a < pos PROVE Load(o.heap, D, a) = Load(h, b.data, a)
      <4>1. a < m /\ a < s
        BY <2>3, <2>15, <2>17, <3>1
      <4> QED BY <2>2, <2>19, <2>22, <3>1, <4>1
    <3>2. ASSUME NEW a \in Nat, to <= a, a < m PROVE Load(o.heap, D, a) = Load(h, b.data, tail + (a - to))
      <4>1. PICK e : e = tail + (a - to)
        OBVIOUS
      <4>2. e \in Nat /\ e < s
        BY <2>17, <3>2, <4>1
      <4> QED BY <2>2, <2>19, <2>22, <3>2, <4>1, <4>2
    <3>3. m + tail = b.size + pos + n
      BY <2>1, <2>3
    <3> QED BY <2>15, <2>22, <3>1, <3>2, <3>3 DEF Spliced
  <2>24. ASSUME ~ Inner(b, pos, tail, p, off, n), NEW i \in Nat, i < n
         PROVE  Load(o.heap, D, pos + i) = Load(h, p, off + i)
    <3>1. PICK a : a = pos + i
      OBVIOUS
    <3>2. a \in Nat /\ pos <= a /\ a < to /\ a < m /\ a - pos = i /\ n # 0
      BY <2>3, <2>15, <2>17, <2>24, <3>1
    <3>3. PICK e : e = eff + (a - pos)
      OBVIOUS
    <3>4. e \in Nat /\ eff <= e /\ e < eff + n /\ e = eff + i
      BY <2>3, <2>9, <2>24, <3>2, <3>3
    <3>5. Load(o.heap, D, a) = Load(t, D, a)
      BY <2>22, <3>2
    <3>6. CASE p # b.data
      <4>1. Load(t, D, a) = Load(H, q, e) /\ eff = off
        BY <2>13, <2>19, <3>2, <3>3, <3>4, <3>6
      <4>2. Load(H, q, e) = Load(h, p, e)
        BY <2>13, <3>2, <3>4, <3>6
      <4> QED BY <3>1, <3>4, <3>5, <4>1, <4>2
    <3>7. CASE p = b.data
      <4>0. q = D /\ aliased
        BY <2>11, <2>14, <3>2, <3>7
      <4>1. /\ ~(to <= e /\ e < m) => Load(t, D, a) = Load(H, D, e)
            /\ to <= e /\ e < m => Load(t, D, a) = Load(H, D, tail + (e - to))
        BY <2>19, <3>2, <3>3, <3>4, <4>0
      <4>2. PICK f : f = off + i
        OBVIOUS
      <4>3. f \in Nat /\ f <= s
        BY <2>1, <2>3, <2>24, <3>2, <3>7, <4>2
      <4>4. \/ ~(to <= e /\ e < m) /\ e = f
            \/ to <= e /\ e < m /\ tail + (e - to) = f
        <5>1. CASE off >= tail
          <6>1. eff = off + n - length
            BY <2>8, <4>0, <5>1
          <6>2. off + n <= s \/ n = length
            BY <2>1, <3>2, <3>7, <5>1
          <6> QED BY <2>1, <2>3, <2>15, <2>17, <2>24, <3>4, <4>2, <5>1, <6>1, <6>2
        <5>2. CASE off < tail
          <6>1. eff = off
            BY <2>8, <5>2
          <6>2. off <= pos \/ tail = s \/ n = length
            BY <2>1, <2>17, <2>24, <3>7, <5>2 DEF Inner
          <6> QED BY <2>1, <2>3, <2>15, <2>17, <2>24, <3>4, <4>2, <5>2, <6>1, <6>2
        <5> QED BY <5>1, <5>2
      <4>5. Load(t, D, a) = Load(H, D, f)
        BY <4>1, <4>4
      <4>6. Load(H, D, f) = Load(h, b.data, f)
        <5>1. CASE f < s
          BY <2>2, <4>3, <5>1
        <5>2. CASE f = s
          <6>1. Load(H, D, s) = 0
            BY <2>1, <2>2, <2>5 DEF Ended
          <6>2. b.data # Null
            BY <3>2, <3>7
          <6>3. Load(h, b.data, s) = 0
            BY <2>1, <6>2 DEF Ended
          <6> QED BY <5>2, <6>1, <6>3
        <5> QED BY <2>3, <4>3, <5>1, <5>2
      <4> QED BY <3>1, <3>5, <3>7, <4>2, <4>5, <4>6
    <3> QED BY <3>6, <3>7
  <2> QED BY <1>4, <2>22, <2>23, <2>24
<1> QED BY <1>3, <1>4

-----------------------------------------------------------------------------
(***************************************************************************)
(* From one string to the whole program.                                   *)
(***************************************************************************)

\* A call that leaves the string it works on terminated leaves all of them so.
LEMMA AnswerStr ==
  ASSUME NEW K, StrInv(K), NEW x \in Obj, x \in K, NEW c, NEW o, Done(heap, obj[x], o), Answer(c, x, o), Inv(K)'
  PROVE  StrInv(K)'
<1>1. Inv(K) /\ Local(heap, obj[x], o)
  BY DEF StrInv, Done
<1>2. /\ heap' = o.heap /\ obj'[x] = o.buf
      /\ \A y \in Obj : y # x =>
           obj'[y] = obj[y] /\ \A a : Load(heap', obj'[y].data, a) = Load(heap, obj[y].data, a)
  BY <1>1, AnswerFrame
<1>3. ASSUME NEW y \in Obj \cap K PROVE Ended(heap', obj'[y])
  <2>1. CASE y = x
    BY <1>2, <2>1 DEF Done
  <2>2. CASE y # x
    <3>1. obj'[y] = obj[y] /\ Load(heap', obj'[y].data, obj[y].size) = Load(heap, obj[y].data, obj[y].size)
      BY <1>2, <2>2
    <3> QED BY <3>1 DEF StrInv, Ended
  <2> QED BY <2>1, <2>2
<1> QED BY <1>3 DEF StrInv, Ended, Load

\* A factory call keeps the invariant.
LEMMA CreatesStr ==
  ASSUME NEW K, StrInv(K), NEW x \in Obj, x \in K, NEW c, NEW o, Done(heap, Empty, o),
         o.code # "ok" => o.buf = Empty, Creates(c, x, o)
  PROVE  StrInv(K)'
<1>1. obj[x] = Empty /\ Inv(K)
  BY DEF StrInv, Inv, Creates
<1>2. Inv(K)'
  BY <1>1, CreatesInv DEF Done
<1>3. Done(heap, obj[x], o) /\ Answer(c, x, o)
  BY <1>1 DEF Creates
<1> QED BY <1>2, <1>3, AnswerStr

\* So does a call on a live string.
LEMMA EndsStr ==
  ASSUME NEW K, StrInv(K), NEW x \in Obj, x \in K, x \in alive, NEW c, NEW o, Done(heap, obj[x], o), Ends(c, x, o)
  PROVE  StrInv(K)'
<1>1. Inv(K)'
  BY EndsInv DEF StrInv, Done
<1>2. Answer(c, x, o)
  BY DEF Ends
<1> QED BY <1>1, <1>2, AnswerStr

\* And whatever changes neither heap nor headers.
LEMMA SameStr ==
  ASSUME NEW K, StrInv(K), Inv(K)', heap' = heap, obj' = obj
  PROVE  StrInv(K)'
BY DEF StrInv, Ended, Load

\* Construction, destruction and moves keep the invariant.
LEMMA LifetimeStr ==
  ASSUME NEW K, StrInv(K), NEW x \in Obj, NEW y \in Obj, x \in K, y \in K,
         Construct(x) \/ Destroy(x) \/ MoveConstruct(x, y) \/ MoveAssign(x, y)
  PROVE  StrInv(K)'
<1>0. Inv(K) /\ Inv(K)'
  BY LifetimeInv DEF StrInv
<1>1. ASSUME Construct(x) PROVE StrInv(K)'
  <2>1. heap' = heap /\ obj' = obj
    BY <1>1 DEF Construct
  <2> QED BY <1>0, <2>1, SameStr
<1>2. ASSUME Destroy(x) PROVE StrInv(K)'
  <2> DEFINE o == Outcome("ok", free(heap, obj[x].data), Empty, FALSE)
  <2>1. Local(heap, obj[x], o) /\ o.buf = Empty
    BY <1>0, FreeLocal DEF Inv, Outcome
  <2>2. Answer(<<"destroy", x>>, x, o)
    BY <1>2 DEF Destroy
  <2> HIDE DEF o
  <2>3. Done(heap, obj[x], o)
    BY <2>1 DEF Done, Ended, Empty
  <2> QED BY <1>0, <2>2, <2>3, AnswerStr
<1>3. ASSUME x # y, heap' = free(heap, obj[x].data),
             obj' = [obj EXCEPT ![x] = obj[y], ![y] = Empty]
      PROVE  StrInv(K)'
  <2>1. /\ obj'[x] = obj[y] /\ obj'[y] = Empty
        /\ \A z \in Obj \ {x, y} : obj'[z] = obj[z]
        /\ \A z \in Obj \ {x} : \A a : Load(heap', obj[z].data, a) = Load(heap, obj[z].data, a)
    BY <1>0, <1>3, MoveFrame
  <2>2. ASSUME NEW z \in Obj \cap K, z # x PROVE Ended(heap', obj[z])
    <3>1. Load(heap', obj[z].data, obj[z].size) = Load(heap, obj[z].data, obj[z].size)
      BY <2>1, <2>2
    <3> QED BY <3>1 DEF StrInv, Ended
  <2>3. \A z \in Obj \cap K : Ended(heap', obj'[z])
    <3>1. Ended(heap', Empty)
      BY DEF Ended, Empty
    <3> QED BY <1>3, <2>1, <2>2, <3>1
  <2> QED BY <1>0, <2>3 DEF StrInv, Ended, Load
<1>4. ASSUME MoveConstruct(x, y) PROVE StrInv(K)'
  <2>1. x # y /\ obj' = [obj EXCEPT ![x] = obj[y], ![y] = Empty] /\ heap' = heap
    BY <1>4 DEF MoveConstruct
  <2>2. free(heap, obj[x].data) = heap
    BY <1>0, <1>4 DEF MoveConstruct, Inv, Empty, free
  <2> QED BY <1>3, <2>1, <2>2
<1>5. ASSUME MoveAssign(x, y) PROVE StrInv(K)'
  <2>1. CASE x = y
    <3>1. heap' = heap /\ obj' = obj
      BY <1>5, <2>1 DEF MoveAssign, Looks
    <3> QED BY <1>0, <3>1, SameStr
  <2>2. CASE x # y
    <3>1. obj' = [obj EXCEPT ![x] = obj[y], ![y] = Empty] /\ heap' = free(heap, obj[x].data)
      BY <1>5, <2>2 DEF MoveAssign
    <3> QED BY <1>3, <2>2, <3>1
  <2> QED BY <2>1, <2>2
<1> QED BY <1>1, <1>2, <1>4, <1>5

\* The bytes a caller may read are there and written: its own, or those of a
\* string, the terminator included.
LEMMA SourceWritten ==
  ASSUME NEW K, StrInv(K), NEW s \in Source, Within(K, s), s.len # 0, Readable(s, 1)
  PROVE  /\ Written(heap, target(s), s.off, s.len)
         /\ \A x \in Obj : target(s) = obj[x].data => s.of = x /\ s.off + s.len <= obj[x].size + 1
<1>0. Inv(K)
  BY DEF StrInv
<1>1. s.off \in Nat /\ s.len \in Nat \ {0} /\ s.of \in Obj \cup {Caller, Null}
  BY SizeAssumption DEF Source
<1>2. CASE s.of = Caller /\ s.off + s.len <= MAX_ALLOC_BYTES
  <2>1. target(s) = Caller
    BY <1>2, ContainerAssumption, MemoryAssumption DEF target
  <2>2. Written(heap, Caller, s.off, s.len)
    BY <1>0, <1>1, <1>2, MemoryAssumption, ContainerAssumption DEF Written, Inv, GoodHeap
  <2>3. \A x \in Obj : obj[x].data # Caller
    BY <1>0, AnyObject, MemoryAssumption
  <2> QED BY <2>1, <2>2, <2>3
<1>3. CASE s.of \in K /\ s.of \in alive /\ s.off + s.len <= obj[s.of].size + (IF obj[s.of].data = Null THEN 0 ELSE 1)
  <2>1. PICK y : y = s.of
    OBVIOUS
  <2>2. PICK b : b = obj[y]
    OBVIOUS
  <2>3. y \in Obj /\ target(s) = b.data /\ Sound(heap, b) /\ GoodHeap(heap) /\ Ended(heap, b)
    BY <1>0, <1>3, <2>1, <2>2 DEF target, Inv, StrInv
  <2>4. b.size \in Nat /\ b.cap \in Nat /\ b.size <= b.cap /\ (b.data = Null => b.size = 0)
    BY <2>3, SoundBounds
  <2>5. b.data # Null
    BY <1>1, <1>3, <2>1, <2>2, <2>4
  <2>6. s.off + s.len <= b.size + 1
    BY <1>3, <2>1, <2>2, <2>5
  <2>7. b.data \in Block /\ heap[b.data].len = b.cap + 1
    BY <2>3, <2>5, StringAssumption DEF Sound, SoundAs
  <2>8. ASSUME NEW a \in Addr, s.off <= a, a < s.off + s.len PROVE heap[b.data].cell[a] # Undef
    <3>1. a \in Nat /\ (a < b.size \/ a = b.size) /\ a < b.cap + 1
      BY <1>1, <2>4, <2>6, <2>8, SizeAssumption DEF Addr
    <3>2. Load(heap, b.data, b.size) = 0
      BY <2>3, <2>5 DEF Ended
    <3>3. Load(heap, b.data, a) # Undef
      BY <2>3, <3>1, <3>2, SoundCells, MemoryAssumption
    <3> QED BY <2>5, <2>7, <3>1, <3>3 DEF Load
  <2>9. Written(heap, b.data, s.off, s.len)
    BY <1>1, <2>4, <2>6, <2>7, <2>8 DEF Written
  <2>10. \A x \in Obj : b.data = obj[x].data => x = y
    BY <1>0, <2>2, <2>3, <2>5 DEF Inv
  <2> QED BY <2>1, <2>2, <2>3, <2>6, <2>9, <2>10
<1>4. CASE s.of \notin K /\ s.of \in alive
  <2>1. PICK y : y = s.of
    OBVIOUS
  <2>2. y \in Obj /\ target(s) = obj[y].data
    BY <1>0, <1>4, <2>1 DEF target, Inv
  <2>3. s.off + s.len <= obj[y].size
    BY <1>4, <2>1, <2>2 DEF Within
  <2>4. obj[y].size \in Nat
    BY <1>0, <2>2, AnyObject
  <2>5. s.off + s.len <= obj[y].size + (IF obj[y].data = Null THEN 0 ELSE 0)
    <3>1. (IF obj[y].data = Null THEN 0 ELSE 0) = 0
      OBVIOUS
    <3> QED BY <1>1, <2>3, <2>4, <3>1
  <2>6. Readable(s, 0)
    BY <1>4, <2>1, <2>5 DEF Readable
  <2>7. Written(heap, target(s), s.off, s.len)
    BY <1>0, <2>6, ReadableWritten
  <2>8. obj[y].data # Null
    BY <2>2, <2>7, MemoryAssumption DEF Written
  <2>9. \A x \in Obj : obj[y].data = obj[x].data => x = y
    BY <1>0, <2>2, <2>8, AnyObject
  <2> QED BY <1>1, <2>1, <2>2, <2>3, <2>4, <2>7, <2>9
<1> QED BY <1>1, <1>2, <1>3, <1>4 DEF Readable

\* What a source points to.
LEMMA SourceType ==
  ASSUME NEW K, Inv(K), NEW s \in Source
  PROVE  /\ target(s) \in Block \cup {Null} /\ s.off \in Nat /\ s.len \in Size /\ s.len \in Nat
         /\ s.of = Null => target(s) = Null
         /\ s.of = Caller => \A x \in Obj : target(s) # obj[x].data
<1>1. s.off \in Nat /\ s.len \in Size /\ s.len \in Nat /\ s.of \in Obj \cup {Caller, Null}
  BY SizeAssumption DEF Source
<1>2. \A x \in Obj : obj[x].data \in Block \cup {Null} /\ obj[x].data # Caller
  BY AnyObject, MemoryAssumption
<1>3. s.of = Null => target(s) = Null
  BY ContainerAssumption DEF target
<1>4. s.of = Caller => target(s) = Caller
  BY ContainerAssumption, MemoryAssumption DEF target
<1>5. target(s) \in Block \cup {Null}
  BY <1>1, <1>2, MemoryAssumption DEF target
<1> QED BY <1>1, <1>2, <1>3, <1>4, <1>5

-----------------------------------------------------------------------------
(***************************************************************************)
(* The factories.                                                          *)
(***************************************************************************)

\* The start of a source is a source.
LEMMA WrittenPart ==
  ASSUME NEW h, GoodHeap(h), NEW q, NEW off, NEW len, Written(h, q, off, len), NEW n \in Nat, n # 0, n <= len
  PROVE  Written(h, q, off, n)
<1>1. off \in Nat /\ len \in Nat /\ off + len <= h[q].len /\ q \in Block
  BY DEF Written
<1>2. h[q].len \in Nat
  BY <1>1, SizeAssumption DEF GoodHeap, Chunk
<1>3. \A a \in Addr : a \in Nat
  BY SizeAssumption DEF Addr
<1> QED BY <1>1, <1>2, <1>3 DEF Written

\* A set of natural numbers that is not empty has a least element.
LEMMA LeastNat ==
  ASSUME NEW S, S \subseteq Nat, S # {}
  PROVE  \E i \in S : \A j \in S : i <= j
<1>1. PICK R : R = OpToRel(<, Nat)
  OBVIOUS
<1>2. IsWellFoundedOn(R, Nat)
  BY <1>1, NatLessThanWellFounded
<1>3. \A j, i \in Nat : j < i => <<j, i>> \in R
  BY <1>1 DEF OpToRel
<1>4. PICK i \in S : \A j \in S : ~ (<<j, i>> \in R)
  BY <1>2, WFMin, Zenon
<1>5. \A j \in S : ~ (j < i)
  BY <1>3, <1>4
<1> QED BY <1>5

\* An outcome has its four fields, whatever their values.
Recorded(o) == DOMAIN o = {"code", "heap", "buf", "bad"}

\* What from_bytes gives is an outcome.
LEMMA FromBytesRecorded ==
  ASSUME NEW h, NEW q, NEW off, NEW n, NEW o \in from_bytes(h, q, off, n)
  PROVE  Recorded(o)
<1>1. \A code, g, b, f : Recorded(Outcome(code, g, b, f))
  BY DEF Recorded, Outcome
<1>2. \A u : Recorded(Terminated(u))
  BY <1>1 DEF Terminated
<1>3. \A m : \A u \in reserve_exact(h, Empty, m) : Recorded(u)
  BY <1>1, <1>2 DEF reserve_exact
<1>4. \A u \in with_capacity(h, n) : Recorded(u)
  BY <1>1, <1>3 DEF with_capacity
<1>5. \A u : Recorded(Sized(u, n))
  BY <1>2 DEF Sized
<1> QED BY <1>1, <1>4, <1>5 DEF from_bytes

\* bounded_strlen gives the offset of a NUL, unless there is none to find.
LEMMA StrlenFinds ==
  ASSUME NEW h, NEW q, NEW off \in Nat, NEW n, n = bounded_strlen(h, q, off, MAX_ALLOC_BYTES)
  PROVE  \/ /\ n = Nullopt
            /\ \A i \in 0 .. MAX_ALLOC_BYTES - 1 : Load(h, q, off + i) # 0
         \/ /\ n \in 0 .. MAX_ALLOC_BYTES - 1 /\ Load(h, q, off + n) = 0
            /\ \A i \in 0 .. MAX_ALLOC_BYTES - 1 : Load(h, q, off + i) = 0 => n <= i
<1> DEFINE nul == {i \in 0 .. MAX_ALLOC_BYTES - 1 : Load(h, q, off + i) = 0}
<1>1. CASE nul = {}
  BY <1>1 DEF bounded_strlen
<1>2. CASE nul # {}
  <2>1. nul \subseteq Nat
    BY SizeAssumption
  <2> HIDE DEF nul
  <2>2. \E i \in nul : \A j \in nul : i <= j
    BY <1>2, <2>1, LeastNat
  <2>3. n = CHOOSE i \in nul : \A j \in nul : i <= j
    BY <1>2 DEF bounded_strlen, nul
  <2>4. n \in nul /\ \A j \in nul : n <= j
    BY <2>2, <2>3
  <2> QED BY <2>4 DEF nul
<1> QED BY <1>1, <1>2

\* What from_cstr may read is there, NUL included.
LEMMA CstrReadable ==
  ASSUME NEW K, StrInv(K), NEW s \in Source, Within(K, s), Cstr(s), s.of # Null, ~ StaticEmpty(s),
         NEW n, n = bounded_strlen(heap, target(s), s.off, MAX_ALLOC_BYTES)
  PROVE  /\ Written(heap, target(s), s.off, s.len)
         /\ n = Nullopt => Inside(heap, target(s), s.off, MAX_ALLOC_BYTES)
         /\ n # Nullopt => n \in Nat /\ n < s.len /\ Inside(heap, target(s), s.off, n + 1)
<1>0. Inv(K) /\ GoodHeap(heap) /\ target(s) \in Block \cup {Null} /\ s.off \in Nat /\ s.len \in Nat
  BY SourceType DEF StrInv, Inv
<1>1. PICK q, off : q = target(s) /\ off = s.off
  OBVIOUS
<1>2. MAX_ALLOC_BYTES \in Nat /\ MAX_ALLOC_BYTES >= 1 /\ 0 # Undef
  BY SizeAssumption, MemoryAssumption
<1>3. \/ /\ n = Nullopt
         /\ \A i \in 0 .. MAX_ALLOC_BYTES - 1 : Load(heap, q, off + i) # 0
      \/ /\ n \in 0 .. MAX_ALLOC_BYTES - 1 /\ Load(heap, q, off + n) = 0
         /\ \A i \in 0 .. MAX_ALLOC_BYTES - 1 : Load(heap, q, off + i) = 0 => n <= i
  BY <1>0, <1>1, StrlenFinds
<1>4. CASE s.of \in alive /\ s.off + s.len = obj[s.of].size + 1 /\ s.len > 0
  <2>0. s.of \in K
    <3>1. s.of \in Obj /\ obj[s.of].size \in Nat
      BY <1>0, <1>4, AnyObject DEF Inv
    <3> QED BY <1>0, <1>4, <3>1 DEF Within
  <2>1. PICK b : b = obj[s.of]
    OBVIOUS
  <2>2. s.of \in Obj /\ q = b.data /\ b.data # Null /\ Sound(heap, b) /\ Ended(heap, b)
    BY <1>0, <1>1, <1>4, <2>0, <2>1 DEF StaticEmpty, target, Inv, StrInv
  <2>3. b.size \in Nat /\ b.size <= b.cap /\ b.cap \in Nat /\ b.cap + 1 <= MAX_ALLOC_BYTES
        /\ Load(heap, q, b.size) = 0
    BY <1>0, <2>2, SoundBounds, StringAssumption DEF Ended
  <2>4. PICK i : i = s.len - 1
    OBVIOUS
  <2>5. i \in 0 .. MAX_ALLOC_BYTES - 1 /\ off + i = b.size
    <3>1. off + s.len = b.size + 1 /\ s.len > 0
      BY <1>1, <1>4, <2>1
    <3> QED BY <1>0, <1>1, <1>2, <2>3, <2>4, <3>1
  <2>6. n \in 0 .. MAX_ALLOC_BYTES - 1 /\ n <= i
    BY <1>3, <2>3, <2>5
  <2>7. Readable(s, 1) /\ s.len # 0
    BY <1>4, <2>1, <2>2, <2>3 DEF Readable
  <2>8. Written(heap, target(s), s.off, s.len)
    BY <2>7, SourceWritten
  <2>9. n \in Nat /\ n < s.len /\ n # Nullopt
    BY <1>0, <1>2, <2>4, <2>6
  <2>10. heap[target(s)].len \in Nat /\ target(s) # Null /\ s.off + s.len <= heap[target(s)].len
    BY <1>0, <1>1, <2>2, <2>8, SizeAssumption DEF Written, GoodHeap, Chunk
  <2>11. Inside(heap, target(s), s.off, n + 1)
    BY <1>0, <2>9, <2>10 DEF Inside
  <2> QED BY <2>8, <2>9, <2>11
<1>5. CASE /\ s.of = Caller /\ s.off + s.len = MAX_ALLOC_BYTES
           /\ s.off = 0 \/ \E a \in s.off .. MAX_ALLOC_BYTES - 1 : CallerBytes[a] = 0
  <2>1. q = Caller /\ Caller # Null /\ heap[Caller].len = MAX_ALLOC_BYTES /\ heap[Caller].cell = CallerBytes
    BY <1>0, <1>1, <1>5, ContainerAssumption, MemoryAssumption DEF target, GoodHeap
  <2>2. s.len # 0 /\ Readable(s, 1)
    BY <1>0, <1>2, <1>5 DEF Readable
  <2>3. Written(heap, target(s), s.off, s.len)
    BY <2>2, SourceWritten
  <2>4. CASE n = Nullopt
    <3>1. ASSUME NEW a \in s.off .. MAX_ALLOC_BYTES - 1, CallerBytes[a] = 0 PROVE FALSE
      <4>1. PICK i : i = a - s.off
        OBVIOUS
      <4>2. i \in 0 .. MAX_ALLOC_BYTES - 1 /\ off + i = a /\ a < MAX_ALLOC_BYTES
        BY <1>0, <1>1, <1>2, <3>1, <4>1
      <4>3. Load(heap, q, a) = 0
        BY <2>1, <3>1, <4>2 DEF Load
      <4> QED BY <1>3, <2>4, <4>2, <4>3
    <3>2. s.off = 0
      BY <1>5, <3>1
    <3> QED BY <1>1, <1>2, <2>1, <2>3, <2>4, <3>2 DEF Inside
  <2>5. CASE n # Nullopt
    <3>1. n \in Nat /\ Load(heap, Caller, off + n) = 0
      BY <1>2, <1>3, <2>1, <2>5
    <3>2. off + n < MAX_ALLOC_BYTES
      BY <1>2, <2>1, <3>1 DEF Load
    <3> QED BY <1>0, <1>1, <1>2, <1>5, <2>1, <2>3, <2>5, <3>1, <3>2 DEF Inside
  <2> QED BY <2>4, <2>5
<1> QED BY <1>4, <1>5 DEF Cstr

\* from_cstr: a string with the bytes before the NUL, or none at all.
LEMMA FromCstrDone ==
  ASSUME NEW K, StrInv(K), NEW s \in Source, Within(K, s), Cstr(s),
         NEW o \in IF StaticEmpty(s) THEN from_bytes(heap, Null, 0, 0) ELSE from_cstr(heap, target(s), s.off)
  PROVE  /\ Done(heap, Empty, o)
         /\ o.code # "ok" => o.buf = Empty /\ o.heap = heap
<1>0. Inv(K) /\ GoodHeap(heap) /\ target(s) \in Block \cup {Null} /\ s.off \in Nat /\ s.len \in Size /\ s.len \in Nat
  BY SourceType DEF StrInv, Inv
<1>1. CASE StaticEmpty(s)
  <2>1. 0 \in Size /\ 0 \in Nat /\ Null \in Block \cup {Null} /\ o \in from_bytes(heap, Null, 0, 0)
    BY <1>1, SizeAssumption
  <2> QED BY <1>0, <2>1, FromBytesDone
<1>2. ASSUME NEW code, code # "ok", o = Outcome(code, heap, Empty, FALSE)
      PROVE  Done(heap, Empty, o) /\ o.buf = Empty /\ o.heap = heap
  <2>1. Local(heap, Empty, o)
    BY <1>0, <1>2, EmptySound, SameLocal
  <2>2. o.buf = Empty /\ o.heap = heap
    BY <1>2 DEF Outcome
  <2> QED BY <2>1, <2>2 DEF Done, Ended, Empty
<1>3. CASE ~ StaticEmpty(s) /\ target(s) = Null
  BY <1>2, <1>3 DEF from_cstr
<1>4. CASE ~ StaticEmpty(s) /\ target(s) # Null
  <2>1. s.of # Null
    BY <1>0, <1>4, SourceType
  <2>2. PICK n : n = bounded_strlen(heap, target(s), s.off, MAX_ALLOC_BYTES)
    OBVIOUS
  <2>3. /\ Written(heap, target(s), s.off, s.len)
        /\ n = Nullopt => Inside(heap, target(s), s.off, MAX_ALLOC_BYTES)
        /\ n # Nullopt => n \in Nat /\ n < s.len /\ Inside(heap, target(s), s.off, n + 1)
    BY <1>4, <2>1, <2>2, CstrReadable
  <2>4. CASE n = Nullopt
    <3>1. o = Outcome("not_null_terminated", heap, Empty, FALSE)
      BY <1>4, <2>2, <2>3, <2>4 DEF from_cstr
    <3> QED BY <1>2, <3>1
  <2>5. CASE n # Nullopt
    <3>1. PICK u \in from_bytes(heap, target(s), s.off, n) : o = [u EXCEPT !.bad = u.bad \/ ~ Inside(heap, target(s), s.off, n + 1)]
      BY <1>4, <2>2, <2>5 DEF from_cstr
    <3>2. n \in Size /\ n # 0 => Written(heap, target(s), s.off, n)
      BY <1>0, <2>3, <2>5, WrittenPart
    <3>3. n \in Size
      BY <1>0, <2>3, <2>5, SizeAssumption
    <3>4. /\ Done(heap, Empty, u)
          /\ u.code # "ok" => u.buf = Empty /\ u.heap = heap
      BY <1>0, <3>1, <3>2, <3>3, FromBytesDone
    <3>5. u.bad = FALSE
      BY <3>4 DEF Done, Local
    <3>6. o.heap = u.heap /\ o.buf = u.buf /\ o.code = u.code /\ o.bad = FALSE
      <4>1. Recorded(u)
        BY <3>1, FromBytesRecorded
      <4>2. o = [u EXCEPT !.bad = FALSE]
        BY <2>3, <2>5, <3>1, <3>5
      <4> QED BY <4>1, <4>2 DEF Recorded
    <3> QED BY <3>4, <3>6 DEF Done, Local
  <2> QED BY <2>4, <2>5
<1> QED BY <1>1, <1>3, <1>4

\* The bytes of a part of a string are there and written.
LEMMA PartWritten ==
  ASSUME NEW K, StrInv(K), NEW y \in Obj, y \in K, NEW pos \in Nat, NEW n \in Nat, pos + n <= obj[y].size
  PROVE  /\ n \in Size /\ obj[y].data \in Block \cup {Null}
         /\ n # 0 => obj[y].data # Null /\ Written(heap, obj[y].data, pos, n)
<1>1. PICK b : b = obj[y]
  OBVIOUS
<1>2. GoodHeap(heap) /\ Sound(heap, b)
  BY <1>1 DEF StrInv, Inv
<1>3. /\ b.data \in Block \cup {Null} /\ b.size \in Nat /\ b.cap \in Nat /\ b.size <= b.cap
      /\ b.cap <= MAX_ALLOC_BYTES
      /\ b.data = Null => b.size = 0
  BY <1>2, SoundBounds
<1>4. n # 0 => b.data # Null /\ heap[b.data].len = b.cap + 1 /\ b.data \in Block
  BY <1>1, <1>2, <1>3, StringAssumption DEF Sound, SoundAs
<1>5. \A a \in Addr : a \in Nat /\ (a < pos + n => a < b.size)
  BY <1>1, <1>3, SizeAssumption DEF Addr
<1>6. n # 0 => \A a \in Addr : a < b.size => heap[b.data].cell[a] # Undef
  BY <1>2, <1>4 DEF Sound, SoundAs
<1>7. n # 0 => Written(heap, b.data, pos, n)
  BY <1>1, <1>3, <1>4, <1>5, <1>6 DEF Written
<1> QED BY <1>1, <1>3, <1>4, <1>7, SizeAssumption

\* from_bytes of whatever a caller may pass makes a sound string, or nothing.
LEMMA FromBytesPassed ==
  ASSUME NEW K, StrInv(K), NEW s \in Source, Within(K, s), MayPass(s, 1, s.len >= MAX_ALLOC_BYTES),
         NEW o \in from_bytes(heap, target(s), s.off, s.len)
  PROVE  Done(heap, Empty, o) /\ (o.code # "ok" => o.buf = Empty)
<1>1. Inv(K) /\ GoodHeap(heap)
  BY DEF StrInv, Inv
<1>2. target(s) \in Block \cup {Null} /\ s.off \in Nat /\ s.len \in Size /\ s.len \in Nat
      /\ (s.of = Null => target(s) = Null)
  BY <1>1, SourceType
<1>3. s.len # 0 /\ target(s) # Null /\ s.len < MAX_ALLOC_BYTES => Readable(s, 1)
  BY <1>2, SizeAssumption DEF MayPass
<1>4. s.len # 0 /\ target(s) # Null /\ s.len < MAX_ALLOC_BYTES => Written(heap, target(s), s.off, s.len)
  BY <1>3, SourceWritten
<1> QED BY <1>1, <1>2, <1>4, FromBytesDone

\* The factories keep the invariant.
LEMMA FactoryStr ==
  ASSUME NEW K, StrInv(K), NEW x \in Obj, x \in K
  PROVE  /\ \A n \in Size : WithCapacity(x, n) => StrInv(K)'
         /\ \A s \in Source : Within(K, s) /\ FromBytes(x, s) => StrInv(K)'
         /\ \A s \in Source : Within(K, s) /\ FromCstr(x, s) => StrInv(K)'
         /\ \A y \in Obj \cap K : Clone(x, y) => StrInv(K)'
         /\ \A y \in Obj \cap K, pos, length \in Size : Substr(x, y, pos, length) => StrInv(K)'
<1>0. Inv(K) /\ GoodHeap(heap) /\ \A y \in Obj \cap K : Sound(heap, obj[y])
  BY DEF StrInv, Inv
<1>1. ASSUME NEW n \in Size, WithCapacity(x, n) PROVE StrInv(K)'
  <2>1. PICK o \in with_capacity(heap, n) : Creates(<<"with_capacity", x, n>>, x, o)
    BY <1>1 DEF WithCapacity
  <2>2. Done(heap, Empty, o) /\ (o.code # "ok" => o.buf = Empty)
    BY <1>0, <2>1, WithCapacityGrown DEF Grown
  <2> QED BY <2>1, <2>2, CreatesStr
<1>2. ASSUME NEW s \in Source, Within(K, s), FromBytes(x, s) PROVE StrInv(K)'
  <2>1. PICK o \in from_bytes(heap, target(s), s.off, s.len) : Creates(<<"from_bytes", x, s>>, x, o)
    BY <1>2 DEF FromBytes
  <2>2. Done(heap, Empty, o) /\ (o.code # "ok" => o.buf = Empty)
    BY <1>2, <2>1, FromBytesPassed DEF FromBytes
  <2> QED BY <2>1, <2>2, CreatesStr
<1>3. ASSUME NEW s \in Source, Within(K, s), FromCstr(x, s) PROVE StrInv(K)'
  <2>1. PICK o \in IF StaticEmpty(s) THEN from_bytes(heap, Null, 0, 0) ELSE from_cstr(heap, target(s), s.off) :
          Creates(<<"from_cstr", x, s>>, x, o)
    BY <1>3 DEF FromCstr
  <2>2. Cstr(s)
    BY <1>3 DEF FromCstr
  <2>3. Done(heap, Empty, o) /\ (o.code # "ok" => o.buf = Empty)
    BY <1>3, <2>1, <2>2, FromCstrDone
  <2> QED BY <2>1, <2>3, CreatesStr
<1>4. ASSUME NEW y \in Obj, y \in K, Clone(x, y) PROVE StrInv(K)'
  <2>1. PICK p, n : p = obj[y].data /\ n = obj[y].size
    OBVIOUS
  <2>2. PICK o \in from_bytes(heap, p, 0, n) : Creates(<<"clone", x, y>>, x, o)
    BY <1>4, <2>1 DEF Clone
  <2>3. n \in Nat /\ 0 \in Nat /\ 0 + n <= obj[y].size
    BY <1>0, <1>4, <2>1, SoundBounds
  <2>4. n \in Size /\ p \in Block \cup {Null} /\ (n # 0 => Written(heap, p, 0, n))
    BY <1>4, <2>1, <2>3, PartWritten
  <2>5. Done(heap, Empty, o) /\ (o.code # "ok" => o.buf = Empty)
    BY <1>0, <2>2, <2>3, <2>4, FromBytesDone
  <2> QED BY <2>2, <2>5, CreatesStr
<1>5. ASSUME NEW y \in Obj, y \in K, NEW pos \in Size, NEW length \in Size, Substr(x, y, pos, length) PROVE StrInv(K)'
  <2> DEFINE code == RangeCode(pos, length, obj[y].size)
  <2>1. PICK o \in IF code # "ok" THEN {Outcome(code, heap, Empty, FALSE)}
                   ELSE from_bytes(heap, obj[y].data, pos, length) :
          Creates(<<"substr", x, y, pos, length>>, x, o)
    BY <1>5 DEF Substr
  <2>2. CASE code # "ok"
    <3>1. o = Outcome(code, heap, Empty, FALSE)
      BY <2>1, <2>2
    <3> HIDE DEF code
    <3>2. Local(heap, Empty, o)
      BY <1>0, <3>1, EmptySound, SameLocal
    <3>3. o.buf = Empty /\ o.heap = heap
      BY <3>1 DEF Outcome
    <3>4. Done(heap, Empty, o)
      BY <3>2, <3>3 DEF Done, Ended, Empty
    <3> QED BY <2>1, <3>3, <3>4, CreatesStr
  <2>3. CASE code = "ok"
    <3>1. pos \in Nat /\ length \in Nat /\ obj[y].size \in Nat
      BY <1>0, <1>5, SoundBounds, SizeAssumption
    <3>2. range_in_bounds(pos, length, obj[y].size)
      BY <2>3 DEF RangeCode
    <3>3. pos + length <= obj[y].size
      BY <3>1, <3>2, CheckedAddExact DEF range_in_bounds
    <3>4. PICK p : p = obj[y].data
      OBVIOUS
    <3>5. p \in Block \cup {Null} /\ (length # 0 => Written(heap, p, pos, length))
      BY <1>5, <3>1, <3>3, <3>4, PartWritten
    <3>6. o \in from_bytes(heap, p, pos, length)
      BY <2>1, <2>3, <3>4
    <3>7. Done(heap, Empty, o) /\ (o.code # "ok" => o.buf = Empty)
      BY <1>0, <3>1, <3>5, <3>6, FromBytesDone
    <3> QED BY <2>1, <3>7, CreatesStr
  <2> QED BY <2>2, <2>3
<1> QED BY <1>1, <1>2, <1>3, <1>4, <1>5

-----------------------------------------------------------------------------
(***************************************************************************)
(* The operations on a live string.                                        *)
(***************************************************************************)

\* The calls that only read stay inside the string's block.
LEMMA ReadersStr ==
  ASSUME NEW K, StrInv(K), NEW x \in Obj, x \in K
  PROVE  /\ \A i \in Size : At(x, i) => StrInv(K)'
         /\ \A n \in Size, out \in BOOLEAN : CopyToCstr(x, out, n) => StrInv(K)'
<1> DEFINE b == obj[x]
<1>0. Inv(K) /\ GoodHeap(heap) /\ Sound(heap, b)
  BY DEF StrInv, Inv
<1>1. b.size \in Nat /\ b.cap \in Nat /\ b.size <= b.cap /\ (b.data = Null => b.size = 0)
  BY <1>0, SoundBounds
<1>2. b.data # Null => heap[b.data].len = b.cap + 1
  BY <1>0, StringAssumption DEF Sound, SoundAs
<1>3. ASSUME NEW c, NEW code, NEW val, Looks(c, code, val, FALSE) PROVE StrInv(K)'
  <2>1. Inv(K)'
    BY <1>0, <1>3, LooksInv
  <2>2. heap' = heap /\ obj' = obj
    BY <1>3 DEF Looks
  <2> QED BY <2>1, <2>2, SameStr
<1>4. ASSUME NEW i \in Size, At(x, i) PROVE StrInv(K)'
  <2>1. i \in Nat
    BY SizeAssumption
  <2>2. i < b.size => Inside(heap, b.data, i, 1)
    BY <1>1, <1>2, <2>1 DEF Inside
  <2>3. \/ \E c, code, val : Looks(c, code, val, FALSE)
        \/ i < b.size /\ \E c, code, val : Looks(c, code, val, ~ Inside(heap, b.data, i, 1))
    BY <1>4 DEF At
  <2>4. \E c, code, val : Looks(c, code, val, FALSE)
    BY <2>2, <2>3
  <2> QED BY <1>3, <2>4
<1>5. ASSUME NEW n \in Size, NEW out \in BOOLEAN, CopyToCstr(x, out, n) PROVE StrInv(K)'
  <2> DEFINE k == IF b.size < n - 1 THEN b.size ELSE n - 1
             bad == k > 0 /\ ~ Inside(heap, b.data, 0, k)
  <2>1. n \in Nat
    BY SizeAssumption
  <2>2. n > 0 => ~ bad
    BY <1>1, <1>2, <2>1 DEF Inside
  <2>3. \/ \E c, code, val : Looks(c, code, val, FALSE)
        \/ n > 0 /\ \E c, code, val : Looks(c, code, val, bad)
    BY <1>5 DEF CopyToCstr
  <2>4. \E c, code, val : Looks(c, code, val, FALSE)
    BY <2>2, <2>3
  <2> QED BY <1>3, <2>4
<1> QED BY <1>4, <1>5

\* A string that has been emptied is terminated at its first byte.
LEMMA ClearDone ==
  ASSUME NEW h, GoodHeap(h), NEW b, Sound(h, b), NEW g, Local(h, b, Ok(g, b))
  PROVE  /\ Done(h, b, clear(g, b))
         /\ clear(g, b).code = "ok" /\ clear(g, b).buf.size = 0
<1> DEFINE c == [data |-> b.data, size |-> 0, cap |-> b.cap]
           v == Ok(g, c)
           w == Ok(g, b)
<1>1. w.heap = g /\ w.buf = b /\ b \in Header
  BY DEF Ok, Outcome, Sound, SoundAs
<1>2. GoodHeap(g) /\ Sound(g, b)
  BY <1>1 DEF Local
<1>3. 0 \in Nat /\ 0 <= b.size
  BY SoundBounds
<1>4. Local(g, b, v)
  BY <1>2, <1>3, ShrinkLocal DEF Ok
<1>5. Local(h, b, v)
  <2>1. Local(h, b, w) /\ Local(w.heap, w.buf, v)
    BY <1>1, <1>4
  <2> HIDE DEF w, v
  <2> QED BY <2>1, LocalTransitive
<1>6. [b EXCEPT !.size = 0] = c
  BY <1>1, SizeField
<1>7. clear(g, b) = IF b.data = Null THEN v ELSE Terminated(v)
  BY <1>6 DEF clear, Ok
<1>8. v.buf = c /\ v.heap = g /\ v.code = "ok" /\ c.data = b.data /\ c.size = 0
  BY DEF Ok, Outcome
<1> HIDE DEF v, c
<1>9. CASE b.data = Null
  BY <1>5, <1>7, <1>8, <1>9 DEF Done, Ended
<1>10. CASE b.data # Null
  BY <1>5, <1>7, <1>8, <1>10, TerminateDone
<1> QED BY <1>9, <1>10

\* secure_zero of a string's bytes leaves its header and its block in order.
LEMMA ZeroLocal ==
  ASSUME GoodHeap(heap), NEW b, Sound(heap, b), NEW g, g = secure_zero(heap, b.data, b.size)
  PROVE  Local(heap, b, Ok(g, b))
<1>1. Local(heap, b, Ok(heap, b))
  BY SameLocal DEF Ok
<1>2. b.size \in Nat /\ b.size <= b.cap /\ b.cap \in Nat /\ 0 \in Nat /\ 0 \in Byte
  BY SoundBounds, MemoryAssumption
<1>3. CASE b.data = Null \/ b.size = 0
  BY <1>1, <1>3 DEF secure_zero
<1>4. CASE ~(b.data = Null \/ b.size = 0)
  <2>1. PICK to, n : to = 0 /\ n = b.size
    OBVIOUS
  <2>2. to \in Nat /\ n \in Nat /\ to <= b.size /\ n <= b.cap /\ (n <= b.size \/ n <= to + n)
    BY <1>2, <2>1
  <2>3. Local(heap, b, Outcome("ok", memset(heap, b.data, to, 0, n),
                               [data |-> b.data, size |-> n, cap |-> b.cap], FALSE))
    BY <1>2, <1>4, <2>2, MemsetLocal
  <2>4. b = [data |-> b.data, size |-> n, cap |-> b.cap]
    BY <2>1 DEF Sound, SoundAs, Header
  <2>5. g = memset(heap, b.data, to, 0, n)
    BY <1>4, <2>1 DEF secure_zero
  <2> QED BY <2>3, <2>4, <2>5 DEF Ok
<1> QED BY <1>3, <1>4

\* The operations that never allocate, and reserve, keep the invariant.
LEMMA InPlaceStr ==
  ASSUME NEW K, StrInv(K), NEW x \in Obj, x \in K
  PROVE  /\ Clear(x) => StrInv(K)'
         /\ SecureClear(x) => StrInv(K)'
         /\ \A n \in Size : Reserve(x, n) => StrInv(K)'
<1>1. PICK b : b = obj[x]
  OBVIOUS
<1>0. Inv(K) /\ GoodHeap(heap) /\ Sound(heap, b) /\ Ended(heap, b)
  BY <1>1 DEF StrInv, Inv
<1>2. Local(heap, b, Ok(heap, b))
  BY <1>0, SameLocal DEF Ok
<1>3. ASSUME Clear(x) PROVE StrInv(K)'
  <2>1. PICK o : o = clear(heap, b)
    OBVIOUS
  <2>2. Done(heap, b, o)
    BY <1>0, <1>2, <2>1, ClearDone
  <2>3. x \in alive /\ Ends(<<"clear", x>>, x, o)
    BY <1>1, <1>3, <2>1 DEF Clear
  <2> QED BY <1>1, <2>2, <2>3, EndsStr
<1>4. ASSUME SecureClear(x) PROVE StrInv(K)'
  <2>0. PICK g : g = secure_zero(heap, b.data, b.size)
    OBVIOUS
  <2>1. PICK o : o = clear(g, b)
    OBVIOUS
  <2>2. Local(heap, b, Ok(g, b))
    BY <1>0, <2>0, ZeroLocal
  <2>3. Done(heap, b, o)
    BY <1>0, <2>1, <2>2, ClearDone
  <2>4. x \in alive /\ Ends(<<"secure_clear", x>>, x, o)
    BY <1>1, <1>4, <2>0, <2>1 DEF SecureClear
  <2> QED BY <1>1, <2>3, <2>4, EndsStr
<1>5. ASSUME NEW n \in Size, Reserve(x, n) PROVE StrInv(K)'
  <2>1. PICK o \in reserve_exact(heap, b, n) : Ends(<<"reserve", x, n>>, x, o)
    BY <1>1, <1>5 DEF Reserve
  <2>2. Done(heap, b, o)
    BY <1>0, <2>1, ReserveGrown DEF Grown
  <2>3. x \in alive
    BY <1>5 DEF Reserve
  <2> QED BY <1>1, <2>1, <2>2, <2>3, EndsStr
<1> QED BY <1>3, <1>4, <1>5

\* append of one byte, once there is room.
LEMMA PushDone ==
  ASSUME NEW h, GoodHeap(h), NEW b, Sound(h, b), NEW v \in Byte, NEW m \in Size, m = b.size + 1,
         NEW g, Grown(h, b, m, g), g.code = "ok",
         NEW u, u = Sized(Outcome("ok", memset(g.heap, g.buf.data, b.size, v, 1), g.buf,
                                  ~ Inside(g.heap, g.buf.data, b.size, 1)), m)
  PROVE  /\ Done(h, b, u) /\ u.code = "ok" /\ u.buf.size = m
         /\ \A a \in Nat : a < b.size => Load(u.heap, u.buf.data, a) = Load(h, b.data, a)
         /\ Load(u.heap, u.buf.data, b.size) = v
<1>1. PICK D, s, H, n : D = g.buf.data /\ s = b.size /\ H = g.heap /\ n = 1
  OBVIOUS
<1>2. /\ Local(h, b, g) /\ GoodHeap(H) /\ Sound(H, g.buf) /\ g.buf.size = s /\ g.buf.cap >= m
      /\ \A a \in Nat : a < s => Load(H, D, a) = Load(h, b.data, a)
  BY <1>1 DEF Grown, Done, Local
<1>3. s \in Nat /\ m \in Nat /\ g.buf.cap \in Nat /\ n \in Nat /\ m = s + 1
  BY <1>1, <1>2, SoundBounds, SizeAssumption
<1>4. D # Null /\ D \in Block \ {Caller} /\ H[D].len = g.buf.cap + 1
  BY <1>1, <1>2, <1>3, SoundBounds, StringAssumption DEF Sound, SoundAs
<1>5. Inside(H, D, s, n)
  BY <1>1, <1>2, <1>3, <1>4 DEF Inside
<1>6. PICK t : t = memset(H, D, s, v, n)
  OBVIOUS
<1>7. /\ SameBut(H, t, D)
      /\ \A a \in Nat : a \in s .. s + n - 1 => Load(t, D, a) = v
      /\ \A a \in Nat : a \notin s .. s + n - 1 => Load(t, D, a) = Load(H, D, a)
  BY <1>2, <1>3, <1>4, <1>5, <1>6, MemsetCells
<1>8. Load(t, D, s) = v /\ \A a \in Nat : a < s => Load(t, D, a) = Load(H, D, a)
  BY <1>1, <1>3, <1>7
<1>9. \A a \in Nat : a < m => Load(t, D, a) # Undef
  <2> SUFFICES ASSUME NEW a \in Nat, a < m PROVE Load(t, D, a) # Undef
    OBVIOUS
  <2>1. CASE a < s
    BY <1>1, <1>2, <1>8, <2>1, SoundCells
  <2>2. CASE a = s
    BY <1>8, <2>2, MemoryAssumption
  <2> QED BY <1>3, <2>1, <2>2
<1>10. u = Sized(Ok(t, g.buf), m)
  BY <1>1, <1>5, <1>6 DEF Ok
<1>11. g.buf.data # Null /\ SameBut(g.heap, t, g.buf.data) /\ m <= g.buf.cap
       /\ \A a \in Nat : a < m => Load(t, g.buf.data, a) # Undef
  BY <1>1, <1>2, <1>3, <1>4, <1>7, <1>9
<1>12. /\ Done(h, b, u) /\ u.code = "ok" /\ u.buf.size = m /\ u.buf.data = g.buf.data
       /\ \A a \in Nat : a < m => Load(u.heap, g.buf.data, a) = Load(t, g.buf.data, a)
  BY <1>2, <1>3, <1>10, <1>11, SizedDone
<1>13. \A a \in Nat : a < s => a < m
  BY <1>3
<1>14. s < m
  BY <1>3
<1> QED BY <1>1, <1>2, <1>3, <1>8, <1>12, <1>13, <1>14

\* The call ended with some code and changed nothing.
Refused(h, b, o) == \E code : o = Outcome(code, h, b, FALSE)

\* Changing nothing leaves the string as it was.
LEMMA SameDone ==
  ASSUME NEW h, GoodHeap(h), NEW b, Sound(h, b), Ended(h, b), NEW o, Refused(h, b, o)
  PROVE  Done(h, b, o) /\ o.heap = h /\ o.buf = b
<1>1. PICK code : o = Outcome(code, h, b, FALSE)
  BY DEF Refused
<1>2. Local(h, b, o)
  BY <1>1, SameLocal
<1>3. o.heap = h /\ o.buf = b
  BY <1>1 DEF Outcome
<1> QED BY <1>2, <1>3 DEF Done

\* append of one byte keeps the invariant.
LEMMA AppendCharStr ==
  ASSUME NEW K, StrInv(K), NEW x \in Obj, x \in K, NEW v \in Byte, AppendChar(x, v)
  PROVE  StrInv(K)'
<1>1. PICK b : b = obj[x]
  OBVIOUS
<1>2. Inv(K) /\ GoodHeap(heap) /\ Sound(heap, b) /\ Ended(heap, b)
  BY <1>1 DEF StrInv, Inv
<1>3. PICK m : m = checked_add(b.size, 1)
  OBVIOUS
<1>4. b.size \in Size /\ 1 \in Size /\ b.size \in Nat
  BY <1>2, SoundBounds, SizeAssumption
<1>5. m = IF b.size + 1 \in Size THEN b.size + 1 ELSE Nullopt
  BY <1>3, <1>4, CheckedAddExact
<1> DEFINE Put(g) == Outcome("ok", memset(g.heap, g.buf.data, b.size, v, 1), g.buf,
                             ~ Inside(g.heap, g.buf.data, b.size, 1))
<1>6. PICK g \in IF m = Nullopt THEN {Outcome("overflow", heap, b, FALSE)} ELSE grow_to_at_least(heap, b, m) :
        Ends(<<"append_char", x, v>>, x, IF g.code = "ok" THEN Sized(Put(g), m) ELSE g)
  BY <1>1, <1>3 DEF AppendChar
<1>7. x \in alive
  BY DEF AppendChar
<1>8. PICK o : o = IF g.code = "ok" THEN Sized(Put(g), m) ELSE g
  OBVIOUS
<1>9. CASE m = Nullopt
  <2>1. Refused(heap, b, g) /\ g.code # "ok"
    BY <1>6, <1>9 DEF Refused, Outcome
  <2>2. Done(heap, b, g)
    BY <1>2, <2>1, SameDone
  <2> QED BY <1>1, <1>6, <1>7, <2>1, <2>2, EndsStr
<1>10. CASE m # Nullopt
  <2>1. m \in Size /\ m = b.size + 1
    BY <1>5, <1>10
  <2>2. Grown(heap, b, m, g)
    BY <1>2, <1>6, <1>10, <2>1, GrowGrown
  <2>3. CASE g.code # "ok"
    BY <1>1, <1>6, <1>7, <2>2, <2>3, EndsStr DEF Grown
  <2>4. CASE g.code = "ok"
    <3>1. o = Sized(Put(g), m)
      BY <1>8, <2>4
    <3>2. Done(heap, b, o)
      BY <1>2, <2>1, <2>2, <2>4, <3>1, PushDone
    <3>3. Ends(<<"append_char", x, v>>, x, o)
      BY <1>6, <1>8
    <3> QED BY <1>1, <1>7, <3>2, <3>3, EndsStr
  <2> QED BY <2>3, <2>4
<1> QED BY <1>9, <1>10

\* The bytes of an argument that is not null: written, unless the call is one
\* that has to be refused for its length.
LEMMA Passed ==
  ASSUME NEW K, StrInv(K), NEW x \in Obj, x \in K, NEW s \in Source, Within(K, s), s.len # 0, NEW m \in Nat,
         s.of = Null \/ Readable(s, 1) \/ (s.of = Caller /\ m >= MAX_ALLOC_BYTES)
  PROVE  /\ s.of # Null => target(s) # Null
         /\ s.of # Null /\ m < MAX_ALLOC_BYTES => Written(heap, target(s), s.off, s.len)
         /\ s.of # Null /\ target(s) = obj[x].data =>
              s.of = x /\ s.off + s.len <= obj[x].size + 1 /\ s.off <= obj[x].size
<1>1. Inv(K) /\ obj[x].size \in Nat /\ s.off \in Nat /\ s.len \in Nat /\ MAX_ALLOC_BYTES \in Nat
  <2>1. Inv(K) /\ GoodHeap(heap) /\ Sound(heap, obj[x])
    BY DEF StrInv, Inv
  <2>2. obj[x].size \in Nat
    BY <2>1, SoundBounds
  <2> QED BY <2>1, <2>2, SourceType, SizeAssumption
<1>2. Readable(s, 1) =>
        /\ Written(heap, target(s), s.off, s.len)
        /\ target(s) = obj[x].data => s.of = x /\ s.off + s.len <= obj[x].size + 1
  BY SourceWritten
<1>3. s.of = Caller => target(s) = Caller /\ target(s) # obj[x].data
  BY <1>1, SourceType, ContainerAssumption, MemoryAssumption DEF target
<1>4. Readable(s, 1) => target(s) # Null
  BY <1>2, MemoryAssumption DEF Written
<1> QED BY <1>1, <1>2, <1>3, <1>4, MemoryAssumption

\* The n bytes from offset off of block p can be appended to string x: they
\* are there if the result can fit, and a view of x itself leaves out the
\* terminator when x fills its capacity.
AppendReady(x, p, off, n) ==
  /\ off \in Nat /\ n \in Size
  /\ n # 0 /\ p # Null /\ obj[x].size + n < MAX_ALLOC_BYTES => Written(heap, p, off, n)
  /\ n # 0 /\ p # Null /\ p = obj[x].data => off + n <= obj[x].size + 1 /\ off < obj[x].cap

\* So can whatever a caller of append may pass.
LEMMA SourceReady ==
  ASSUME NEW K, StrInv(K), NEW x \in Obj, x \in K, NEW s \in Source, Within(K, s), ~ AtCapacity(x, s),
         MayPass(s, 1, obj[x].size + s.len >= MAX_ALLOC_BYTES)
  PROVE  AppendReady(x, target(s), s.off, s.len)
<1>1. /\ Inv(K) /\ obj[x].size \in Nat /\ obj[x].cap \in Nat /\ obj[x].size <= obj[x].cap
      /\ s.off \in Nat /\ s.len \in Size /\ s.len \in Nat /\ (s.of = Null => target(s) = Null)
  <2>1. Inv(K) /\ GoodHeap(heap) /\ Sound(heap, obj[x])
    BY DEF StrInv, Inv
  <2> QED BY <2>1, SoundBounds, SourceType
<1>2. PICK m : m = obj[x].size + s.len /\ m \in Nat
  <2>1. obj[x].size + s.len \in Nat
    BY <1>1
  <2> QED BY <2>1
<1>3. s.of = Null \/ Readable(s, 1) \/ (s.of = Caller /\ m >= MAX_ALLOC_BYTES)
  BY <1>2 DEF MayPass
<1>4. s.len # 0 =>
        /\ s.of # Null /\ m < MAX_ALLOC_BYTES => Written(heap, target(s), s.off, s.len)
        /\ s.of # Null /\ target(s) = obj[x].data =>
             s.of = x /\ s.off + s.len <= obj[x].size + 1 /\ s.off <= obj[x].size
  BY <1>2, <1>3, Passed
<1>5. ASSUME s.len # 0, target(s) # Null, target(s) = obj[x].data
      PROVE  s.off + s.len <= obj[x].size + 1 /\ s.off < obj[x].cap
  <2>1. s.of = x /\ s.off + s.len <= obj[x].size + 1 /\ s.off <= obj[x].size
    BY <1>1, <1>4, <1>5
  <2>2. s.off # obj[x].cap
    BY <1>1, <1>5, <2>1 DEF AtCapacity
  <2> QED BY <1>1, <2>1, <2>2
<1> QED BY <1>1, <1>2, <1>4, <1>5 DEF AppendReady

\* append leaves a terminated string.
LEMMA AppendDone ==
  ASSUME NEW K, StrInv(K), NEW x \in Obj, x \in K, NEW b, b = obj[x],
         NEW p, NEW off, NEW n, AppendReady(x, p, off, n), NEW o \in append(heap, b, p, off, n)
  PROVE  Done(heap, b, o)
<1>1. Inv(K) /\ GoodHeap(heap) /\ Sound(heap, b) /\ Ended(heap, b)
  BY DEF StrInv, Inv
<1>2. /\ b.size \in Nat /\ b.size \in Size /\ b.size <= b.cap /\ b.cap \in Nat
      /\ off \in Nat /\ n \in Size /\ n \in Nat
  BY <1>1, SoundBounds, SizeAssumption DEF Sound, SoundAs, Header, AppendReady
<1>3. PICK m : m = checked_add(b.size, n)
  OBVIOUS
<1>4. m = IF b.size + n \in Size THEN b.size + n ELSE Nullopt
  BY <1>2, <1>3, CheckedAddExact
<1>5. CASE n = 0 \/ p = Null \/ m = Nullopt
  <2>1. Refused(heap, b, o)
    BY <1>3, <1>5 DEF append, Refused
  <2> QED BY <1>1, <2>1, SameDone
<1>6. CASE n # 0 /\ p # Null /\ m # Nullopt
  <2>1. m \in Size /\ m = b.size + n
    BY <1>4, <1>6
  <2>2. PICK to : to = b.size
    OBVIOUS
  <2>3. PICK g \in copy_in_possibly_aliased(heap, b, to, p, off, n, m) :
          o = IF g.code = "ok" THEN Sized(g, m) ELSE g
    BY <1>3, <1>6, <2>2 DEF append
  <2>4. CopyReady(heap, b, to, p, off, n, m)
    BY <1>1, <1>2, <1>6, <2>1, <2>2 DEF CopyReady, AppendReady
  <2>5. /\ g.code = "ok" => Filled(heap, b, to, p, off, n, Sized(g, m))
        /\ g.code # "ok" => Done(heap, b, g)
    BY <2>4, CopyInDone
  <2> QED BY <2>3, <2>5 DEF Filled
<1> QED BY <1>5, <1>6

\* append keeps the invariant.
LEMMA AppendBytesStr ==
  ASSUME "view_at_capacity" \in Excluded, NEW K, StrInv(K), NEW x \in Obj, x \in K,
         NEW s \in Source, Within(K, s), AppendBytes(x, s)
  PROVE  StrInv(K)'
<1>1. PICK b, p, off, n : b = obj[x] /\ p = target(s) /\ off = s.off /\ n = s.len
  OBVIOUS
<1>2. PICK o \in append(heap, b, p, off, n) : Ends(<<"append", x, s>>, x, o)
  BY <1>1 DEF AppendBytes
<1>3. x \in alive /\ ~ AtCapacity(x, s) /\ MayPass(s, 1, obj[x].size + s.len >= MAX_ALLOC_BYTES)
  BY DEF AppendBytes, Avoid
<1>4. AppendReady(x, p, off, n)
  BY <1>1, <1>3, SourceReady
<1>5. Done(heap, b, o)
  BY <1>1, <1>4, AppendDone
<1> QED BY <1>1, <1>2, <1>3, <1>5, EndsStr

\* assign keeps the invariant: a view of the string's own terminator is one
\* byte long and needs no more room than there is.
LEMMA AssignStr ==
  ASSUME NEW K, StrInv(K), NEW x \in Obj, x \in K, NEW s \in Source, Within(K, s), Assign(x, s)
  PROVE  StrInv(K)'
<1>1. PICK b, p, off, n : b = obj[x] /\ p = target(s) /\ off = s.off /\ n = s.len
  OBVIOUS
<1>2. Inv(K) /\ GoodHeap(heap) /\ Sound(heap, b) /\ Ended(heap, b)
  BY <1>1 DEF StrInv, Inv
<1>3. PICK o \in IF n = 0 THEN {clear(heap, b)}
                 ELSE IF p = Null THEN {Outcome("null_pointer", heap, b, FALSE)}
                 ELSE {IF g.code = "ok" THEN Sized(g, n) ELSE g
                         : g \in copy_in_possibly_aliased(heap, b, 0, p, off, n, n)} :
        Ends(<<"assign", x, s>>, x, o)
  BY <1>1 DEF Assign
<1>4. x \in alive
  BY DEF Assign
<1>5. /\ b.size \in Nat /\ b.size \in Size /\ b.size <= b.cap /\ b.cap \in Nat
      /\ b.data # Null => b.cap > 0
      /\ off \in Nat /\ n \in Nat /\ n \in Size /\ (s.of = Null => p = Null)
  BY <1>1, <1>2, SoundBounds, SourceType DEF Sound, SoundAs, Header
<1>6. Done(heap, b, o)
  <2>1. CASE n = 0
    <3>1. Local(heap, b, Ok(heap, b))
      BY <1>2, SameLocal DEF Ok
    <3> QED BY <1>2, <1>3, <2>1, <3>1, ClearDone
  <2>2. CASE n # 0 /\ p = Null
    <3>1. Refused(heap, b, o)
      BY <1>3, <2>2 DEF Refused
    <3> QED BY <1>2, <3>1, SameDone
  <2>3. CASE n # 0 /\ p # Null
    <3>1. PICK to : to = 0
      OBVIOUS
    <3>2. PICK g \in copy_in_possibly_aliased(heap, b, to, p, off, n, n) :
            o = IF g.code = "ok" THEN Sized(g, n) ELSE g
      BY <1>3, <2>3, <3>1
    <3>3. s.of = Null \/ Readable(s, 1) \/ (s.of = Caller /\ n >= MAX_ALLOC_BYTES)
      BY <1>1 DEF Assign, MayPass
    <3>4. /\ n < MAX_ALLOC_BYTES => Written(heap, p, off, n)
          /\ p = b.data => s.of = x /\ off + n <= b.size + 1 /\ off <= b.size
      BY <1>1, <1>5, <2>3, <3>3, Passed
    <3>5. p = b.data => off < b.cap \/ n <= b.cap
      BY <1>5, <2>3, <3>4
    <3>6. to \in Nat /\ to <= b.size /\ n = to + n /\ n \in Size \ {0}
      BY <1>5, <2>3, <3>1
    <3>7. p = b.data /\ p # Null => off + n <= b.size + 1 /\ (off < b.cap \/ n <= b.cap)
      BY <3>4, <3>5
    <3>8. /\ g.code = "ok" => Filled(heap, b, to, p, off, n, Sized(g, n))
          /\ g.code # "ok" => Done(heap, b, g)
      <4>1. CopyReady(heap, b, to, p, off, n, n)
        BY <1>2, <1>5, <2>3, <3>4, <3>6, <3>7 DEF CopyReady
      <4> QED BY <3>2, <4>1, CopyInDone
    <3> QED BY <3>2, <3>8 DEF Filled
  <2> QED BY <2>1, <2>2, <2>3
<1> QED BY <1>1, <1>3, <1>4, <1>6, EndsStr

\* insert keeps the invariant.
LEMMA InsertStr ==
  ASSUME Careful, NEW K, StrInv(K), NEW x \in Obj, x \in K, NEW pos \in Size, NEW s \in Source, Within(K, s), Insert(x, pos, s)
  PROVE  StrInv(K)'
<1>1. PICK b, p, off, n : b = obj[x] /\ p = target(s) /\ off = s.off /\ n = s.len
  OBVIOUS
<1>2. Inv(K) /\ GoodHeap(heap) /\ Sound(heap, b) /\ Ended(heap, b)
  BY <1>1 DEF StrInv, Inv
<1>6. PICK m : m = checked_add(b.size, n)
  OBVIOUS
<1>3. PICK o \in IF pos > b.size THEN {Outcome("out_of_range", heap, b, FALSE)}
                 ELSE IF n = 0 THEN {Outcome("ok", heap, b, FALSE)}
                 ELSE IF m = Nullopt THEN {Outcome("overflow", heap, b, FALSE)}
                 ELSE splice(heap, b, pos, 0, p, off, n, m) :
        Ends(<<"insert", x, pos, s>>, x, o)
  BY <1>1, <1>6 DEF Insert
<1>4. x \in alive /\ ~ AtCapacity(x, s) /\ ~ EndsBehind(x, s, pos) /\ (s.of = Null => n = 0)
  BY <1>1 DEF Insert, Avoid, Careful, View
<1>5. /\ b.size \in Nat /\ b.size \in Size /\ b.size <= b.cap /\ b.cap \in Nat /\ pos \in Nat
      /\ off \in Nat /\ n \in Nat /\ n \in Size /\ p \in Block \cup {Null}
  BY <1>1, <1>2, SoundBounds, SourceType, SizeAssumption DEF Sound, SoundAs, Header
<1>7. m = IF b.size + n \in Size THEN b.size + n ELSE Nullopt
  BY <1>5, <1>6, CheckedAddExact
<1>8. Done(heap, b, o)
  <2>1. CASE pos > b.size \/ n = 0 \/ m = Nullopt
    <3>1. Refused(heap, b, o)
      BY <1>3, <2>1 DEF Refused
    <3> QED BY <1>2, <3>1, SameDone
  <2>2. CASE ~(pos > b.size \/ n = 0 \/ m = Nullopt)
    <3>1. m \in Size /\ m \in Nat /\ m = b.size + n /\ pos <= b.size /\ n # 0 /\ s.of # Null
      BY <1>4, <1>5, <1>7, <2>2, SizeAssumption
    <3>2. PICK length : length = 0
      OBVIOUS
    <3>3. o \in splice(heap, b, pos, length, p, off, n, m)
      BY <1>3, <2>2, <3>2
    <3>4. s.of = Null \/ Readable(s, 1) \/ (s.of = Caller /\ m >= MAX_ALLOC_BYTES)
      BY <1>1, <3>1 DEF Insert, MayPass
    <3>5. /\ p # Null
          /\ m < MAX_ALLOC_BYTES => Written(heap, p, off, n)
          /\ p = b.data => s.of = x /\ off + n <= b.size + 1 /\ off <= b.size
      BY <1>1, <1>5, <3>1, <3>4, Passed
    <3>6. p = b.data => off < b.cap /\ (off + n <= b.size \/ off < pos)
      BY <1>1, <1>4, <1>5, <3>1, <3>5 DEF AtCapacity, EndsBehind
    <3>7. /\ length \in Nat /\ pos = pos + length /\ m + length = b.size + n
          /\ n # 0 => p # Null
          /\ n = 0 => b.data # Null
          /\ n # 0 /\ m < MAX_ALLOC_BYTES => Written(heap, p, off, n)
          /\ n # 0 /\ p = b.data => /\ off + n <= b.size + 1 /\ off < b.cap
                                    /\ off + n <= b.size \/ off < pos \/ n = length
      BY <1>5, <3>1, <3>2, <3>5, <3>6
    <3>8. /\ o.code # "ok" => Done(heap, b, o)
          /\ o.code = "ok" => Spliced(heap, b, pos, pos, n, o)
      <4>1. Clean(heap, b, pos, length, pos, p, off, n, m)
        BY <1>2, <1>5, <3>1, <3>7 DEF Clean
      <4> QED BY <3>3, <4>1, SpliceDone
    <3> QED BY <3>8 DEF Spliced
  <2> QED BY <2>1, <2>2
<1> QED BY <1>1, <1>3, <1>4, <1>8, EndsStr

\* replace keeps the invariant.
LEMMA ReplaceStr ==
  ASSUME Careful, NEW K, StrInv(K), NEW x \in Obj, x \in K, NEW pos \in Size, NEW length \in Size, NEW s \in Source, Within(K, s),
         Replace(x, pos, length, s)
  PROVE  StrInv(K)'
<1>1. PICK b, p, off, n : b = obj[x] /\ p = target(s) /\ off = s.off /\ n = s.len
  OBVIOUS
<1>2. Inv(K) /\ GoodHeap(heap) /\ Sound(heap, b) /\ Ended(heap, b)
  BY <1>1 DEF StrInv, Inv
<1>6. PICK code, m : code = RangeCode(pos, length, b.size) /\ m = checked_add(checked_sub(b.size, length), n)
  OBVIOUS
<1>3. PICK o \in IF code # "ok" THEN {Outcome(code, heap, b, FALSE)}
                 ELSE IF m = Nullopt THEN {Outcome("overflow", heap, b, FALSE)}
                 ELSE splice(heap, b, pos, length, p, off, n, m) :
        Ends(<<"replace", x, pos, length, s>>, x, o)
  BY <1>1, <1>6 DEF Replace
<1>4. /\ x \in alive /\ ~ AtCapacity(x, s) /\ (s.of = Null => n = 0)
      /\ ~ (EndsBehind(x, s, pos + length) /\ n # length)
      /\ ~ (b.data = Null /\ n = 0)
  BY <1>1 DEF Replace, Avoid, Careful, View
<1>5. /\ b.size \in Nat /\ b.size \in Size /\ b.size <= b.cap /\ b.cap \in Nat /\ pos \in Nat
      /\ off \in Nat /\ n \in Nat /\ n \in Size /\ p \in Block \cup {Null} /\ length \in Nat
  BY <1>1, <1>2, SoundBounds, SourceType, SizeAssumption DEF Sound, SoundAs, Header
<1>8. Done(heap, b, o)
  <2>1. CASE code # "ok" \/ m = Nullopt
    <3>1. Refused(heap, b, o)
      BY <1>3, <2>1 DEF Refused
    <3> QED BY <1>2, <3>1, SameDone
  <2>2. CASE ~(code # "ok" \/ m = Nullopt)
    <3>1. range_in_bounds(pos, length, b.size)
      BY <1>6, <2>2 DEF RangeCode
    <3>2. pos + length <= b.size
      BY <1>5, <3>1, CheckedAddExact DEF range_in_bounds
    <3>3. PICK d : d = b.size - length
      OBVIOUS
    <3>4. d \in Nat /\ d \in Size /\ checked_sub(b.size, length) = d
      BY <1>5, <3>2, <3>3, SizeAssumption DEF checked_sub, Wrap
    <3>5. m \in Size /\ m \in Nat /\ m = d + n
      BY <1>5, <1>6, <2>2, <3>4, CheckedAddExact, SizeAssumption
    <3>6. PICK tail : tail = pos + length
      OBVIOUS
    <3>7. o \in splice(heap, b, pos, length, p, off, n, m)
      BY <1>3, <2>2
    <3>8. s.of = Null \/ Readable(s, 1) \/ (s.of = Caller /\ m >= MAX_ALLOC_BYTES)
      BY <1>1, <3>3, <3>5 DEF Replace, MayPass
    <3>9. n # 0 => /\ p # Null
                   /\ m < MAX_ALLOC_BYTES => Written(heap, p, off, n)
                   /\ p = b.data => s.of = x /\ off + n <= b.size + 1 /\ off <= b.size
      BY <1>1, <1>4, <1>5, <3>5, <3>8, Passed
    <3>10. n # 0 /\ p = b.data => off < b.cap /\ (off + n <= b.size \/ off < tail \/ n = length)
      BY <1>1, <1>4, <1>5, <3>6, <3>9 DEF AtCapacity, EndsBehind
    <3>11. /\ tail \in Nat /\ tail = pos + length /\ tail <= b.size /\ m + length = b.size + n
           /\ n # 0 => p # Null
           /\ n = 0 => b.data # Null
           /\ n # 0 /\ m < MAX_ALLOC_BYTES => Written(heap, p, off, n)
           /\ n # 0 /\ p = b.data => /\ off + n <= b.size + 1 /\ off < b.cap
                                     /\ off + n <= b.size \/ off < tail \/ n = length
      BY <1>4, <1>5, <3>2, <3>3, <3>5, <3>6, <3>9, <3>10
    <3>12. /\ o.code # "ok" => Done(heap, b, o)
           /\ o.code = "ok" => Spliced(heap, b, pos, tail, n, o)
      <4>1. Clean(heap, b, pos, length, tail, p, off, n, m)
        BY <1>2, <1>5, <3>5, <3>11 DEF Clean
      <4> QED BY <3>7, <4>1, SpliceDone
    <3> QED BY <3>12 DEF Spliced
  <2> QED BY <2>1, <2>2
<1> QED BY <1>1, <1>3, <1>4, <1>8, EndsStr

\* In a program of strings alone every source is within its own kind.
LEMMA WithinObj ==
  ASSUME NEW s
  PROVE  Within(Obj, s)
BY DEF Within

\* Every step of a string program keeps the invariant.
LEMMA NextStr ==
  ASSUME Careful, StrInv(Obj), [Next]_vars
  PROVE  StrInv(Obj)'
<1>1. CASE UNCHANGED vars
  BY <1>1 DEF vars, StrInv, Ended, Load, Inv, GoodHeap, Sound, SoundAs, Live
<1>2. CASE Next
  <2>1. CASE LifetimeNext
    <3>1. PICK x \in Obj, y \in Obj :
            Construct(x) \/ Destroy(x) \/ MoveConstruct(x, y) \/ MoveAssign(x, y)
      BY <2>1 DEF LifetimeNext
    <3> QED BY <3>1, LifetimeStr
  <2>2. ASSUME NEW x \in Obj, Clear(x) \/ SecureClear(x) PROVE StrInv(Obj)'
    BY <2>2, InPlaceStr
  <2>3. ASSUME NEW x \in Obj, NEW y \in Obj, Clone(x, y) PROVE StrInv(Obj)'
    BY <2>3, FactoryStr
  <2>4. ASSUME NEW x \in Obj, NEW y \in Obj, NEW pos \in Size, NEW n \in Size, Substr(x, y, pos, n)
        PROVE  StrInv(Obj)'
    BY <2>4, FactoryStr
  <2>5. ASSUME NEW x \in Obj, NEW n \in Size, WithCapacity(x, n) \/ Reserve(x, n) \/ At(x, n) PROVE StrInv(Obj)'
    BY <2>5, FactoryStr, InPlaceStr, ReadersStr
  <2>6. ASSUME NEW x \in Obj, NEW n \in Size, NEW out \in BOOLEAN, CopyToCstr(x, out, n) PROVE StrInv(Obj)'
    BY <2>6, ReadersStr
  <2>7. ASSUME NEW x \in Obj, NEW v \in Byte, AppendChar(x, v) PROVE StrInv(Obj)'
    BY <2>7, AppendCharStr
  <2>8. ASSUME NEW x \in Obj, NEW s \in Source, FromBytes(x, s) \/ FromCstr(x, s) PROVE StrInv(Obj)'
    BY <2>8, WithinObj, FactoryStr
  <2>9. ASSUME NEW x \in Obj, NEW s \in Source, AppendBytes(x, s) \/ Assign(x, s) PROVE StrInv(Obj)'
    BY <2>9, WithinObj, AppendBytesStr, AssignStr DEF Careful
  <2>10. ASSUME NEW x \in Obj, NEW s \in Source, NEW pos \in Size, Insert(x, pos, s) PROVE StrInv(Obj)'
    BY <2>10, WithinObj, InsertStr
  <2>11. ASSUME NEW x \in Obj, NEW s \in Source, NEW pos \in Size, NEW n \in Size, Replace(x, pos, n, s)
         PROVE  StrInv(Obj)'
    BY <2>11, WithinObj, ReplaceStr
  <2> QED BY <1>2, <2>1, <2>2, <2>3, <2>4, <2>5, <2>6, <2>7, <2>8, <2>9, <2>10, <2>11 DEF Next
<1> QED BY <1>1, <1>2

-----------------------------------------------------------------------------
(***************************************************************************)
(* What is left in a string's block past its last byte.                    *)
(***************************************************************************)

\* A record with the four fields of an outcome.
IsOutcome(o) == \E code, g, b, bad : o = Outcome(code, g, b, bad)

\* The terminator is a zero.
LEMMA TerminatedKeeps ==
  ASSUME NEW h, NEW b, NEW o, Keeps(h, b, o), NEW u, u = Terminated(o)
  PROVE  Keeps(h, b, u) /\ IsOutcome(u) /\ u.buf = o.buf /\ u.code = "ok"
<1>1. PICK n, v, m, to : n = 1 /\ v = 0 /\ m = o.buf.size /\ to = o.buf.size
  OBVIOUS
<1>2. o.buf \in Header /\ m \in Size /\ to \in Size
  BY <1>1 DEF Keeps, Tidy, Header
<1>3. n \in Nat /\ v \in Byte /\ m \in Nat /\ to \in Nat
  BY <1>1, <1>2, SizeAssumption, MemoryAssumption
<1>4. \A a \in Nat : a >= m => IF a \in to .. to + n - 1 THEN v = 0 ELSE a >= o.buf.size
  BY <1>1
<1>5. u.heap = memset(o.heap, o.buf.data, to, v, n) /\ u.buf = o.buf /\ u.code = "ok" /\ IsOutcome(u)
  BY <1>1 DEF Terminated, Outcome, IsOutcome
<1>6. u.buf = [data |-> o.buf.data, size |-> m, cap |-> o.buf.cap]
  BY <1>1, <1>2, <1>5 DEF Header
<1> QED BY <1>2, <1>3, <1>4, <1>5, <1>6, MemsetKeeps

\* Setting the size after a store that is blank from there on.
LEMMA SizedKeeps ==
  ASSUME NEW h, NEW b, NEW g, Keeps(h, b, g), NEW m \in Size, NEW t, Trims(g.heap, t, g.buf.data, m),
         NEW o, IsOutcome(o), o.heap = t, o.buf = g.buf, NEW u, u = Sized(o, m)
  PROVE  Keeps(h, b, u) /\ IsOutcome(u) /\ u.buf.size = m
<1>1. PICK w : w = [o EXCEPT !.buf.size = m]
  OBVIOUS
<1>2. o.buf \in Header
  BY DEF Keeps, Tidy
<1>3. w.heap = t /\ w.buf = [o.buf EXCEPT !.size = m]
  BY <1>1 DEF IsOutcome, Outcome
<1>4. w.buf = [data |-> g.buf.data, size |-> m, cap |-> g.buf.cap]
  BY <1>2, <1>3, SizeField
<1>5. Keeps(h, b, w) /\ w.buf.size = m
  BY <1>3, <1>4, ThenTrims
<1>6. u = Terminated(w)
  BY <1>1 DEF Sized
<1> QED BY <1>5, <1>6, TerminatedKeeps

\* Filling a string with n bytes from anywhere, up to its new size.
LEMMA FilledKeeps ==
  ASSUME NEW h, NEW b, NEW g, Keeps(h, b, g), IsOutcome(g), NEW m \in Size, g.buf.size <= m,
         NEW to \in Nat, NEW n \in Nat, to + n <= m, NEW q \in Block \cup {Null}, NEW off \in Nat,
         NEW u, u = Sized(Moved(g, to, q, off, n), m)
  PROVE  Keeps(h, b, u)
<1>1. PICK p, k : p = g.buf.data /\ k = g.buf.size
  OBVIOUS
<1>2. g.heap \in [Block -> Chunk] /\ p \in Block \cup {Null} /\ k \in Size /\ Blank(g.heap, p, k)
  BY <1>1 DEF Keeps, Tidy, Header
<1>3. k \in Nat /\ m \in Nat /\ k <= m
  BY <1>1, <1>2, SizeAssumption
<1>4. PICK o : o = Moved(g, to, q, off, n)
  OBVIOUS
<1>5. CASE n = 0
  <2>1. o = g
    BY <1>4, <1>5 DEF Moved
  <2>2. Trims(g.heap, g.heap, p, m)
    <3>1. \A a \in Addr : a >= m => a >= k
      BY <1>3, SizeAssumption DEF Addr
    <3> QED BY <1>2, <3>1 DEF Trims, Blank
  <2> QED BY <1>1, <1>4, <2>1, <2>2, SizedKeeps
<1>6. CASE n # 0
  <2>1. o.heap = memmove(g.heap, p, to, q, off, n) /\ o.buf = g.buf /\ IsOutcome(o)
    BY <1>1, <1>4, <1>6 DEF Moved, Outcome, IsOutcome
  <2>2. Trims(g.heap, memmove(g.heap, p, to, q, off, n), p, m)
    BY <1>2, <1>3, MemmoveTrims
  <2> QED BY <1>1, <1>4, <2>1, <2>2, SizedKeeps
<1> QED BY <1>5, <1>6

\* An outcome that changes nothing.
LEMMA RefusalKeeps ==
  ASSUME NEW h, NEW b, Tidy(h, b), NEW o, \E code, bad : o = Outcome(code, h, b, bad)
  PROVE  Keeps(h, b, o) /\ IsOutcome(o) /\ o.buf.size = b.size
<1>1. o.heap = h /\ o.buf = b
  BY DEF Outcome
<1>2. IsOutcome(o)
  BY DEF IsOutcome
<1>3. Keeps(h, b, o)
  BY <1>1, SameKeeps
<1> QED BY <1>1, <1>2, <1>3

LEMMA ReserveKeeps ==
  ASSUME NEW h, NEW b, Tidy(h, b), NEW n \in Size, NEW o \in reserve_exact(h, b, n)
  PROVE  Keeps(h, b, o) /\ IsOutcome(o) /\ o.buf.size = b.size
<1>0. b.cap \in Nat /\ n \in Nat /\ MAX_ALLOC_BYTES \in Nat
  BY SizeAssumption DEF Tidy, Header
<1>1. PICK len : len = checked_add(n, 1)
  OBVIOUS
<1>2. len # Nullopt => len = n + 1
  <2>1. 1 \in Size
    BY SizeAssumption
  <2> QED BY <1>1, <2>1, CheckedAddExact
<1>3. CASE \E code : o = Outcome(code, h, b, FALSE)
  <2>1. \E code, bad : o = Outcome(code, h, b, bad)
    BY <1>3
  <2> QED BY <2>1, RefusalKeeps
<1>4. ASSUME ~(n <= b.cap), len # Nullopt, ~(len > MAX_ALLOC_BYTES), NEW p \in Room(h, b.data),
             o = Terminated(Outcome("ok", realloc(h, b.data, p, len),
                                    [data |-> p, size |-> b.size, cap |-> n], FALSE))
      PROVE  Keeps(h, b, o) /\ IsOutcome(o) /\ o.buf.size = b.size
  <2>1. PICK g : g = Outcome("ok", realloc(h, b.data, p, len), [data |-> p, size |-> b.size, cap |-> n], FALSE)
    OBVIOUS
  <2>2. /\ g.heap = realloc(h, b.data, p, len) /\ g.buf = [data |-> p, size |-> b.size, cap |-> n]
        /\ g.buf.size = b.size /\ o = Terminated(g)
    BY <1>4, <2>1 DEF Outcome
  <2>3. len \in 0 .. MAX_ALLOC_BYTES /\ b.cap # n
    BY <1>0, <1>2, <1>4
  <2>4. Keeps(h, b, g)
    BY <2>2, <2>3, ReallocKeeps
  <2> QED BY <2>2, <2>4, TerminatedKeeps
<1>5. \/ \E code : o = Outcome(code, h, b, FALSE)
      \/ /\ ~(n <= b.cap) /\ len # Nullopt /\ ~(len > MAX_ALLOC_BYTES)
         /\ \E p \in Room(h, b.data) :
              o = Terminated(Outcome("ok", realloc(h, b.data, p, len),
                                     [data |-> p, size |-> b.size, cap |-> n], FALSE))
  BY <1>1 DEF reserve_exact
<1> QED BY <1>3, <1>4, <1>5

LEMMA GrowKeeps ==
  ASSUME NEW h, NEW b, Tidy(h, b), NEW n \in Size, NEW o \in grow_to_at_least(h, b, n)
  PROVE  Keeps(h, b, o) /\ IsOutcome(o) /\ o.buf.size = b.size
<1>1. CASE n <= b.cap
  <2>1. o = Outcome("ok", h, b, FALSE)
    BY <1>1 DEF grow_to_at_least
  <2> QED BY <2>1, RefusalKeeps
<1>2. CASE ~(n <= b.cap)
  <2>1. PICK w : w = next_capacity(b.cap, n)
    OBVIOUS
  <2>2. w \in Size
    BY <2>1, NextCapacityBounds DEF Tidy, Header
  <2>3. PICK t : t = IF w < n THEN n ELSE w
    OBVIOUS
  <2>4. t \in Size /\ o \in reserve_exact(h, b, t)
    BY <1>2, <2>1, <2>2, <2>3 DEF grow_to_at_least
  <2> QED BY <2>4, ReserveKeeps
<1> QED BY <1>1, <1>2

\* copy_in_possibly_aliased, followed by the new size.
LEMMA CopyInKeeps ==
  ASSUME NEW h, NEW b, Tidy(h, b), NEW to \in Nat, NEW p \in Block \cup {Null}, NEW off \in Nat, NEW n \in Nat,
         NEW m \in Size, m = to + n, b.size <= m, NEW o \in copy_in_possibly_aliased(h, b, to, p, off, n, m),
         NEW u, u = IF o.code = "ok" THEN Sized(o, m) ELSE o
  PROVE  Keeps(h, b, u)
<1>1. PICK al : al = pointer_in_range(p, off, b.data, b.cap)
  OBVIOUS
<1>2. PICK g \in grow_to_at_least(h, b, m) :
        o = IF g.code = "ok" THEN Moved(g, to, IF al THEN g.buf.data ELSE p, off, n) ELSE g
  BY <1>1 DEF copy_in_possibly_aliased
<1>3. Keeps(h, b, g) /\ IsOutcome(g) /\ g.buf.size = b.size /\ g.buf \in Header
  BY <1>2, GrowKeeps DEF Keeps, Tidy
<1>4. CASE g.code # "ok"
  BY <1>2, <1>3, <1>4
<1>5. CASE g.code = "ok"
  <2>1. PICK q : q = IF al THEN g.buf.data ELSE p
    OBVIOUS
  <2>2. q \in Block \cup {Null}
    BY <1>3, <2>1 DEF Header
  <2>3. o = Moved(g, to, q, off, n)
    BY <1>2, <1>5, <2>1
  <2>4. o.code = "ok"
    BY <1>5, <2>3 DEF Moved, Outcome
  <2>5. u = Sized(Moved(g, to, q, off, n), m) /\ g.buf.size <= m /\ to + n <= m
    <3>1. m \in Nat
      BY SizeAssumption
    <3> QED BY <1>3, <2>3, <2>4, <3>1
  <2> QED BY <1>3, <2>2, <2>5, FilledKeeps
<1> QED BY <1>4, <1>5

LEMMA FromBytesKeeps ==
  ASSUME NEW h \in [Block -> Chunk], NEW q \in Block \cup {Null}, NEW off \in Nat, NEW n \in Size,
         NEW o \in from_bytes(h, q, off, n)
  PROVE  Keeps(h, Empty, o)
<1>0. Tidy(h, Empty) /\ Empty.size = 0 /\ n \in Nat
  BY EmptyTidy, SizeAssumption
<1>1. CASE \E code : o = Outcome(code, h, Empty, FALSE)
  BY <1>0, <1>1, RefusalKeeps
<1>2. CASE n # 0 /\ q # Null
  <2>1. PICK to \in Nat : to = 0
    OBVIOUS
  <2>2. PICK g \in with_capacity(h, n) : o = IF g.code = "ok" THEN Sized(Moved(g, to, q, off, n), n) ELSE g
    BY <1>2, <2>1 DEF from_bytes
  <2>3. Keeps(h, Empty, g) /\ IsOutcome(g) /\ g.buf.size = 0
    BY <1>0, <1>2, <2>2, ReserveKeeps DEF with_capacity
  <2>4. g.buf.size <= n /\ to + n <= n
    BY <1>0, <2>1, <2>3
  <2> QED BY <1>0, <2>2, <2>3, <2>4, FilledKeeps
<1> QED BY <1>1, <1>2 DEF from_bytes

LEMMA FromCstrKeeps ==
  ASSUME NEW h \in [Block -> Chunk], NEW q \in Block \cup {Null}, NEW off \in Nat, NEW o \in from_cstr(h, q, off)
  PROVE  Keeps(h, Empty, o)
<1>0. Tidy(h, Empty)
  BY EmptyTidy
<1>1. PICK n : n = bounded_strlen(h, q, off, MAX_ALLOC_BYTES)
  OBVIOUS
<1>2. CASE \E code, bad : o = Outcome(code, h, Empty, bad)
  BY <1>0, <1>2, RefusalKeeps
<1>3. CASE q # Null /\ n # Nullopt
  <2>1. n \in Size
    <3>1. n \in 0 .. MAX_ALLOC_BYTES - 1
      BY <1>1, <1>3, StrlenFinds
    <3> QED BY <3>1, SizeAssumption
  <2>2. PICK u \in from_bytes(h, q, off, n) : \E bad : o = [u EXCEPT !.bad = bad]
    BY <1>1, <1>3 DEF from_cstr
  <2>3. Keeps(h, Empty, u)
    BY <2>1, <2>2, FromBytesKeeps
  <2>4. o.heap = u.heap /\ o.buf = u.buf
    BY <2>2, FromBytesRecorded DEF Recorded
  <2> QED BY <2>3, <2>4 DEF Keeps
<1> QED BY <1>1, <1>2, <1>3 DEF from_cstr

\* clear() of a string whose block was made blank.
LEMMA ClearKeeps ==
  ASSUME NEW h, NEW b, Tidy(h, b), NEW t, NEW k, k = 0, Trims(h, t, b.data, k), NEW o, o = clear(t, b)
  PROVE  Keeps(h, b, o)
<1>1. PICK g, w : g = Outcome("ok", h, b, FALSE) /\ w = Outcome("ok", t, [b EXCEPT !.size = k], FALSE)
  OBVIOUS
<1>2. g.heap = h /\ g.buf = b /\ Keeps(h, b, g) /\ b \in Header
  BY <1>1, RefusalKeeps DEF Outcome, Tidy
<1>3. w.heap = t /\ w.buf = [data |-> g.buf.data, size |-> k, cap |-> g.buf.cap]
  BY <1>1, <1>2, SizeField DEF Outcome
<1>4. k \in Size
  BY SizeAssumption
<1>5. Keeps(h, b, w)
  BY <1>2, <1>3, <1>4, ThenTrims
<1>6. o = w \/ o = Terminated(w)
  BY <1>1 DEF clear
<1> QED BY <1>5, <1>6, TerminatedKeeps

\* secure_clear() leaves nothing in the block at all.
LEMMA ClearTrims ==
  ASSUME NEW h, NEW b, Tidy(h, b), NEW t, NEW k, k = 0, Trims(h, t, b.data, k), NEW o, o = clear(t, b)
  PROVE  Trims(h, o.heap, b.data, k)
<1>1. PICK w : w = Outcome("ok", t, [b EXCEPT !.size = k], FALSE)
  OBVIOUS
<1>2. w.heap = t /\ w.buf = [data |-> b.data, size |-> k, cap |-> b.cap] /\ w.buf.size = k /\ w.buf.data = b.data
  BY <1>1, SizeField DEF Outcome, Tidy
<1>3. (b.data = Null /\ o = w) \/ o = Terminated(w)
  BY <1>1 DEF clear
<1>4. CASE o = w
  BY <1>2, <1>4
<1>5. CASE o = Terminated(w)
  <2>1. o.buf = w.buf
    BY <1>5 DEF Terminated, Outcome
  <2>2. Keeps(h, b, o)
    BY ClearKeeps
  <2> QED BY <1>2, <2>1, <2>2 DEF Keeps, Tidy, Trims
<1> QED BY <1>3, <1>4, <1>5

\* The factories.
LEMMA FactoriesKept ==
  ASSUME NEW K, Inv(K), AllBlank, NEW x \in Obj, NEW s \in Source, FromBytes(x, s) \/ FromCstr(x, s)
  PROVE  Kept(x)
<1>1. heap \in [Block -> Chunk] /\ (x \notin alive => obj[x] = Empty)
  BY DEF Inv, GoodHeap
<1>2. PICK q, off, m : q = target(s) /\ off = s.off /\ m = s.len
  OBVIOUS
<1>3. q \in Block \cup {Null} /\ off \in Nat /\ m \in Size
  BY <1>2, SourceExtent
<1>4. PICK z \in Size : z = 0
  BY SizeAssumption
<1>5. PICK c, o : /\ Creates(c, x, o)
                  /\ \/ o \in from_bytes(heap, q, off, m)
                     \/ o \in from_bytes(heap, Null, z, z)
                     \/ o \in from_cstr(heap, q, off)
  BY <1>2, <1>4 DEF FromBytes, FromCstr
<1>6. Keeps(heap, Empty, o)
  <2>1. z \in Nat /\ Null \in Block \cup {Null}
    BY <1>4
  <2> QED BY <1>1, <1>3, <1>5, <2>1, FromBytesKeeps, FromCstrKeeps
<1> QED BY <1>1, <1>5, <1>6, AnswerKept DEF Creates

LEMMA SecureClearKept ==
  ASSUME NEW K, Inv(K), AllBlank, NEW x \in Obj, SecureClear(x)
  PROVE  Kept(x)
<1>1. PICK b, p, k : b = obj[x] /\ p = b.data /\ k = b.size
  OBVIOUS
<1>2. Tidy(heap, b) /\ k \in Nat /\ p \in Block \cup {Null} /\ heap \in [Block -> Chunk] /\ Blank(heap, p, k)
  BY <1>1, ObjectTidy DEF Tidy
<1>3. PICK m, t : m = 0 /\ t = secure_zero(heap, p, k)
  OBVIOUS
<1>4. Trims(heap, t, p, m)
  BY <1>2, <1>3, ZeroTrims
<1>5. PICK o : o = clear(t, b)
  OBVIOUS
<1>6. Answer(<<"secure_clear", x>>, x, o)
  BY <1>1, <1>3, <1>5 DEF SecureClear, Ends
<1>7. Keeps(heap, b, o)
  BY <1>1, <1>2, <1>3, <1>4, <1>5, ClearKeeps
<1> QED BY <1>1, <1>6, <1>7, AnswerKept

LEMMA AppendCharKept ==
  ASSUME NEW K, Inv(K), AllBlank, NEW x \in Obj, NEW v \in Byte, AppendChar(x, v)
  PROVE  Kept(x)
<1>1. PICK b, m, k : b = obj[x] /\ m = checked_add(b.size, 1) /\ k = 1
  OBVIOUS
<1>2. Tidy(heap, b) /\ b.size \in Nat /\ b.size \in Size /\ k \in Nat /\ k \in Size
  <2>1. k \in Nat /\ k \in Size
    BY <1>1, SizeAssumption
  <2> QED BY <1>1, <2>1, ObjectTidy
<1>3. m = IF b.size + 1 \in Size THEN b.size + 1 ELSE Nullopt
  BY <1>1, <1>2, CheckedAddExact
<1> DEFINE Put(g) == Outcome("ok", memset(g.heap, g.buf.data, b.size, v, k), g.buf,
                             ~ Inside(g.heap, g.buf.data, b.size, k))
<1>4. PICK g \in (IF m = Nullopt THEN {Outcome("overflow", heap, b, FALSE)} ELSE grow_to_at_least(heap, b, m)) :
        Answer(<<"append_char", x, v>>, x, IF g.code = "ok" THEN Sized(Put(g), m) ELSE g)
  BY <1>1 DEF AppendChar, Ends
<1>5. CASE m = Nullopt
  <2>1. g = Outcome("overflow", heap, b, FALSE) /\ g.code # "ok"
    BY <1>4, <1>5 DEF Outcome
  <2>2. Keeps(heap, b, g)
    BY <1>2, <2>1, RefusalKeeps
  <2> QED BY <1>1, <1>4, <2>1, <2>2, AnswerKept
<1>6. CASE m # Nullopt
  <2>1. m = b.size + 1 /\ m \in Size /\ m \in Nat
    BY <1>2, <1>3, <1>6
  <2>2. Keeps(heap, b, g) /\ g.buf.size = b.size
    BY <1>2, <1>4, <1>6, <2>1, GrowKeeps
  <2>3. CASE g.code # "ok"
    BY <1>1, <1>4, <2>2, <2>3, AnswerKept
  <2>4. CASE g.code = "ok"
    <3>1. PICK o, u, p, to : o = Put(g) /\ u = Sized(o, m) /\ p = g.buf.data /\ to = b.size
      OBVIOUS
    <3>2. o.heap = memset(g.heap, p, to, v, k) /\ o.buf = g.buf /\ IsOutcome(o)
      BY <3>1 DEF Outcome, IsOutcome
    <3>3. g.heap \in [Block -> Chunk] /\ p \in Block \cup {Null} /\ Blank(g.heap, p, to)
      BY <2>2, <3>1 DEF Keeps, Tidy, Header
    <3>4. \A a \in Nat : a >= m => IF a \in to .. to + k - 1 THEN v = 0 ELSE a >= to
      BY <1>1, <1>2, <2>1, <3>1
    <3>5. to \in Nat
      BY <1>2, <3>1
    <3>6. Trims(g.heap, memset(g.heap, p, to, v, k), p, m)
      BY <1>2, <2>1, <3>3, <3>4, <3>5, MemsetTrims
    <3>7. Keeps(heap, b, u)
      BY <2>1, <2>2, <3>1, <3>2, <3>6, SizedKeeps
    <3> QED BY <1>1, <1>4, <2>4, <3>1, <3>7, AnswerKept
  <2> QED BY <2>3, <2>4
<1> QED BY <1>5, <1>6

LEMMA AppendBytesKept ==
  ASSUME NEW K, Inv(K), AllBlank, NEW x \in Obj, NEW s \in Source, AppendBytes(x, s)
  PROVE  Kept(x)
<1>1. PICK b, p, off, n, m : /\ b = obj[x] /\ p = target(s) /\ off = s.off /\ n = s.len
                             /\ m = checked_add(b.size, n)
  OBVIOUS
<1>2. /\ Tidy(heap, b) /\ b.size \in Nat /\ b.size \in Size
      /\ p \in Block \cup {Null} /\ off \in Nat /\ n \in Size /\ n \in Nat
  BY <1>1, ObjectTidy, SourceExtent
<1>3. m = IF b.size + n \in Size THEN b.size + n ELSE Nullopt
  BY <1>1, <1>2, CheckedAddExact
<1>4. PICK u : /\ Answer(<<"append", x, s>>, x, u)
               /\ \/ \E code : u = Outcome(code, heap, b, FALSE)
                  \/ /\ m # Nullopt
                     /\ \E o \in copy_in_possibly_aliased(heap, b, b.size, p, off, n, m) :
                          u = IF o.code = "ok" THEN Sized(o, m) ELSE o
  BY <1>1 DEF AppendBytes, append, Ends
<1>5. CASE \E code : u = Outcome(code, heap, b, FALSE)
  <2>1. Keeps(heap, b, u)
    BY <1>2, <1>5, RefusalKeeps
  <2> QED BY <1>1, <1>4, <2>1, AnswerKept
<1>6. ASSUME m # Nullopt, NEW o \in copy_in_possibly_aliased(heap, b, b.size, p, off, n, m),
             u = IF o.code = "ok" THEN Sized(o, m) ELSE o
      PROVE  Kept(x)
  <2>1. m = b.size + n /\ m \in Size /\ b.size <= m
    BY <1>2, <1>3, <1>6
  <2>2. PICK to \in Nat : to = b.size
    BY <1>2
  <2>3. Keeps(heap, b, u)
    BY <1>2, <1>6, <2>1, <2>2, CopyInKeeps
  <2> QED BY <1>1, <1>4, <2>3, AnswerKept
<1> QED BY <1>4, <1>5, <1>6

\* assign of contents that are not shorter.
LEMMA AssignKept ==
  ASSUME NEW K, Inv(K), AllBlank, NEW x \in Obj, NEW s \in Source, obj[x].size <= s.len, Assign(x, s)
  PROVE  Kept(x)
<1>1. PICK b, p, off, n, to : b = obj[x] /\ p = target(s) /\ off = s.off /\ n = s.len /\ to = 0
  OBVIOUS
<1>2. /\ Tidy(heap, b) /\ b.size \in Nat /\ p \in Block \cup {Null} /\ off \in Nat /\ n \in Size /\ n \in Nat
      /\ b.size <= n
  BY <1>1, ObjectTidy, SourceExtent
<1>3. PICK u : /\ Answer(<<"assign", x, s>>, x, u)
               /\ \/ n = to /\ u = clear(heap, b)
                  \/ \E code : u = Outcome(code, heap, b, FALSE)
                  \/ \E o \in copy_in_possibly_aliased(heap, b, to, p, off, n, n) :
                       u = IF o.code = "ok" THEN Sized(o, n) ELSE o
  BY <1>1 DEF Assign, Ends
<1>4. CASE n = to /\ u = clear(heap, b)
  <2>1. b.size = to
    BY <1>1, <1>2, <1>4
  <2>2. Trims(heap, heap, b.data, to)
    BY <1>2, <2>1 DEF Tidy, Trims
  <2>3. Keeps(heap, b, u)
    BY <1>1, <1>2, <1>4, <2>2, ClearKeeps
  <2> QED BY <1>1, <1>3, <2>3, AnswerKept
<1>5. CASE \E code : u = Outcome(code, heap, b, FALSE)
  <2>1. Keeps(heap, b, u)
    BY <1>2, <1>5, RefusalKeeps
  <2> QED BY <1>1, <1>3, <2>1, AnswerKept
<1>6. ASSUME NEW o \in copy_in_possibly_aliased(heap, b, to, p, off, n, n),
             u = IF o.code = "ok" THEN Sized(o, n) ELSE o
      PROVE  Kept(x)
  <2>1. to \in Nat /\ n = to + n
    BY <1>1, <1>2
  <2>2. Keeps(heap, b, u)
    BY <1>2, <1>6, <2>1, CopyInKeeps
  <2> QED BY <1>1, <1>3, <2>2, AnswerKept
<1> QED BY <1>3, <1>4, <1>5, <1>6

LEMMA ReserveKept ==
  ASSUME NEW K, Inv(K), AllBlank, NEW x \in Obj, NEW n \in Size, Reserve(x, n)
  PROVE  Kept(x)
<1>1. PICK b : b = obj[x]
  OBVIOUS
<1>2. PICK o \in reserve_exact(heap, b, n) : Answer(<<"reserve", x, n>>, x, o)
  BY <1>1 DEF Reserve, Ends
<1>3. Keeps(heap, b, o)
  BY <1>1, <1>2, ObjectTidy, ReserveKeeps
<1> QED BY <1>1, <1>2, <1>3, AnswerKept

LEMMA CopyToCstrKept ==
  ASSUME NEW K, Inv(K), AllBlank, NEW x \in Obj, NEW out, NEW len, CopyToCstr(x, out, len)
  PROVE  Kept(x)
<1>1. \E c, code, v, bad : Looks(c, code, v, bad)
  BY DEF CopyToCstr
<1> QED BY <1>1, LooksKept

-----------------------------------------------------------------------------
(***************************************************************************)
(* The properties follow from the invariant.                               *)
(***************************************************************************)

\* The invariant holds in every reachable state of a program whose callers
\* are careful.
THEOREM StrInvHolds ==
  ASSUME Careful
  PROVE  Spec => []StrInv(Obj)
<1>1. Init => StrInv(Obj)
  <2> SUFFICES ASSUME Init PROVE StrInv(Obj)
    OBVIOUS
  <2>1. \A x \in Obj : obj[x].data = Null
    BY DEF Init, Empty
  <2> QED BY <2>1, InitInv DEF StrInv, Ended
<1>2. StrInv(Obj) /\ [Next]_vars => StrInv(Obj)'
  BY NextStr
<1> QED BY <1>1, <1>2, PTL DEF Spec

\* The invariant gives what the audit macro and verify() check.
LEMMA StrInvAudit ==
  ASSUME NEW K, StrInv(K), NEW x \in Obj, x \in K
  PROVE  Audit(x) /\ verify(heap, obj[x])
<1>1. Sound(heap, obj[x]) /\ GoodHeap(heap) /\ Ended(heap, obj[x])
  BY DEF StrInv, Inv
<1>2. obj[x].size <= obj[x].cap /\ obj[x].size \in Nat /\ (obj[x].data = Null <=> obj[x].cap = 0)
      /\ (obj[x].data = Null => obj[x].size = 0)
  BY <1>1, SoundBounds DEF Sound, SoundAs
<1> QED BY <1>1, <1>2 DEF Audit, verify, Ended

\* So no string is ever inconsistent.
LEMMA StrInvConsistent ==
  StrInv(Obj) => Consistent
BY StrInvAudit DEF Consistent, StrInv, Inv

\* STRING_AUDIT never fires and verify() never fails: every string keeps its
\* NUL, whatever is appended, inserted, replaced, moved or refused.
THEOREM AlwaysConsistent ==
  ASSUME Careful
  PROVE  Spec => []Consistent
BY StrInvHolds, StrInvConsistent, PTL

\* The invariant gives what every container promises.
LEMMA StrInvImplies ==
  StrInv(Obj) => TypeOK /\ Ownership /\ Initialised /\ NoFault
BY InvImplies DEF StrInv

\* Heap, headers and flags keep their types in every string program.
THEOREM TypeCorrect ==
  ASSUME Careful
  PROVE  Spec => []TypeOK
BY StrInvHolds, StrInvImplies, PTL

\* Every block but the caller's belongs to exactly one string.
THEOREM AlwaysOwned ==
  ASSUME Careful
  PROVE  Spec => []Ownership
BY StrInvHolds, StrInvImplies, PTL

\* No byte below size() is ever unwritten memory.
THEOREM AlwaysInitialised ==
  ASSUME Careful
  PROVE  Spec => []Initialised
BY StrInvHolds, StrInvImplies, PTL

\* No string operation ever reads or writes outside a live block.
THEOREM NeverFaults ==
  ASSUME Careful
  PROVE  Spec => []NoFault
BY StrInvHolds, StrInvImplies, PTL

-----------------------------------------------------------------------------
(***************************************************************************)
(* The refinement: assumptions.                                            *)
(***************************************************************************)

\* The callers avoid all calls after which a string holds the wrong bytes.
Cautious == Careful /\ "inner_view" \in Excluded

\* The limits of a sensible build.  SIZE_MAX is 2^w - 1; what matters of that
\* is that no doubled capacity within the cap is SIZE_MAX itself.  And the cap
\* is not twice the smallest capacity that growth starts from: if it were, the
\* first byte of a string would be refused (disagreement 6 of the README).
SensibleLimits ==
  /\ MAX_ALLOC_BYTES # 2 * kMinGrowth
  /\ MAX_ALLOC_BYTES < SIZE_MAX \/ \A k \in Nat : SIZE_MAX # 2 * k

-----------------------------------------------------------------------------
(***************************************************************************)
(* What a call does to the program as a whole.                             *)
(***************************************************************************)

\* The call c on x makes it hold q or is refused with one of the codes.
Acts(c, x, q, codes) ==
  /\ x \in alive
  /\ \E o : Ends(c, x, o) /\ Leaves(obj[x], q, codes, o)

\* The factory call c makes x hold q or is refused with one of the codes.
Makes(c, x, q, codes) ==
  /\ x \notin alive
  /\ \E o : Creates(c, x, o) /\ Leaves(Empty, q, codes, o)

\* A call on a live string.
LEMMA ActsStep ==
  ASSUME NEW K, Inv(K), NEW x \in Obj, x \in K, NEW c, NEW q, NEW codes, Acts(c, x, q, codes)
  PROVE  call' = c /\ Abs!Becomes(x, q, codes) /\ x \in alive
<1>1. PICK o : Ends(c, x, o) /\ Leaves(obj[x], q, codes, o)
  BY DEF Acts
<1>2. call' = c /\ Turns(x, q, codes)
  BY <1>1, EndsTurns DEF Acts
<1>3. Abs!Becomes(x, q, codes)
  BY <1>2 DEF Turns, Abs!Becomes, Abs!Refuses, Held
<1> QED BY <1>2, <1>3 DEF Acts

\* A factory: a new string with the contents q, or none and a code.
LEMMA MakesStep ==
  ASSUME NEW K, Inv(K), NEW x \in Obj, x \in K, NEW c, NEW q, NEW codes, Makes(c, x, q, codes)
  PROVE  call' = c /\ Abs!Becomes(x, q, codes) /\ x \notin alive
<1>1. PICK o : Creates(c, x, o) /\ Leaves(Empty, q, codes, o)
  BY DEF Makes
<1>2. call' = c /\ Turns(x, q, codes)
  BY <1>1, CreatesTurns
<1>3. Abs!Becomes(x, q, codes)
  BY <1>2 DEF Turns, Abs!Becomes, Abs!Refuses, Held
<1> QED BY <1>2, <1>3 DEF Makes

\* A factory that can only be refused.
LEMMA RefusedStep ==
  ASSUME NEW K, Inv(K), NEW x \in Obj, x \in K, NEW c, NEW q, NEW codes, "ok" \notin codes, Makes(c, x, q, codes)
  PROVE  call' = c /\ Abs!Refuses(codes) /\ x \notin alive
<1>1. PICK o : Creates(c, x, o) /\ Leaves(Empty, q, codes, o)
  BY DEF Makes
<1>2. call' = c /\ Turns(x, q, codes)
  BY <1>1, CreatesTurns
<1>3. Abs!Refuses(codes)
  BY <1>2 DEF Turns, Abs!Refuses, Held
<1> QED BY <1>2, <1>3 DEF Makes

\* A call that can only be refused.
LEMMA RefusedCall ==
  ASSUME NEW K, Inv(K), NEW x \in Obj, x \in K, NEW c, NEW q, NEW codes, "ok" \notin codes, Acts(c, x, q, codes)
  PROVE  call' = c /\ Abs!Refuses(codes) /\ x \in alive
<1>1. PICK o : Ends(c, x, o) /\ Leaves(obj[x], q, codes, o)
  BY DEF Acts
<1>2. call' = c /\ Turns(x, q, codes)
  BY <1>1, EndsTurns DEF Acts
<1>3. Abs!Refuses(codes)
  BY <1>2 DEF Turns, Abs!Refuses, Held
<1> QED BY <1>2, <1>3 DEF Acts

\* A live string, its block, its bytes and its terminator.
LEMMA HeaderFacts ==
  ASSUME NEW K, StrInv(K), NEW x \in Obj, x \in K, NEW b, b = obj[x]
  PROVE  /\ GoodHeap(heap) /\ Sound(heap, b) /\ Ended(heap, b) /\ b \in Header
         /\ b.data \in Block \cup {Null} /\ b.size \in Nat /\ b.cap \in Nat /\ b.size <= b.cap
         /\ b.cap <= MAX_ALLOC_BYTES /\ b.size \in Size
         /\ b.data = Null => b.size = 0 /\ b.cap = 0
         /\ b.data # Null => b.data \in Block \ {Caller} /\ heap[b.data].len = b.cap + 1
                             /\ b.cap + 1 <= MAX_ALLOC_BYTES
         /\ Held[x] \in Seq(Cell) /\ Len(Held[x]) = b.size /\ Bytes(heap, b) = Held[x]
         /\ \A i \in 1 .. b.size : Held[x][i] = Load(heap, b.data, i - 1)
<1>1. Inv(K) /\ GoodHeap(heap) /\ Sound(heap, b) /\ b \in Header /\ Ended(heap, b)
  BY DEF StrInv, Inv
<1>2. b.data \in Block \cup {Null} /\ b.size \in Nat /\ b.cap \in Nat /\ b.size <= b.cap
      /\ b.cap <= MAX_ALLOC_BYTES /\ (b.data = Null => b.size = 0 /\ b.cap = 0)
      /\ (b.data # Null => b.cap + 1 <= MAX_ALLOC_BYTES)
  BY <1>1, SoundBounds, StringAssumption
<1>3. b.data # Null => b.data \in Block \ {Caller} /\ heap[b.data].len = b.cap + 1
  BY <1>1, <1>2, StringAssumption DEF Sound, SoundAs
<1>4. b.size \in Size
  BY <1>1 DEF Header
<1>5. /\ Held[x] \in Seq(Cell) /\ Len(Held[x]) = b.size /\ Bytes(heap, b) = Held[x]
      /\ \A i \in 1 .. b.size : Held[x][i] = Load(heap, b.data, i - 1)
  BY <1>1, HeldBytes
<1> QED BY <1>1, <1>2, <1>3, <1>4, <1>5

-----------------------------------------------------------------------------
(***************************************************************************)
(* The codes of the calls that allocate.                                   *)
(***************************************************************************)

\* reserve_exact is refused only for a reason: the size or the heap.
LEMMA ReserveCodes ==
  ASSUME NEW h, NEW b, b.cap \in Nat, NEW n \in Size, NEW o \in reserve_exact(h, b, n)
  PROVE  /\ n <= b.cap => o.code = "ok"
         /\ n > b.cap => o.code \in Abs!Room(n)
<1>1. n \in Nat /\ 1 \in Size /\ SIZE_MAX \in Nat /\ MAX_ALLOC_BYTES \in Nat
  BY SizeAssumption
<1>2. PICK k : k = checked_add(n, 1)
  OBVIOUS
<1>3. k = IF n + 1 \in Size THEN n + 1 ELSE Nullopt
  BY <1>1, <1>2, CheckedAddExact
<1>4. \/ n <= b.cap /\ o = Outcome("ok", h, b, FALSE)
      \/ ~(n <= b.cap) /\ k = Nullopt /\ o = Outcome("overflow", h, b, FALSE)
      \/ ~(n <= b.cap) /\ k # Nullopt /\ k > MAX_ALLOC_BYTES /\ o = Outcome("capacity_exceeded", h, b, FALSE)
      \/ /\ ~(n <= b.cap) /\ k # Nullopt /\ ~(k > MAX_ALLOC_BYTES)
         /\ o = Outcome("out_of_memory", h, b, FALSE) \/ \E u : o = Terminated(u)
  BY <1>2, ZenonT(30) DEF reserve_exact
<1>5. \/ n <= b.cap /\ o.code = "ok"
      \/ ~(n <= b.cap) /\ k = Nullopt /\ o.code = "overflow"
      \/ ~(n <= b.cap) /\ k # Nullopt /\ k > MAX_ALLOC_BYTES /\ o.code = "capacity_exceeded"
      \/ ~(n <= b.cap) /\ k # Nullopt /\ ~(k > MAX_ALLOC_BYTES) /\ o.code \in {"ok", "out_of_memory"}
  BY <1>4 DEF Outcome, Terminated
<1>6. (k = Nullopt <=> n + 1 > SIZE_MAX) /\ (k # Nullopt => k = n + 1)
  BY <1>1, <1>3
<1> QED BY <1>1, <1>5, <1>6 DEF Abs!Room

\* Growth is refused only for a reason; past half the cap it may give up early.
LEMMA GrowCodes ==
  ASSUME SensibleLimits, NEW h, GoodHeap(h), NEW b, Sound(h, b), NEW m \in Size, NEW o \in grow_to_at_least(h, b, m)
  PROVE  o.code \in Abs!Grow(b.size, m)
<1>1. /\ b.size \in Nat /\ b.cap \in Nat /\ b.size <= b.cap /\ m \in Nat
      /\ SIZE_MAX \in Nat /\ MAX_ALLOC_BYTES \in Nat /\ MAX_ALLOC_BYTES <= SIZE_MAX
      /\ kMinGrowth \in Nat /\ kMinGrowth >= 1
      /\ b.cap > 0 => b.cap + 1 <= MAX_ALLOC_BYTES
  BY SoundBounds, SizeAssumption, StringAssumption
<1>2. CASE m <= b.cap
  <2>1. o = Outcome("ok", h, b, FALSE)
    BY <1>2 DEF grow_to_at_least
  <2>2. m > b.size => "ok" \in Abs!Room(m)
    BY <1>1, <1>2 DEF Abs!Room
  <2> QED BY <1>1, <2>1, <2>2 DEF Outcome, Abs!Grow
<1>3. CASE ~(m <= b.cap)
  <2> DEFINE grown   == IF b.cap < kMinGrowth THEN kMinGrowth ELSE b.cap
             doubled == checked_mul(grown, 2)
             w       == next_capacity(b.cap, m)
  <2>1. b.cap \in Size /\ grown \in Size /\ grown \in Nat /\ 2 \in Nat /\ grown >= 1
    BY <1>1, <1>3, SizeAssumption
  <2>2. w \in Size /\ w >= m /\ w \in Nat
    <3>1. w \in Size /\ w >= m
      BY <2>1, NextCapacityBounds
    <3> QED BY <1>1, <3>1
  <2>3. w = m \/ (w = 2 * grown /\ w <= MAX_ALLOC_BYTES /\ w # SIZE_MAX)
    <3>1. doubled = Nullopt \/ doubled = 2 * grown
      BY <1>1, <2>1 DEF checked_mul, Wrap
    <3>2. w = m \/ (w = doubled /\ doubled # Nullopt /\ doubled <= MAX_ALLOC_BYTES)
      BY DEF next_capacity
    <3>3. 2 * grown <= MAX_ALLOC_BYTES => 2 * grown # SIZE_MAX
      BY <1>1, <2>1 DEF SensibleLimits
    <3> QED BY <3>1, <3>2, <3>3
  <2>4. o \in reserve_exact(h, b, IF w < m THEN m ELSE w)
    BY <1>3 DEF grow_to_at_least
  <2>5. (IF w < m THEN m ELSE w) = w
    BY <1>1, <2>2
  <2>6. w > b.cap /\ m > b.size
    BY <1>1, <1>3, <2>2
  <2> HIDE DEF w, grown
  <2>7. o.code \in Abs!Room(w)
    BY <1>1, <2>2, <2>4, <2>5, <2>6, ReserveCodes
  <2>8. CASE w = m
    BY <1>1, <2>6, <2>7, <2>8 DEF Abs!Grow
  <2>9. CASE w # m
    <3>1. w = 2 * grown /\ w <= MAX_ALLOC_BYTES /\ w # SIZE_MAX /\ w > m
      BY <1>1, <2>2, <2>3, <2>9
    <3>2. w + 1 <= SIZE_MAX /\ m + 1 <= MAX_ALLOC_BYTES /\ m + 1 <= SIZE_MAX
      BY <1>1, <2>2, <3>1
    <3>3. Abs!Room(m) = {"ok", "out_of_memory"}
      BY <1>1, <3>2 DEF Abs!Room
    <3>4. o.code \in {"ok", "out_of_memory"} \/ (o.code = "capacity_exceeded" /\ w + 1 > MAX_ALLOC_BYTES)
      BY <1>1, <2>2, <2>7, <3>2 DEF Abs!Room
    <3>5. CASE w + 1 > MAX_ALLOC_BYTES /\ MAX_ALLOC_BYTES >= 2 * m
      <4>1. w = MAX_ALLOC_BYTES /\ m <= grown
        BY <1>1, <2>1, <2>2, <3>1, <3>5
      <4>2. grown # kMinGrowth
        BY <1>1, <3>1, <4>1 DEF SensibleLimits
      <4> QED BY <1>1, <1>3, <4>1, <4>2 DEF grown
    <3>6. CASE ~(w + 1 > MAX_ALLOC_BYTES /\ MAX_ALLOC_BYTES >= 2 * m)
      <4>1. o.code = "capacity_exceeded" => MAX_ALLOC_BYTES < 2 * m /\ m < SIZE_MAX
        BY <1>1, <2>2, <3>2, <3>4, <3>6
      <4> QED BY <1>1, <2>6, <3>3, <3>4, <4>1 DEF Abs!Grow
    <3> QED BY <3>5, <3>6
  <2> QED BY <2>8, <2>9
<1> QED BY <1>2, <1>3

\* A call that can be refused for its size only is, with a longer result too.
LEMMA GrowCases ==
  ASSUME NEW k \in Nat, NEW m \in Nat
  PROVE  /\ m <= k => Abs!Grow(k, m) = {"ok"}
         /\ m > k /\ m > SIZE_MAX => "overflow" \in Abs!Grow(k, m)
         /\ m > k /\ m >= MAX_ALLOC_BYTES => "ok" \notin Abs!Grow(k, m)
<1>1. SIZE_MAX \in Nat /\ MAX_ALLOC_BYTES \in Nat
  BY SizeAssumption
<1> QED BY <1>1 DEF Abs!Grow, Abs!Room

-----------------------------------------------------------------------------
(***************************************************************************)
(* The bytes of sources and of strings that were put together.             *)
(***************************************************************************)

\* What a source that may be read stands for is in memory where it points,
\* the terminator of a string included.
LEMMA TextCells ==
  ASSUME NEW K, StrInv(K), NEW s \in Source, Within(K, s), Readable(s, 1), s.len # 0
  PROVE  /\ Abs!Text(s) \in Seq(Cell) /\ Len(Abs!Text(s)) = s.len /\ s.of # Null
         /\ \A i, e \in Nat : i < s.len /\ e = s.off + i => Abs!Text(s)[i + 1] = Load(heap, target(s), e)
<1>1. s.off \in Nat /\ s.len \in Nat \ {0} /\ Inv(K)
  BY SizeAssumption DEF Source, StrInv
<1>2. PICK w : w = Abs!Text(s)
  OBVIOUS
<1>3. CASE s.of = Caller
  <2>1. Readable(s, 0)
    <3>1. Caller \notin alive
      BY <1>1, ContainerAssumption, MemoryAssumption DEF Inv
    <3> QED BY <1>3, <3>1 DEF Readable
  <2>2. w = IF s.of = Caller THEN [i \in 1 .. s.len |-> CallerBytes[s.off + i - 1]]
            ELSE [i \in 1 .. s.len |-> Held[s.of][s.off + i]]
    BY <1>2, <1>3 DEF Abs!Text, Abs!Value
  <2>3. /\ w \in Seq(Cell) /\ Len(w) = s.len /\ s.of # Null
        /\ \A i, e \in Nat : i < s.len /\ e = s.off + i => w[i + 1] = Load(heap, target(s), e)
    BY <1>1, <2>1, <2>2, SourceCells
  <2> QED BY <1>2, <2>3
<1>4. CASE s.of # Caller /\ s.of \in K
  <2>1. s.of \in alive /\ s.of \in Obj
    BY <1>1, <1>4 DEF Readable, Inv
  <2>2. PICK y \in Obj : y = s.of /\ y \in K
    BY <1>4, <2>1
  <2>3. PICK b, u, n : b = obj[y] /\ u = Held[y] /\ n = s.len
    OBVIOUS
  <2>4. /\ Ended(heap, b) /\ b.size \in Nat /\ b.data \in Block \cup {Null}
        /\ b.data = Null => b.size = 0
        /\ u \in Seq(Cell) /\ Len(u) = b.size
        /\ \A i \in 1 .. b.size : u[i] = Load(heap, b.data, i - 1)
    BY <2>2, <2>3, HeaderFacts
  <2>5. target(s) = b.data /\ n \in Nat \ {0}
    BY <1>1, <2>2, <2>3 DEF target
  <2>6. s.off + n <= b.size + 1 /\ b.data # Null
    <3>1. s.off + n <= b.size + (IF b.data = Null THEN 0 ELSE 1)
      BY <1>4, <2>2, <2>3 DEF Readable
    <3>2. CASE b.data = Null
      <4>1. s.off + n <= b.size + 0
        BY <3>1, <3>2
      <4>2. PICK off \in Nat, z \in Nat : off = s.off /\ z = b.size /\ z = 0
        BY <1>1, <2>4, <3>2
      <4>3. off + n <= z + 0
        BY <4>1, <4>2
      <4> QED BY <2>5, <4>2, <4>3
    <3>3. CASE b.data # Null
      BY <3>1, <3>3
    <3> QED BY <3>2, <3>3
  <2>7. Load(heap, b.data, b.size) = 0 /\ 0 \in Cell
    BY <2>4, <2>6, MemoryAssumption DEF Ended, Cell
  <2>8. PICK v : v = Append(u, 0)
    OBVIOUS
  <2>9. /\ \A i \in 1 .. b.size : v[i] = u[i] /\ u[i] \in Cell
        /\ v[b.size + 1] = 0
    BY <2>4, <2>7, <2>8, AppendProperties
  <2>10. w = [i \in 1 .. n |-> v[s.off + i]]
    BY <1>2, <1>1, <1>4, <2>2, <2>3, <2>8 DEF Abs!Text, Abs!Part, Held
  <2>11. ASSUME NEW j \in Nat, NEW e \in Nat, j = e + 1, j <= b.size + 1
         PROVE  v[j] = Load(heap, b.data, e) /\ v[j] \in Cell
    <3>1. CASE j <= b.size
      <4>1. j \in 1 .. b.size /\ j - 1 = e
        BY <2>4, <2>11, <3>1
      <4> QED BY <2>4, <2>9, <4>1
    <3>2. CASE j = b.size + 1
      <4>1. e = b.size
        BY <2>4, <2>11, <3>2
      <4> QED BY <2>7, <2>9, <3>2, <4>1
    <3> QED BY <2>4, <2>11, <3>1, <3>2
  <2>12. ASSUME NEW i \in Nat, NEW e \in Nat, i < n, e = s.off + i
         PROVE  w[i + 1] = Load(heap, b.data, e) /\ w[i + 1] \in Cell
    <3>1. PICK j \in Nat : j = s.off + (i + 1)
      BY <1>1
    <3>2. j = e + 1 /\ j <= b.size + 1 /\ i + 1 \in 1 .. n
      <4>1. PICK off \in Nat, z \in Nat : off = s.off /\ z = b.size
        BY <1>1, <2>4
      <4>2. n \in Nat /\ off + n <= z + 1 /\ i < n /\ e = off + i /\ j = off + (i + 1)
        BY <2>5, <2>6, <2>12, <3>1, <4>1
      <4>3. j = e + 1 /\ j <= z + 1 /\ i + 1 \in 1 .. n
        BY <4>2
      <4> QED BY <4>1, <4>3
    <3>3. w[i + 1] = v[j]
      BY <2>10, <3>1, <3>2
    <3> QED BY <2>11, <3>2, <3>3
  <2>13. w \in Seq(Cell) /\ Len(w) = n
    <3>1. ASSUME NEW k \in 1 .. n PROVE w[k] \in Cell
      <4>1. PICK i \in Nat, e \in Nat : i + 1 = k /\ i < n /\ e = s.off + i
        <5>1. k - 1 \in Nat /\ (k - 1) + 1 = k /\ k - 1 < n /\ s.off + (k - 1) \in Nat
          BY <1>1, <2>5
        <5> QED BY <5>1
      <4> QED BY <2>12, <4>1
    <3>2. w \in [1 .. n -> Cell]
      BY <2>10, <3>1
    <3> QED BY <2>5, <3>2, FunSeq
  <2>14. s.of # Null
    BY <2>1, ContainerAssumption
  <2> QED BY <1>2, <2>3, <2>5, <2>12, <2>13, <2>14
<1>5. CASE s.of # Caller /\ s.of \notin K
  <2>1. s.of \in alive /\ s.of \in Obj
    BY <1>1, <1>5 DEF Readable, Inv
  <2>2. PICK y \in Obj : y = s.of /\ y \notin K
    BY <1>5, <2>1
  <2>3. PICK u, v, n : u = Held[y] /\ v = Append(u, 0) /\ n = s.len
    OBVIOUS
  <2>4. u \in Seq(Cell) /\ Len(u) = obj[y].size /\ obj[y].size \in Nat /\ 0 \in Cell
    <3>1. 0 \in Cell
      BY MemoryAssumption DEF Cell
    <3> QED BY <1>1, <2>3, <3>1, HeldBytes
  <2>5. s.off + n <= obj[y].size
    BY <2>2, <2>3 DEF Within
  <2>6. Readable(s, 0)
    <3>1. s.off + s.len <= obj[s.of].size + 0
      BY <1>1, <2>2, <2>3, <2>4, <2>5
    <3> QED BY <2>1, <3>1 DEF Readable
  <2>7. w = [i \in 1 .. n |-> v[s.off + i]]
    BY <1>2, <1>1, <1>5, <2>2, <2>3 DEF Abs!Text, Abs!Part, Held
  <2>8. ASSUME NEW i \in 1 .. n PROVE v[s.off + i] = u[s.off + i]
    <3>1. PICK j : j = s.off + i
      OBVIOUS
    <3>2. j \in 1 .. Len(u)
      BY <1>1, <2>3, <2>4, <2>5, <3>1
    <3>3. v[j] = u[j]
      BY <2>3, <2>4, <3>2, AppendProperties
    <3> QED BY <3>1, <3>3
  <2>9. w = [i \in 1 .. s.len |-> Held[s.of][s.off + i]]
    BY <2>2, <2>3, <2>7, <2>8
  <2>10. w = IF s.of = Caller THEN [i \in 1 .. s.len |-> CallerBytes[s.off + i - 1]]
             ELSE [i \in 1 .. s.len |-> Held[s.of][s.off + i]]
    BY <1>5, <2>9
  <2>11. /\ w \in Seq(Cell) /\ Len(w) = s.len /\ s.of # Null
         /\ \A i, e \in Nat : i < s.len /\ e = s.off + i => w[i + 1] = Load(heap, target(s), e)
    BY <1>1, <2>6, <2>10, SourceCells
  <2> QED BY <1>2, <2>11
<1> QED BY <1>3, <1>4, <1>5

\* The cells of b are those of p, then those of w, then those of r.
Joined(h, b, p, w, r) ==
  /\ b.size = Len(p) + Len(w) + Len(r)
  /\ \A i, a \in Nat : i < Len(p) /\ a = i => Load(h, b.data, a) = p[i + 1]
  /\ \A i, a \in Nat : i < Len(w) /\ a = Len(p) + i => Load(h, b.data, a) = w[i + 1]
  /\ \A i, a \in Nat : i < Len(r) /\ a = Len(p) + Len(w) + i => Load(h, b.data, a) = r[i + 1]

\* A header whose cells are those of p, of w and of r holds the three.
LEMMA JoinedCells ==
  ASSUME NEW h, NEW b, NEW p \in Seq(Cell), NEW w \in Seq(Cell), NEW r \in Seq(Cell), Joined(h, b, p, w, r)
  PROVE  Bytes(h, b) = p \o w \o r
<1>1. PICK k \in Nat, n \in Nat, m \in Nat : k = Len(p) /\ n = Len(w) /\ m = Len(r)
  OBVIOUS
<1>0. /\ b.size = k + n + m
      /\ \A i, a \in Nat : i < k /\ a = i => Load(h, b.data, a) = p[i + 1]
      /\ \A i, a \in Nat : i < n /\ a = k + i => Load(h, b.data, a) = w[i + 1]
      /\ \A i, a \in Nat : i < m /\ a = k + n + i => Load(h, b.data, a) = r[i + 1]
  BY <1>1 DEF Joined
<1>2. PICK y : y = p \o w
  OBVIOUS
<1>3. /\ y \in Seq(Cell) /\ Len(y) = k + n
      /\ \A i \in 1 .. k + n : y[i] = IF i <= k THEN p[i] ELSE w[i - k]
  BY <1>1, <1>2, ConcatProperties
<1>4. PICK z : z = y \o r
  OBVIOUS
<1>5. /\ z \in Seq(Cell) /\ Len(z) = k + n + m
      /\ \A i \in 1 .. k + n + m : z[i] = IF i <= k + n THEN y[i] ELSE r[i - (k + n)]
  <2>1. PICK l \in Nat : l = k + n
    OBVIOUS
  <2>2. Len(y) = l /\ Len(r) = m
    BY <1>1, <1>3, <2>1
  <2>3. /\ z \in Seq(Cell) /\ Len(z) = l + m
        /\ \A i \in 1 .. l + m : z[i] = IF i <= l THEN y[i] ELSE r[i - l]
    BY <1>3, <1>4, <2>2, ConcatProperties
  <2> QED BY <2>1, <2>3
<1>6. ASSUME NEW i \in 1 .. b.size PROVE Load(h, b.data, i - 1) = z[i]
  <2>0. i \in 1 .. k + n + m
    BY <1>0
  <2>1. PICK a \in Nat : a = i - 1
    BY <2>0
  <2>2. CASE i <= k
    <3>1. a < k /\ a + 1 = i /\ i \in 1 .. k + n /\ i <= k + n
      BY <2>0, <2>1, <2>2
    <3>2. Load(h, b.data, a) = p[i]
      BY <1>0, <1>1, <3>1
    <3> QED BY <1>3, <1>5, <2>0, <2>1, <2>2, <3>1, <3>2
  <2>3. CASE ~(i <= k) /\ i <= k + n
    <3>1. PICK j \in Nat : j = a - k
      BY <2>0, <2>1, <2>3
    <3>2. i \in Nat /\ a = i - 1 /\ i > k /\ i <= k + n
      BY <2>0, <2>1, <2>3
    <3>3. j < n /\ a = k + j /\ j + 1 = i - k /\ i \in 1 .. k + n
      BY <3>1, <3>2
    <3>4. Load(h, b.data, a) = w[j + 1]
      BY <1>0, <1>1, <3>3
    <3> QED BY <1>3, <1>5, <2>0, <2>1, <2>3, <3>3, <3>4
  <2>4. CASE ~(i <= k + n)
    <3>1. PICK j \in Nat : j = a - (k + n)
      BY <2>0, <2>1, <2>4
    <3>2. j < m /\ a = k + n + j /\ j + 1 = i - (k + n)
      BY <2>0, <2>1, <2>4, <3>1
    <3>3. Load(h, b.data, a) = r[j + 1]
      BY <1>0, <1>1, <3>2
    <3> QED BY <1>5, <2>0, <2>1, <2>4, <3>2, <3>3
  <2> QED BY <2>0, <2>2, <2>3, <2>4
<1>7. b.size \in Nat /\ Len(z) = b.size
  BY <1>0, <1>5
<1>8. Bytes(h, b) = z
  BY <1>5, <1>6, <1>7, BytesAre
<1> QED BY <1>2, <1>4, <1>8

\* A part of what a string holds, as a sequence.
LEMMA PartCells ==
  ASSUME NEW K, StrInv(K), NEW x \in Obj, x \in K, NEW off \in Nat, NEW n \in Nat, off + n <= obj[x].size
  PROVE  /\ Abs!Part(Held[x], off, n) \in Seq(Cell) /\ Len(Abs!Part(Held[x], off, n)) = n
         /\ \A i, e \in Nat : i < n /\ e = off + i =>
              Abs!Part(Held[x], off, n)[i + 1] = Load(heap, obj[x].data, e)
<1>1. PICK b, u, w : b = obj[x] /\ u = Held[x] /\ w = Abs!Part(u, off, n)
  OBVIOUS
<1>2. /\ b.size \in Nat /\ u \in Seq(Cell) /\ Len(u) = b.size
      /\ \A i \in 1 .. b.size : u[i] = Load(heap, b.data, i - 1)
  BY <1>1, HeaderFacts
<1>3. w = [i \in 1 .. n |-> u[off + i]]
  BY <1>1 DEF Abs!Part
<1>4. ASSUME NEW i \in Nat, NEW e \in Nat, i < n, e = off + i
      PROVE  w[i + 1] = Load(heap, b.data, e) /\ w[i + 1] \in Cell
  <2>1. PICK j \in Nat : j = off + (i + 1)
    OBVIOUS
  <2>2. j \in 1 .. b.size /\ j - 1 = e /\ i + 1 \in 1 .. n
    BY <1>1, <1>2, <1>4, <2>1
  <2>3. w[i + 1] = u[j]
    BY <1>3, <2>1, <2>2
  <2> QED BY <1>2, <2>2, <2>3
<1>5. w \in Seq(Cell) /\ Len(w) = n
  <2>1. ASSUME NEW k \in 1 .. n PROVE w[k] \in Cell
    <3>1. PICK i \in Nat, e \in Nat : i + 1 = k /\ i < n /\ e = off + i
      <4>1. k - 1 \in Nat /\ (k - 1) + 1 = k /\ k - 1 < n /\ off + (k - 1) \in Nat
        OBVIOUS
      <4> QED BY <4>1
    <3> QED BY <1>4, <3>1
  <2>2. w \in [1 .. n -> Cell]
    BY <1>3, <2>1
  <2> QED BY <2>2, FunSeq
<1> QED BY <1>1, <1>4, <1>5

-----------------------------------------------------------------------------
(***************************************************************************)
(* What the helpers of string leave behind.                                *)
(***************************************************************************)

\* A call that ended with some code and changed nothing.
LEMMA RefusalLeaves ==
  ASSUME NEW b, GoodHeap(heap), Sound(heap, b), NEW q, NEW codes, NEW code \in codes, code # "ok",
         NEW o, o = Outcome(code, heap, b, FALSE)
  PROVE  Leaves(b, q, codes, o)
<1>1. Local(heap, b, o)
  BY SameLocal
<1>2. o.code = code /\ o.heap = heap /\ o.buf = b
  BY DEF Outcome
<1> QED BY <1>1, <1>2 DEF Leaves

\* So does a success that has nothing to do.
LEMMA NothingLeaves ==
  ASSUME NEW b, GoodHeap(heap), Sound(heap, b), NEW q, q = Bytes(heap, b), NEW codes, "ok" \in codes,
         NEW o, o = Outcome("ok", heap, b, FALSE)
  PROVE  Leaves(b, q, codes, o)
<1>1. Local(heap, b, o)
  BY SameLocal
<1>2. o.code = "ok" /\ o.heap = heap /\ o.buf = b
  BY DEF Outcome
<1> QED BY <1>1, <1>2 DEF Leaves

\* Making room leaves the bytes alone.
LEMMA GrownLeaves ==
  ASSUME NEW b, GoodHeap(heap), Sound(heap, b), NEW n, NEW o, Grown(heap, b, n, o),
         NEW q, q = Bytes(heap, b), NEW codes, o.code \in codes
  PROVE  Leaves(b, q, codes, o)
<1>1. Local(heap, b, o)
  BY DEF Grown, Done
<1>2. ASSUME o.code = "ok" PROVE Bytes(o.heap, o.buf) = q
  <2>1. PICK h, c : h = o.heap /\ c = o.buf
    OBVIOUS
  <2>2. b.size \in Nat /\ c.size = b.size /\ \A a \in Nat : a < b.size => Load(h, c.data, a) = Load(heap, b.data, a)
    BY <1>2, <2>1, SoundBounds DEF Grown
  <2>3. Bytes(h, c) = Bytes(heap, b)
    BY <2>2, SameBytes
  <2> QED BY <2>1, <2>3
<1> QED BY <1>1, <1>2 DEF Leaves, Grown

\* A string that is empty afterwards.
LEMMA EmptyLeaves ==
  ASSUME NEW b, NEW o, Local(heap, b, o), o.code = "ok", o.buf.size = 0, NEW codes, "ok" \in codes
  PROVE  Leaves(b, <<>>, codes, o)
<1>1. PICK h, c : h = o.heap /\ c = o.buf
  OBVIOUS
<1>2. Bytes(h, c) = <<>>
  BY <1>1, EmptyBytes
<1> QED BY <1>1, <1>2 DEF Leaves

\* The n bytes of a source, alone: assign and the factories.
LEMMA FilledLeaves ==
  ASSUME NEW b, NEW p, NEW off \in Nat, NEW n \in Nat, NEW to, to = 0, NEW u, Filled(heap, b, to, p, off, n, u),
         NEW w \in Seq(Cell), Len(w) = n,
         \A i, e \in Nat : i < n /\ e = off + i => w[i + 1] = Load(heap, p, e),
         NEW codes, "ok" \in codes
  PROVE  Leaves(b, w, codes, u)
<1>1. PICK h, c : h = u.heap /\ c = u.buf
  OBVIOUS
<1>2. /\ Local(heap, b, u) /\ u.code = "ok" /\ c.size = to + n
      /\ \A i \in Nat : i < n => Load(h, c.data, to + i) = Load(heap, p, off + i)
  BY <1>1 DEF Filled, Done
<1>3. ASSUME NEW j \in 1 .. c.size PROVE Load(h, c.data, j - 1) = w[j]
  <2>1. PICK i \in Nat, e \in Nat : i = j - 1 /\ i < n /\ e = off + i /\ i + 1 = j /\ to + i = i
    <3>1. j - 1 \in Nat /\ off + (j - 1) \in Nat /\ j - 1 < n /\ (j - 1) + 1 = j /\ to + (j - 1) = j - 1
      BY <1>2
    <3> QED BY <3>1
  <2>2. Load(h, c.data, i) = Load(heap, p, e)
    BY <1>2, <2>1
  <2>3. w[i + 1] = Load(heap, p, e)
    BY <2>1
  <2> QED BY <2>1, <2>2, <2>3
<1>4. c.size \in Nat /\ Len(w) = c.size
  BY <1>2
<1>5. Bytes(h, c) = w
  BY <1>3, <1>4, BytesAre
<1> QED BY <1>1, <1>2, <1>5 DEF Leaves

\* ... and after what the string held before: append.
LEMMA AppendedLeaves ==
  ASSUME NEW K, Inv(K), NEW x \in Obj, x \in K, NEW b, b = obj[x], NEW u, Local(heap, b, u), u.code = "ok",
         NEW w \in Seq(Cell), u.buf.size = b.size + Len(w),
         \A a \in Nat : a < b.size => Load(u.heap, u.buf.data, a) = Load(heap, b.data, a),
         \A a, i \in Nat : i < Len(w) /\ a = b.size + i => Load(u.heap, u.buf.data, a) = w[i + 1],
         NEW codes, "ok" \in codes
  PROVE  Leaves(b, Held[x] \o w, codes, u)
<1>1. PICK h, c : h = u.heap /\ c = u.buf
  OBVIOUS
<1>2. /\ c.size = obj[x].size + Len(w)
      /\ \A a \in Nat : a < obj[x].size => Load(h, c.data, a) = Load(heap, obj[x].data, a)
      /\ \A a, i \in Nat : i < Len(w) /\ a = obj[x].size + i => Load(h, c.data, a) = w[i + 1]
  BY <1>1
<1>3. Bytes(h, c) = Held[x] \o w
  <2>1. Inv(K) /\ x \in Obj /\ w \in Seq(Cell)
    OBVIOUS
  <2> QED BY <1>2, <2>1, ConcatCells, SMTT(60)
<1>4. Bytes(u.heap, u.buf) = Held[x] \o w
  BY <1>1, <1>3
<1> QED BY <1>4 DEF Leaves

\* from_bytes leaves the bytes of w, which are where its source points.
LEMMA FromBytesLeaves ==
  ASSUME GoodHeap(heap), NEW p \in Block \cup {Null}, NEW off \in Nat, NEW n \in Size,
         n # 0 /\ p # Null /\ n < MAX_ALLOC_BYTES => Written(heap, p, off, n),
         NEW o \in from_bytes(heap, p, off, n), NEW w,
         n = 0 => w = <<>>,
         n # 0 /\ n < MAX_ALLOC_BYTES /\ p # Null =>
            /\ w \in Seq(Cell) /\ Len(w) = n
            /\ \A i, e \in Nat : i < n /\ e = off + i => w[i + 1] = Load(heap, p, e),
         NEW codes,
         codes = IF n = 0 THEN {"ok"} ELSE IF p = Null THEN {"null_pointer"} ELSE Abs!Room(n)
  PROVE  Leaves(Empty, w, codes, o)
<1>0. n \in Nat /\ SIZE_MAX \in Nat /\ MAX_ALLOC_BYTES \in Nat
  BY SizeAssumption
<1>1. /\ Done(heap, Empty, o)
      /\ o.code # "ok" => o.buf = Empty /\ o.heap = heap
      /\ o.code = "ok" /\ n # 0 => Filled(heap, Empty, 0, p, off, n, o)
      /\ o.code = "ok" => o.buf.size = n
  BY FromBytesDone
<1>2. o.code \in codes
  <2>1. CASE n = 0 \/ p = Null
    BY <2>1 DEF from_bytes, Outcome
  <2>2. CASE n # 0 /\ p # Null
    <3> DEFINE F(g) == IF g.code = "ok" THEN Sized(Moved(g, 0, p, off, n), n) ELSE g
    <3>1. PICK g \in reserve_exact(heap, Empty, n) : o = F(g)
      BY <2>2 DEF from_bytes, with_capacity
    <3>2. Empty.cap = 0
      BY DEF Empty
    <3>3. g.code \in Abs!Room(n)
      <4>1. PICK b : b = Empty
        OBVIOUS
      <4>2. g \in reserve_exact(heap, b, n) /\ b.cap \in Nat /\ n > b.cap
        BY <1>0, <2>2, <3>1, <3>2, <4>1
      <4> QED BY <4>2, ReserveCodes
    <3>4. F(g).code = g.code
      BY DEF Sized, Terminated, Outcome
    <3> QED BY <2>2, <3>1, <3>3, <3>4
  <2> QED BY <2>1, <2>2
<1>3. CASE o.code # "ok"
  BY <1>1, <1>2, <1>3 DEF Leaves, Done
<1>4. CASE o.code = "ok" /\ n = 0
  BY <1>1, <1>2, <1>4, EmptyLeaves DEF Done
<1>5. CASE o.code = "ok" /\ n # 0
  <2>1. p # Null /\ n < MAX_ALLOC_BYTES
    BY <1>0, <1>2, <1>5 DEF Abs!Room
  <2>2. PICK b, to : b = Empty /\ to = 0
    OBVIOUS
  <2>3. Filled(heap, b, to, p, off, n, o)
    BY <1>1, <1>5, <2>2
  <2>4. Leaves(b, w, codes, o)
    BY <1>0, <1>2, <1>5, <2>1, <2>2, <2>3, FilledLeaves
  <2> QED BY <2>2, <2>4
<1> QED BY <1>3, <1>4, <1>5

-----------------------------------------------------------------------------
(***************************************************************************)
(* The factories.                                                          *)
(***************************************************************************)

\* with_capacity: an empty string, if there is room.
LEMMA WithCapacityMakes ==
  ASSUME NEW K, StrInv(K), NEW x \in Obj, x \in K, NEW n \in Size, WithCapacity(x, n)
  PROVE  Makes(<<"with_capacity", x, n>>, x, <<>>, IF n = 0 THEN {"ok"} ELSE Abs!Room(n))
<1>1. PICK b, c, codes :
        b = Empty /\ c = <<"with_capacity", x, n>> /\ codes = IF n = 0 THEN {"ok"} ELSE Abs!Room(n)
  OBVIOUS
<1>2. PICK o \in with_capacity(heap, n) : Creates(c, x, o)
  BY <1>1 DEF WithCapacity
<1>3. GoodHeap(heap) /\ Sound(heap, b) /\ b.size = 0 /\ b.cap = 0 /\ n \in Nat
  BY <1>1, EmptySound, SizeAssumption DEF StrInv, Inv, Empty
<1>4. Grown(heap, b, n, o)
  BY <1>1, <1>2, <1>3, WithCapacityGrown
<1>5. o.code \in codes
  <2>1. CASE n = 0
    BY <1>1, <1>2, <2>1 DEF with_capacity, Outcome
  <2>2. CASE n # 0
    <3>1. o \in reserve_exact(heap, b, n) /\ b.cap \in Nat /\ n > b.cap
      BY <1>1, <1>2, <1>3, <2>2 DEF with_capacity
    <3> QED BY <1>1, <2>2, <3>1, ReserveCodes
  <2> QED BY <2>1, <2>2
<1>6. Bytes(heap, b) = <<>>
  BY <1>3, EmptyBytes
<1>7. Leaves(b, <<>>, codes, o)
  BY <1>3, <1>4, <1>5, <1>6, GrownLeaves
<1>8. x \notin alive
  BY <1>2 DEF Creates
<1> QED BY <1>1, <1>2, <1>7, <1>8 DEF Makes

\* from_bytes: a string of the source's bytes, if there is room.
LEMMA FromBytesMakes ==
  ASSUME NEW K, StrInv(K), NEW x \in Obj, x \in K, NEW s \in Source, Within(K, s), FromBytes(x, s)
  PROVE  Makes(<<"from_bytes", x, s>>, x, Abs!Text(s),
               Abs!Given(s, IF s.len = 0 THEN {"ok"} ELSE Abs!Room(s.len)))
<1>1. PICK c, codes, p, off, n, w :
        /\ c = <<"from_bytes", x, s>>
        /\ codes = Abs!Given(s, IF s.len = 0 THEN {"ok"} ELSE Abs!Room(s.len))
        /\ p = target(s) /\ off = s.off /\ n = s.len /\ w = Abs!Text(s)
  OBVIOUS
<1>2. PICK o \in from_bytes(heap, p, off, n) : Creates(c, x, o)
  BY <1>1 DEF FromBytes
<1>3. Inv(K) /\ GoodHeap(heap) /\ MayPass(s, 1, n >= MAX_ALLOC_BYTES)
  BY <1>1 DEF StrInv, Inv, FromBytes
<1>4. /\ p \in Block \cup {Null} /\ off \in Nat /\ n \in Size /\ n \in Nat /\ MAX_ALLOC_BYTES \in Nat
      /\ s.of = Null => p = Null
  BY <1>1, <1>3, SourceType, SizeAssumption
<1>5. s.of = Null \/ Readable(s, 1) \/ (s.of = Caller /\ n >= MAX_ALLOC_BYTES)
  BY <1>3 DEF MayPass
<1>6. n # 0 /\ s.of # Null => /\ p # Null
                              /\ n < MAX_ALLOC_BYTES => Written(heap, p, off, n)
  BY <1>1, <1>4, <1>5, Passed
<1>7. n # 0 /\ n < MAX_ALLOC_BYTES /\ p # Null =>
            /\ w \in Seq(Cell) /\ Len(w) = n
            /\ \A i, e \in Nat : i < n /\ e = off + i => w[i + 1] = Load(heap, p, e)
  <2> SUFFICES ASSUME n # 0, n < MAX_ALLOC_BYTES, p # Null
               PROVE  /\ w \in Seq(Cell) /\ Len(w) = n
                      /\ \A i, e \in Nat : i < n /\ e = off + i => w[i + 1] = Load(heap, p, e)
    OBVIOUS
  <2>1. Readable(s, 1)
    BY <1>4, <1>5
  <2> QED BY <1>1, <2>1, TextCells
<1>8. n = 0 => w = <<>>
  BY <1>1 DEF Abs!Text, Abs!Value
<1>9. codes = IF n = 0 THEN {"ok"} ELSE IF p = Null THEN {"null_pointer"} ELSE Abs!Room(n)
  <2>1. n # 0 => n > 0 /\ (p = Null <=> s.of = Null)
    BY <1>4, <1>6
  <2> QED BY <1>1, <1>4, <2>1 DEF Abs!Given
<1>10. n # 0 /\ p # Null /\ n < MAX_ALLOC_BYTES => Written(heap, p, off, n)
  BY <1>4, <1>6
<1>11. Leaves(Empty, w, codes, o)
  BY <1>2, <1>3, <1>4, <1>7, <1>8, <1>9, <1>10, FromBytesLeaves
<1>12. x \notin alive
  BY <1>2 DEF Creates
<1> QED BY <1>1, <1>2, <1>11, <1>12 DEF Makes

\* clone and substr: a string of n bytes of another one.
LEMMA PartMakes ==
  ASSUME NEW K, StrInv(K), NEW x \in Obj, x \in K, NEW y \in Obj, y \in K, NEW off \in Nat, NEW n \in Nat, off + n <= obj[y].size,
         NEW c, NEW o \in from_bytes(heap, obj[y].data, off, n), Creates(c, x, o),
         NEW codes, codes = IF n = 0 THEN {"ok"} ELSE Abs!Room(n)
  PROVE  Makes(c, x, Abs!Part(Held[y], off, n), codes)
<1>1. PICK p, w : p = obj[y].data /\ w = Abs!Part(Held[y], off, n)
  OBVIOUS
<1>2. n \in Size /\ p \in Block \cup {Null} /\ (n # 0 => p # Null /\ Written(heap, p, off, n)) /\ GoodHeap(heap)
  BY <1>1, PartWritten DEF StrInv, Inv
<1>3. /\ w \in Seq(Cell) /\ Len(w) = n
      /\ \A i, e \in Nat : i < n /\ e = off + i => w[i + 1] = Load(heap, p, e)
  BY <1>1, PartCells
<1>4. n = 0 => w = <<>>
  BY <1>3
<1>5. codes = IF n = 0 THEN {"ok"} ELSE IF p = Null THEN {"null_pointer"} ELSE Abs!Room(n)
  BY <1>2
<1>6. o \in from_bytes(heap, p, off, n)
  BY <1>1
<1>7. Leaves(Empty, w, codes, o)
  <2>1. n # 0 /\ p # Null /\ n < MAX_ALLOC_BYTES => Written(heap, p, off, n)
    BY <1>2
  <2>2. n # 0 /\ n < MAX_ALLOC_BYTES /\ p # Null =>
          /\ w \in Seq(Cell) /\ Len(w) = n
          /\ \A i, e \in Nat : i < n /\ e = off + i => w[i + 1] = Load(heap, p, e)
    BY <1>3
  <2>3. GoodHeap(heap) /\ p \in Block \cup {Null} /\ n \in Size
    BY <1>2
  <2> QED BY <1>4, <1>5, <1>6, <2>1, <2>2, <2>3, FromBytesLeaves
<1>8. x \notin alive
  BY DEF Creates
<1> QED BY <1>1, <1>7, <1>8 DEF Makes

\* clone: a string of the same bytes, if there is room.
LEMMA CloneMakes ==
  ASSUME NEW K, StrInv(K), NEW x \in Obj, x \in K, NEW y \in Obj, y \in K, Clone(x, y)
  PROVE  Makes(<<"clone", x, y>>, x, Held[y], IF Held[y] = <<>> THEN {"ok"} ELSE Abs!Room(Len(Held[y])))
<1>1. PICK c, off, n, w, codes :
        /\ c = <<"clone", x, y>> /\ off = 0 /\ n = obj[y].size /\ w = Held[y]
        /\ codes = IF w = <<>> THEN {"ok"} ELSE Abs!Room(Len(w))
  OBVIOUS
<1>2. n \in Nat /\ w \in Seq(Cell) /\ Len(w) = n
  BY <1>1, HeaderFacts
<1>3. PICK o \in from_bytes(heap, obj[y].data, off, n) : Creates(c, x, o)
  BY <1>1 DEF Clone
<1>4. off \in Nat /\ off + n <= obj[y].size
  BY <1>1, <1>2
<1>5. codes = IF n = 0 THEN {"ok"} ELSE Abs!Room(n)
  BY <1>1, <1>2, EmptySeq
<1>6. PICK v : v = Abs!Part(w, off, n)
  OBVIOUS
<1>7. v = w
  <2>1. v \in Seq(Cell) /\ Len(v) = n
    BY <1>1, <1>2, <1>4, <1>6, PartCells
  <2>2. v = [i \in 1 .. n |-> w[off + i]]
    BY <1>6 DEF Abs!Part
  <2>3. \A i \in 1 .. n : v[i] = w[i]
    BY <1>1, <1>2, <2>2
  <2> QED BY <1>2, <2>1, <2>3, SeqEqual
<1>8. Makes(c, x, v, codes)
  BY <1>1, <1>2, <1>3, <1>4, <1>5, <1>6, PartMakes
<1> QED BY <1>1, <1>7, <1>8

\* The code of a call that names a range says whether the range is there.
LEMMA RangeCodes ==
  ASSUME NEW pos \in Size, NEW length \in Size, NEW size \in Nat, size <= SIZE_MAX
  PROVE  /\ RangeCode(pos, length, size) \in Abs!Range(pos, length, size)
         /\ RangeCode(pos, length, size) = "ok" <=> pos + length <= size
         /\ RangeCode(pos, length, size) = "ok" <=> Abs!Range(pos, length, size) = {"ok"}
         /\ RangeCode(pos, length, size) # "ok" => "ok" \notin Abs!Range(pos, length, size)
<1>1. PICK k : k = checked_add(pos, length)
  OBVIOUS
<1>2. pos \in Nat /\ length \in Nat /\ SIZE_MAX \in Nat /\ (k = IF pos + length \in Size THEN pos + length ELSE Nullopt)
  BY <1>1, CheckedAddExact, SizeAssumption
<1>3. RangeCode(pos, length, size) = IF k # Nullopt /\ k <= size THEN "ok"
                                     ELSE IF k = Nullopt THEN "overflow" ELSE "out_of_range"
  BY <1>1 DEF RangeCode, range_in_bounds
<1>4. CASE pos + length > SIZE_MAX
  <2>1. k = Nullopt /\ ~(pos + length <= size)
    BY <1>2, <1>4
  <2> QED BY <1>3, <1>4, <2>1 DEF Abs!Range
<1>5. CASE ~(pos + length > SIZE_MAX)
  <2>1. k = pos + length /\ k # Nullopt
    BY <1>2, <1>5
  <2> QED BY <1>3, <1>5, <2>1 DEF Abs!Range, Abs!Index
<1> QED BY <1>4, <1>5

\* substr: a string of the bytes of the range, if it is there and fits.
LEMMA SubstrMakes ==
  ASSUME NEW K, StrInv(K), NEW x \in Obj, x \in K, NEW y \in Obj, y \in K, NEW pos \in Size, NEW n \in Size, Substr(x, y, pos, n)
  PROVE  IF Abs!Range(pos, n, Len(Held[y])) = {"ok"}
         THEN Makes(<<"substr", x, y, pos, n>>, x, Abs!Part(Held[y], pos, n),
                    IF n = 0 THEN {"ok"} ELSE Abs!Room(n))
         ELSE /\ "ok" \notin Abs!Range(pos, n, Len(Held[y]))
              /\ Makes(<<"substr", x, y, pos, n>>, x, <<>>, Abs!Range(pos, n, Len(Held[y])))
<1>1. PICK c, code, size : c = <<"substr", x, y, pos, n>> /\ size = obj[y].size /\ code = RangeCode(pos, n, size)
  OBVIOUS
<1>2. PICK o \in IF code # "ok" THEN {Outcome(code, heap, Empty, FALSE)}
                 ELSE from_bytes(heap, obj[y].data, pos, n) : Creates(c, x, o)
  BY <1>1 DEF Substr
<1>3. size \in Nat /\ size <= SIZE_MAX /\ Len(Held[y]) = size /\ GoodHeap(heap) /\ pos \in Nat /\ n \in Nat
  BY <1>1, HeaderFacts, SizeAssumption
<1>4. PICK codes : codes = Abs!Range(pos, n, size)
  OBVIOUS
<1>5. /\ code \in codes
      /\ code = "ok" <=> pos + n <= size
      /\ code = "ok" <=> codes = {"ok"}
      /\ code # "ok" => "ok" \notin codes
  BY <1>1, <1>3, <1>4, RangeCodes
<1>6. CASE code = "ok"
  <2>1. PICK room : room = IF n = 0 THEN {"ok"} ELSE Abs!Room(n)
    OBVIOUS
  <2>2. Makes(c, x, Abs!Part(Held[y], pos, n), room)
    BY <1>1, <1>2, <1>3, <1>5, <1>6, <2>1, PartMakes
  <2> QED BY <1>1, <1>3, <1>4, <1>5, <1>6, <2>1, <2>2
<1>7. CASE code # "ok"
  <2>1. PICK b, q : b = Empty /\ q = <<>>
    OBVIOUS
  <2>2. o = Outcome(code, heap, b, FALSE) /\ Sound(heap, b)
    BY <1>2, <1>3, <1>7, <2>1, EmptySound
  <2>3. Leaves(b, q, codes, o)
    BY <1>3, <1>5, <1>7, <2>2, RefusalLeaves
  <2>4. x \notin alive
    BY <1>2 DEF Creates
  <2>5. Makes(c, x, q, codes)
    BY <1>2, <2>1, <2>3, <2>4 DEF Makes
  <2> QED BY <1>1, <1>3, <1>4, <1>5, <1>7, <2>1, <2>5
<1> QED BY <1>6, <1>7

\* The n bytes from offset off of block p are those of w.
TextAt(p, off, n, w) ==
  /\ w \in Seq(Cell) /\ Len(w) = n
  /\ \A i, e \in Nat : i < n /\ e = off + i => w[i + 1] = Load(heap, p, e)

\* The first NUL of w, and what comes before it.
LEMMA FirstNul ==
  ASSUME NEW w, NEW m \in Nat, Len(w) = m, NEW n \in Nat, n < m, w[n + 1] = 0,
         \A i \in Nat : i < n => w[i + 1] # 0
  PROVE  Abs!Nuls(w) # {} /\ Abs!UpToNul(w) = Abs!Part(w, 0, n)
<1>1. PICK N : N = Abs!Nuls(w)
  OBVIOUS
<1>2. N = {i \in 1 .. m : w[i] = 0}
  BY <1>1 DEF Abs!Nuls
<1>3. n + 1 \in N
  BY <1>2
<1>4. ASSUME NEW j \in N PROVE n + 1 <= j /\ j \in Nat
  <2>1. j \in 1 .. m /\ w[j] = 0
    BY <1>2
  <2>2. CASE j < n + 1
    <3>1. PICK i \in Nat : i + 1 = j /\ i < n
      <4>1. j - 1 \in Nat /\ (j - 1) + 1 = j /\ j - 1 < n
        BY <2>1, <2>2
      <4> QED BY <4>1
    <3> QED BY <2>1, <3>1
  <2> QED BY <2>1, <2>2
<1>5. PICK k : k = CHOOSE i \in N : \A j \in N : i <= j
  OBVIOUS
<1>6. k \in N /\ \A j \in N : k <= j
  BY <1>3, <1>4, <1>5
<1>7. k = n + 1
  BY <1>3, <1>4, <1>6
<1>8. k - 1 = n
  BY <1>7
<1>9. Abs!UpToNul(w) = Abs!Part(w, 0, k - 1)
  BY <1>1, <1>5 DEF Abs!UpToNul
<1> QED BY <1>1, <1>3, <1>8, <1>9

\* The start of a sequence.
LEMMA StartOf ==
  ASSUME NEW w \in Seq(Cell), NEW n \in Nat, n <= Len(w)
  PROVE  /\ Abs!Part(w, 0, n) \in Seq(Cell) /\ Len(Abs!Part(w, 0, n)) = n
         /\ \A i \in 1 .. n : Abs!Part(w, 0, n)[i] = w[i]
<1>1. PICK v, z : z = 0 /\ v = Abs!Part(w, z, n)
  OBVIOUS
<1>2. v = [i \in 1 .. n |-> w[z + i]]
  BY <1>1 DEF Abs!Part
<1>3. \A i \in 1 .. n : v[i] = w[i] /\ w[i] \in Cell
  BY <1>1, <1>2
<1>4. v \in [1 .. n -> Cell]
  BY <1>2, <1>3
<1>5. v \in Seq(Cell) /\ Len(v) = n
  BY <1>4, FunSeq
<1> QED BY <1>1, <1>3, <1>5

\* A C string never lies in a container of the other kind.
LEMMA CstrOwn ==
  ASSUME NEW K, Inv(K), NEW s \in Source, Within(K, s), Cstr(s), s.of \in Obj
  PROVE  s.of \in K /\ s.of # Caller /\ s.of # Null
<1>1. s.of # Caller /\ s.of # Null
  BY ContainerAssumption, MemoryAssumption
<1>2. s.off + s.len = obj[s.of].size + 1
  BY <1>1 DEF Cstr
<1>3. PICK z \in Nat : z = obj[s.of].size
  BY HeldBytes
<1>4. ~(s.off + s.len <= z)
  BY <1>2, <1>3
<1> QED BY <1>1, <1>3, <1>4 DEF Within

\* What from_cstr may look at can be read, and is no longer than the cap.
LEMMA CstrSource ==
  ASSUME NEW K, StrInv(K), NEW s \in Source, Within(K, s), Cstr(s), s.of # Null, ~ StaticEmpty(s)
  PROVE  Readable(s, 1) /\ s.len # 0 /\ s.len <= MAX_ALLOC_BYTES /\ target(s) # Null
<1>1. s.off \in Nat /\ s.len \in Nat /\ MAX_ALLOC_BYTES \in Nat /\ MAX_ALLOC_BYTES >= 1 /\ Inv(K)
  BY SizeAssumption DEF Source, StrInv
<1>2. CASE s.of = Caller
  <2>1. s.of \notin alive /\ s.of \notin Obj
    BY <1>1, <1>2, ContainerAssumption, MemoryAssumption DEF Inv
  <2>2. s.off + s.len = MAX_ALLOC_BYTES /\ (s.off = 0 \/ \E a \in s.off .. MAX_ALLOC_BYTES - 1 : TRUE)
    BY <1>2, <2>1, MemoryAssumption DEF Cstr
  <2>3. s.off + s.len <= MAX_ALLOC_BYTES /\ s.len # 0 /\ s.len <= MAX_ALLOC_BYTES
    BY <1>1, <2>2
  <2> QED BY <1>2, <2>1, <2>3, MemoryAssumption DEF Readable, target
<1>3. CASE s.of # Caller
  <2>1. s.of \in alive /\ s.off + s.len = obj[s.of].size + 1 /\ s.len > 0
    BY <1>3 DEF Cstr
  <2>2. PICK y, b : y \in Obj /\ y = s.of /\ b = obj[y] /\ y \in K
    BY <1>1, <2>1, CstrOwn DEF Inv
  <2>3. target(s) = b.data /\ b.data # Null
    BY <2>2 DEF target, StaticEmpty
  <2>4. b.size \in Nat /\ b.cap \in Nat /\ b.size <= b.cap /\ b.cap + 1 <= MAX_ALLOC_BYTES
    BY <2>2, <2>3, HeaderFacts
  <2>5. s.off + s.len <= b.size + 1 /\ s.len <= MAX_ALLOC_BYTES /\ s.len # 0
    BY <1>1, <2>1, <2>2, <2>4
  <2>6. Readable(s, 1)
    BY <2>1, <2>2, <2>3, <2>5 DEF Readable
  <2> QED BY <2>3, <2>5, <2>6
<1> QED BY <1>2, <1>3

\* What the abstract from_cstr asks for.
FromCstrDoes(x, s) ==
  IF s.of = Null THEN Makes(<<"from_cstr", x, s>>, x, <<>>, {"null_pointer"})
  ELSE IF Abs!Nuls(Abs!Text(s)) = {} THEN Makes(<<"from_cstr", x, s>>, x, <<>>, {"not_null_terminated"})
  ELSE LET q == Abs!UpToNul(Abs!Text(s))
       IN  Makes(<<"from_cstr", x, s>>, x, q, IF q = <<>> THEN {"ok"} ELSE Abs!Room(Len(q)))

\* The c_str() of a string without storage is a static "": nothing before its NUL.
LEMMA StaticText ==
  ASSUME NEW K, StrInv(K), NEW s \in Source, Within(K, s), Cstr(s), StaticEmpty(s), NEW w, w = Abs!Text(s)
  PROVE  s.of # Null /\ Abs!Nuls(w) # {} /\ Abs!UpToNul(w) = <<>>
<1>1. PICK y, b : y \in Obj /\ y \in K /\ y = s.of /\ b = obj[y] /\ b.data = Null
  BY CstrOwn DEF StaticEmpty, target, StrInv
<1>2. y # Null /\ y # Caller
  BY <1>1, ContainerAssumption, MemoryAssumption
<1>3. b.size = 0 /\ Held[y] \in Seq(Cell) /\ Len(Held[y]) = 0
  BY <1>1, HeaderFacts
<1>4. s.off \in Nat /\ s.len \in Nat
  BY SizeAssumption DEF Source
<1>5. s.off + s.len = b.size + 1 /\ s.len > 0
  BY <1>1, <1>2, <1>4 DEF Cstr
<1>6. s.off = 0 /\ s.len = 1
  BY <1>3, <1>4, <1>5
<1>7. PICK u : u = Append(Held[y], 0)
  OBVIOUS
<1>8. w = [i \in 1 .. 1 |-> u[0 + i]] /\ u[1] = 0 /\ 0 \in Cell
  <2>1. w = [i \in 1 .. s.len |-> u[s.off + i]]
    BY <1>1, <1>2, <1>6, <1>7 DEF Abs!Text, Abs!Part, Held
  <2>2. 0 \in Cell
    BY MemoryAssumption DEF Cell
  <2>3. u[1] = 0
    BY <1>3, <1>7, <2>2, AppendProperties
  <2> QED BY <1>6, <2>1, <2>2, <2>3
<1>9. PICK m \in Nat, n \in Nat : m = 1 /\ n = 0
  OBVIOUS
<1>10. w \in Seq(Cell) /\ Len(w) = m /\ w[1] = 0
  <2>1. w \in [1 .. m -> Cell] /\ w[1] = 0
    BY <1>8, <1>9
  <2> QED BY <2>1, FunSeq
<1>11. Abs!Nuls(w) # {} /\ Abs!UpToNul(w) = Abs!Part(w, 0, n)
  <2>1. n < m /\ w[n + 1] = 0 /\ \A i \in Nat : i < n => w[i + 1] # 0
    BY <1>9, <1>10
  <2> QED BY <1>10, <2>1, FirstNul
<1>12. Abs!Part(w, 0, n) = <<>>
  <2>1. n <= Len(w)
    BY <1>9, <1>10
  <2>2. Abs!Part(w, 0, n) \in Seq(Cell) /\ Len(Abs!Part(w, 0, n)) = 0
    BY <1>9, <1>10, <2>1, StartOf
  <2> QED BY <2>2, EmptySeq
<1> QED BY <1>1, <1>2, <1>11, <1>12

\* A string made of it is empty.
LEMMA FromStaticEmpty ==
  ASSUME NEW K, StrInv(K), NEW x \in Obj, x \in K, NEW s \in Source, Within(K, s), StaticEmpty(s), FromCstr(x, s)
  PROVE  FromCstrDoes(x, s)
<1>1. PICK w, c : w = Abs!Text(s) /\ c = <<"from_cstr", x, s>>
  OBVIOUS
<1>2. s.of # Null /\ Abs!Nuls(w) # {} /\ Abs!UpToNul(w) = <<>>
  BY <1>1, StaticText DEF FromCstr
<1>3. PICK o \in from_bytes(heap, Null, 0, 0) : Creates(c, x, o)
  BY <1>1 DEF FromCstr
<1>4. PICK k, q, codes : k = Empty /\ q = <<>> /\ codes = {"ok"}
  OBVIOUS
<1>5. GoodHeap(heap) /\ Sound(heap, k) /\ k.size = 0
  BY <1>4, EmptySound DEF StrInv, Inv, Empty
<1>6. o = Outcome("ok", heap, k, FALSE)
  BY <1>3, <1>4 DEF from_bytes
<1>7. q = Bytes(heap, k)
  BY <1>4, <1>5, EmptyBytes
<1>8. Leaves(k, q, codes, o)
  BY <1>4, <1>5, <1>6, <1>7, NothingLeaves
<1>9. x \notin alive
  BY <1>3 DEF Creates
<1>10. Makes(c, x, q, codes)
  BY <1>3, <1>4, <1>8, <1>9 DEF Makes
<1> QED BY <1>1, <1>2, <1>4, <1>10 DEF FromCstrDoes

\* What bounded_strlen finds of any other C string: nothing, if it has no NUL,
\* else as many bytes as come before the first one, all of them written.
LEMMA CstrText ==
  ASSUME NEW K, StrInv(K), NEW s \in Source, Within(K, s), Cstr(s), s.of # Null, ~ StaticEmpty(s),
         NEW w, w = Abs!Text(s), NEW p, p = target(s), NEW off, off = s.off,
         NEW n, n = bounded_strlen(heap, p, off, MAX_ALLOC_BYTES)
  PROVE  /\ p # Null
         /\ n = Nullopt => Abs!Nuls(w) = {} /\ Inside(heap, p, off, MAX_ALLOC_BYTES)
         /\ n # Nullopt =>
              /\ n \in Nat /\ n < s.len /\ n < MAX_ALLOC_BYTES /\ n \in Size /\ Inside(heap, p, off, n + 1)
              /\ n # 0 => Written(heap, p, off, n)
              /\ Abs!Nuls(w) # {} /\ TextAt(p, off, n, Abs!UpToNul(w))
<1>1. /\ Inv(K) /\ GoodHeap(heap) /\ p \in Block \cup {Null} /\ off \in Nat /\ s.len \in Nat
      /\ MAX_ALLOC_BYTES \in Nat /\ MAX_ALLOC_BYTES <= SIZE_MAX /\ SIZE_MAX \in Nat
  <2>1. Inv(K) /\ GoodHeap(heap)
    BY DEF StrInv, Inv
  <2> QED BY <2>1, SourceType, SizeAssumption
<1>2. Readable(s, 1) /\ s.len # 0 /\ s.len <= MAX_ALLOC_BYTES /\ p # Null
  BY CstrSource
<1>3. PICK l : l = s.len
  OBVIOUS
<1>4. /\ w \in Seq(Cell) /\ Len(w) = l /\ l \in Nat
      /\ \A i, e \in Nat : i < l /\ e = off + i => w[i + 1] = Load(heap, p, e)
  BY <1>1, <1>2, <1>3, TextCells
<1>5. \/ /\ n = Nullopt
         /\ \A i \in 0 .. MAX_ALLOC_BYTES - 1 : Load(heap, p, off + i) # 0
      \/ /\ n \in 0 .. MAX_ALLOC_BYTES - 1 /\ Load(heap, p, off + n) = 0
         /\ \A i \in 0 .. MAX_ALLOC_BYTES - 1 : Load(heap, p, off + i) = 0 => n <= i
  BY <1>1, StrlenFinds
<1>6. /\ Written(heap, p, off, l)
      /\ n = Nullopt => Inside(heap, p, off, MAX_ALLOC_BYTES)
      /\ n # Nullopt => n \in Nat /\ n < l /\ Inside(heap, p, off, n + 1)
  BY <1>3, CstrReadable
<1>7. ASSUME NEW i \in Nat, i < l
      PROVE  i \in 0 .. MAX_ALLOC_BYTES - 1 /\ w[i + 1] = Load(heap, p, off + i)
  <2>1. PICK e \in Nat : e = off + i
    BY <1>1
  <2>2. w[i + 1] = Load(heap, p, e)
    BY <1>4, <1>7, <2>1
  <2> QED BY <1>1, <1>2, <1>3, <1>7, <2>1, <2>2
<1>8. ASSUME n = Nullopt PROVE Abs!Nuls(w) = {}
  <2>1. ASSUME NEW j \in 1 .. l PROVE w[j] # 0
    <3>1. PICK i \in Nat : i + 1 = j /\ i < l
      <4>1. j - 1 \in Nat /\ (j - 1) + 1 = j /\ j - 1 < l
        BY <1>4
      <4> QED BY <4>1
    <3>2. i \in 0 .. MAX_ALLOC_BYTES - 1 /\ w[i + 1] = Load(heap, p, off + i)
      BY <1>7, <3>1
    <3>3. \A k \in 0 .. MAX_ALLOC_BYTES - 1 : Load(heap, p, off + k) # 0
      BY <1>1, <1>5, <1>8
    <3> QED BY <3>1, <3>2, <3>3
  <2> QED BY <1>4, <2>1 DEF Abs!Nuls
<1>9. ASSUME n # Nullopt
      PROVE  /\ n \in Nat /\ n < l /\ n < MAX_ALLOC_BYTES /\ n \in Size
             /\ n # 0 => Written(heap, p, off, n)
             /\ Abs!Nuls(w) # {} /\ TextAt(p, off, n, Abs!UpToNul(w))
  <2>1. n \in Nat /\ n < l /\ n < MAX_ALLOC_BYTES /\ n \in Size /\ Load(heap, p, off + n) = 0
    BY <1>1, <1>2, <1>3, <1>4, <1>5, <1>6, <1>9
  <2>2. w[n + 1] = 0
    BY <1>7, <2>1
  <2>3. ASSUME NEW i \in Nat, i < n PROVE w[i + 1] # 0
    <3>1. i < l /\ ~(n <= i)
      BY <1>4, <2>1, <2>3
    <3>2. i \in 0 .. MAX_ALLOC_BYTES - 1 /\ w[i + 1] = Load(heap, p, off + i)
      BY <1>7, <3>1
    <3>3. \A k \in 0 .. MAX_ALLOC_BYTES - 1 : Load(heap, p, off + k) = 0 => n <= k
      BY <1>5, <1>9
    <3> QED BY <3>1, <3>2, <3>3
  <2>4. PICK q : q = Abs!Part(w, 0, n)
    OBVIOUS
  <2>5. Abs!Nuls(w) # {} /\ Abs!UpToNul(w) = q
    <3>1. l \in Nat /\ Len(w) = l /\ n \in Nat /\ n < l /\ w[n + 1] = 0
      BY <1>4, <2>1, <2>2
    <3>2. \A i \in Nat : i < n => w[i + 1] # 0
      BY <2>3
    <3> QED BY <2>4, <3>1, <3>2, FirstNul
  <2>6. q \in Seq(Cell) /\ Len(q) = n /\ \A i \in 1 .. n : q[i] = w[i]
    <3>1. n <= Len(w)
      BY <1>4, <2>1
    <3> QED BY <1>4, <2>1, <2>4, <3>1, StartOf
  <2>7. ASSUME NEW i \in Nat, NEW e \in Nat, i < n, e = off + i PROVE q[i + 1] = Load(heap, p, e)
    <3>1. i + 1 \in 1 .. n /\ i < l
      BY <1>4, <2>1, <2>7
    <3>2. q[i + 1] = w[i + 1] /\ w[i + 1] = Load(heap, p, off + i)
      BY <1>7, <2>6, <3>1
    <3> QED BY <2>7, <3>2
  <2>8. n # 0 => Written(heap, p, off, n)
    <3>1. GoodHeap(heap) /\ Written(heap, p, off, l) /\ n \in Nat /\ n <= l
      BY <1>1, <1>4, <1>6, <2>1
    <3> QED BY <3>1, WrittenPart
  <2>9. TextAt(p, off, n, q)
    BY <2>6, <2>7 DEF TextAt
  <2> QED BY <2>1, <2>5, <2>8, <2>9
<1> QED BY <1>2, <1>3, <1>6, <1>8, <1>9

\* from_cstr: the bytes before the first NUL, if there is one to find.
LEMMA FromCstrMakes ==
  ASSUME NEW K, StrInv(K), NEW x \in Obj, x \in K, NEW s \in Source, Within(K, s), FromCstr(x, s)
  PROVE  FromCstrDoes(x, s)
<1>1. CASE StaticEmpty(s)
  BY <1>1, FromStaticEmpty
<1>2. CASE ~ StaticEmpty(s)
  <2>1. PICK c, p, off : c = <<"from_cstr", x, s>> /\ p = target(s) /\ off = s.off
    OBVIOUS
  <2>2. PICK o \in from_cstr(heap, p, off) : Creates(c, x, o)
    BY <1>2, <2>1 DEF FromCstr
  <2>3. /\ Cstr(s) /\ Inv(K) /\ GoodHeap(heap) /\ x \notin alive
        /\ p \in Block \cup {Null} /\ off \in Nat /\ s.len \in Nat /\ MAX_ALLOC_BYTES \in Nat
        /\ MAX_ALLOC_BYTES <= SIZE_MAX /\ SIZE_MAX \in Nat
        /\ s.of = Null => p = Null
    <3>1. Cstr(s) /\ Inv(K) /\ GoodHeap(heap)
      BY DEF FromCstr, StrInv, Inv
    <3>2. x \notin alive
      BY <2>2 DEF Creates
    <3>3. p \in Block \cup {Null} /\ off \in Nat /\ s.len \in Nat /\ (s.of = Null => p = Null)
      BY <2>1, <3>1, SourceType
    <3> QED BY <3>1, <3>2, <3>3, SizeAssumption
  <2>4. ASSUME NEW code, code # "ok", o = Outcome(code, heap, Empty, FALSE)
        PROVE  Makes(c, x, <<>>, {code})
    <3>1. PICK b, q, codes : b = Empty /\ q = <<>> /\ codes = {code}
      OBVIOUS
    <3>2. GoodHeap(heap) /\ Sound(heap, b) /\ code \in codes /\ o = Outcome(code, heap, b, FALSE)
      BY <2>3, <2>4, <3>1, EmptySound
    <3>3. Leaves(b, q, codes, o)
      BY <2>4, <3>2, RefusalLeaves
    <3> QED BY <2>2, <2>3, <3>1, <3>3 DEF Makes
  <2>5. CASE s.of = Null
    <3>1. o = Outcome("null_pointer", heap, Empty, FALSE)
      BY <2>2, <2>3, <2>5 DEF from_cstr
    <3> QED BY <2>1, <2>4, <2>5, <3>1 DEF FromCstrDoes
  <2>6. CASE s.of # Null
    <3>1. PICK w, n : w = Abs!Text(s) /\ n = bounded_strlen(heap, p, off, MAX_ALLOC_BYTES)
      OBVIOUS
    <3>2. /\ p # Null
          /\ n = Nullopt => Abs!Nuls(w) = {} /\ Inside(heap, p, off, MAX_ALLOC_BYTES)
          /\ n # Nullopt =>
               /\ n \in Nat /\ n < s.len /\ n < MAX_ALLOC_BYTES /\ n \in Size /\ Inside(heap, p, off, n + 1)
               /\ n # 0 => Written(heap, p, off, n)
               /\ Abs!Nuls(w) # {} /\ TextAt(p, off, n, Abs!UpToNul(w))
      BY <1>2, <2>1, <2>3, <2>6, <3>1, CstrText
    <3>3. CASE n = Nullopt
      <4>1. o = Outcome("not_null_terminated", heap, Empty, FALSE)
        BY <2>2, <3>1, <3>2, <3>3 DEF from_cstr
      <4>2. Makes(c, x, <<>>, {"not_null_terminated"})
        BY <2>4, <4>1
      <4> QED BY <2>1, <2>6, <3>1, <3>2, <3>3, <4>2 DEF FromCstrDoes
    <3>4. CASE n # Nullopt
      <4>1. PICK q : q = Abs!UpToNul(w)
        OBVIOUS
      <4>2. /\ n \in Nat /\ n < MAX_ALLOC_BYTES /\ n \in Size /\ Inside(heap, p, off, n + 1)
            /\ n # 0 => Written(heap, p, off, n)
            /\ q \in Seq(Cell) /\ Len(q) = n
            /\ \A i, e \in Nat : i < n /\ e = off + i => q[i + 1] = Load(heap, p, e)
        BY <3>2, <3>4, <4>1 DEF TextAt
      <4>3. PICK u \in from_bytes(heap, p, off, n) : o = [u EXCEPT !.bad = u.bad \/ ~ Inside(heap, p, off, n + 1)]
        BY <2>2, <3>1, <3>2, <3>4 DEF from_cstr
      <4>4. PICK codes : codes = IF n = 0 THEN {"ok"} ELSE IF p = Null THEN {"null_pointer"} ELSE Abs!Room(n)
        OBVIOUS
      <4>5. n = 0 => q = <<>>
        BY <4>2, EmptySeq
      <4>6. Leaves(Empty, q, codes, u)
        <5>1. /\ n # 0 /\ n < MAX_ALLOC_BYTES /\ p # Null =>
                   /\ q \in Seq(Cell) /\ Len(q) = n
                   /\ \A i, e \in Nat : i < n /\ e = off + i => q[i + 1] = Load(heap, p, e)
              /\ n # 0 /\ p # Null /\ n < MAX_ALLOC_BYTES => Written(heap, p, off, n)
          BY <4>2
        <5> QED BY <2>3, <4>2, <4>3, <4>4, <4>5, <5>1, FromBytesLeaves
      <4>7. o.heap = u.heap /\ o.buf = u.buf /\ o.code = u.code /\ o.bad = FALSE
        <5>1. Recorded(u)
          BY <4>3, FromBytesRecorded
        <5>2. u.bad = FALSE
          BY <4>6 DEF Leaves, Local
        <5>3. o = [u EXCEPT !.bad = FALSE]
          BY <4>2, <4>3, <5>2
        <5> QED BY <5>1, <5>3 DEF Recorded
      <4>8. Leaves(Empty, q, codes, o)
        BY <4>6, <4>7 DEF Leaves, Local
      <4>9. codes = IF q = <<>> THEN {"ok"} ELSE Abs!Room(Len(q))
        BY <3>2, <4>2, <4>4, EmptySeq
      <4>10. Makes(c, x, q, codes)
        BY <2>2, <2>3, <4>8 DEF Makes
      <4> QED BY <2>1, <2>6, <3>1, <3>2, <3>4, <4>1, <4>9, <4>10 DEF FromCstrDoes
    <3> QED BY <3>3, <3>4
  <2> QED BY <2>5, <2>6
<1> QED BY <1>1, <1>2

-----------------------------------------------------------------------------
(***************************************************************************)
(* The calls on a live string.                                             *)
(***************************************************************************)

\* The call c returns v, or is refused with one of the codes.
Hands(c, v, codes) ==
  \E code, val : /\ Looks(c, code, val, FALSE) /\ code \in codes
                 /\ code = "ok" => val = v
                 /\ code # "ok" => val = <<>>

\* A call that only reads.
LEMMA HandsStep ==
  ASSUME NEW K, Inv(K), NEW c, NEW v, NEW codes, Hands(c, v, codes)
  PROVE  call' = c /\ Abs!Yields(v, codes)
<1>1. PICK code, val : /\ Looks(c, code, val, FALSE) /\ code \in codes
                       /\ code = "ok" => val = v
                       /\ code # "ok" => val = <<>>
  BY DEF Hands
<1>2. call' = c /\ Tells(v, codes)
  BY <1>1, LooksTells
<1>3. Abs!Yields(v, codes)
  BY <1>2 DEF Tells, Abs!Yields, Abs!Refuses, Held
<1> QED BY <1>2, <1>3

\* at: the byte asked for, if there is one.
LEMMA AtHands ==
  ASSUME NEW K, StrInv(K), NEW x \in Obj, x \in K, NEW i \in Size, At(x, i)
  PROVE  x \in alive /\ Hands(<<"at", x, i>>, <<Held[x][i + 1]>>, Abs!Index(i < Len(Held[x])))
<1>1. PICK b, c, v, codes : b = obj[x] /\ c = <<"at", x, i>> /\ v = <<Held[x][i + 1]>>
                            /\ codes = Abs!Index(i < Len(Held[x]))
  OBVIOUS
<1>2. /\ b.size \in Nat /\ b.cap \in Nat /\ b.size <= b.cap /\ Len(Held[x]) = b.size
      /\ b.data = Null => b.size = 0
      /\ b.data # Null => heap[b.data].len = b.cap + 1
      /\ \A j \in 1 .. b.size : Held[x][j] = Load(heap, b.data, j - 1)
  BY <1>1, HeaderFacts
<1>3. i \in Nat
  BY SizeAssumption
<1>4. \/ i >= b.size /\ Looks(c, "out_of_range", <<>>, FALSE)
      \/ i < b.size /\ Looks(c, "ok", <<Load(heap, b.data, i)>>, ~ Inside(heap, b.data, i, 1))
  BY <1>1 DEF At
<1>5. CASE i >= b.size /\ Looks(c, "out_of_range", <<>>, FALSE)
  <2>1. "out_of_range" \in codes
    BY <1>1, <1>2, <1>3, <1>5 DEF Abs!Index
  <2>2. Hands(c, v, codes)
    BY <1>5, <2>1 DEF Hands
  <2> QED BY <1>1, <2>2 DEF At
<1>6. CASE i < b.size /\ Looks(c, "ok", <<Load(heap, b.data, i)>>, ~ Inside(heap, b.data, i, 1))
  <2>1. "ok" \in codes
    BY <1>1, <1>2, <1>3, <1>6 DEF Abs!Index
  <2>2. Inside(heap, b.data, i, 1)
    BY <1>2, <1>3, <1>6 DEF Inside
  <2>3. (~ Inside(heap, b.data, i, 1)) = FALSE
    BY <2>2
  <2>4. v = <<Load(heap, b.data, i)>>
    <3>1. PICK j \in 1 .. b.size : j = i + 1 /\ j - 1 = i
      BY <1>2, <1>3, <1>6
    <3> QED BY <1>1, <1>2, <3>1
  <2>5. Looks(c, "ok", v, FALSE)
    BY <1>6, <2>3, <2>4
  <2>6. Hands(c, v, codes)
    BY <2>1, <2>5 DEF Hands
  <2> QED BY <1>1, <2>6 DEF At
<1> QED BY <1>4, <1>5, <1>6

\* copy_to_cstr: as much as fits, with a terminator, and "truncated" if that
\* is not all.
LEMMA CopyToCstrCopies ==
  ASSUME NEW K, StrInv(K), NEW x \in Obj, x \in K, NEW out \in BOOLEAN, NEW n \in Size, CopyToCstr(x, out, n)
  PROVE  call' = <<"copy_to_cstr", x, out, n>> /\ x \in alive /\ Abs!CopyOut(Held[x], out, n)
<1>1. PICK b, c, q, k : b = obj[x] /\ c = <<"copy_to_cstr", x, out, n>> /\ q = Held[x]
                        /\ k = IF b.size < n - 1 THEN b.size ELSE n - 1
  OBVIOUS
<1>2. /\ b.size \in Nat /\ Len(q) = b.size
      /\ \A j \in 1 .. b.size : q[j] = Load(heap, b.data, j - 1)
  BY <1>1, HeaderFacts
<1>3. n \in Nat /\ x \in alive
  BY SizeAssumption DEF CopyToCstr
<1>4. PICK v : v = [i \in 1 .. k |-> Load(heap, b.data, i - 1)]
  OBVIOUS
<1>5. /\ call' = c /\ heap' = heap /\ obj' = obj /\ alive' = alive
      /\ \/ n = 0 /\ ret' = [code |-> "invalid_argument", val |-> <<>>]
         \/ n > 0 /\ ~out /\ ret' = [code |-> "null_pointer", val |-> <<>>]
         \/ n > 0 /\ out /\ ret' = [code |-> IF k < b.size THEN "truncated" ELSE "ok", val |-> Append(v, 0)]
  BY <1>1, <1>4, ZenonT(30) DEF CopyToCstr, Looks, Returns
<1>6. Held' = Held
  BY <1>5, UnchangedHeld
<1>7. k = Abs!Smaller(Len(q), n - 1)
  BY <1>1, <1>2 DEF Abs!Smaller
<1>8. n > 0 => v = Abs!Part(q, 0, k)
  <2> SUFFICES ASSUME n > 0 PROVE v = Abs!Part(q, 0, k)
    OBVIOUS
  <2>1. k \in Nat /\ k <= b.size
    BY <1>1, <1>2, <1>3
  <2>2. \A i \in 1 .. k : q[0 + i] = Load(heap, b.data, i - 1)
    BY <1>2, <2>1
  <2> QED BY <1>4, <2>2 DEF Abs!Part
<1>9. CASE n = 0
  <2>1. ret' = [code |-> "invalid_argument", val |-> <<>>]
    BY <1>3, <1>5, <1>9
  <2>2. Abs!CopyOut(q, out, n)
    BY <1>5, <1>6, <1>9, <2>1 DEF Abs!CopyOut, Abs!Refuses, Held
  <2> QED BY <1>1, <1>3, <1>5, <2>2
<1>10. CASE n > 0 /\ ~out
  <2>1. ret' = [code |-> "null_pointer", val |-> <<>>] /\ n # 0
    BY <1>3, <1>5, <1>10
  <2>2. Abs!CopyOut(q, out, n)
    BY <1>5, <1>6, <1>10, <2>1 DEF Abs!CopyOut, Abs!Refuses, Held
  <2> QED BY <1>1, <1>3, <1>5, <2>2
<1>11. CASE n > 0 /\ out
  <2>1. n # 0 /\ ret' = [code |-> IF k < Len(q) THEN "truncated" ELSE "ok", val |-> Append(Abs!Part(q, 0, k), 0)]
    BY <1>2, <1>3, <1>5, <1>8, <1>11
  <2>2. Abs!CopyOut(q, out, n)
    BY <1>5, <1>6, <1>7, <1>11, <2>1 DEF Abs!CopyOut, Held
  <2> QED BY <1>1, <1>3, <1>5, <2>2
<1> QED BY <1>3, <1>9, <1>10, <1>11

\* clear and secure_clear: an empty string.
LEMMA ClearActs ==
  ASSUME NEW K, StrInv(K), NEW x \in Obj, x \in K
  PROVE  /\ Clear(x) => Acts(<<"clear", x>>, x, <<>>, {"ok"})
         /\ SecureClear(x) => Acts(<<"secure_clear", x>>, x, <<>>, {"ok"})
<1>1. PICK b : b = obj[x]
  OBVIOUS
<1>2. GoodHeap(heap) /\ Sound(heap, b)
  BY <1>1, HeaderFacts
<1>3. ASSUME NEW g, Local(heap, b, Ok(g, b)), NEW o, o = clear(g, b) PROVE Leaves(b, <<>>, {"ok"}, o)
  <2>1. Done(heap, b, o) /\ o.code = "ok" /\ o.buf.size = 0
    BY <1>2, <1>3, ClearDone
  <2> QED BY <2>1, EmptyLeaves DEF Done
<1>4. ASSUME Clear(x) PROVE Acts(<<"clear", x>>, x, <<>>, {"ok"})
  <2>1. PICK o : o = clear(heap, b)
    OBVIOUS
  <2>2. x \in alive /\ Ends(<<"clear", x>>, x, o)
    BY <1>1, <1>4, <2>1 DEF Clear
  <2>3. Local(heap, b, Ok(heap, b))
    BY <1>2, SameLocal DEF Ok
  <2>4. Leaves(b, <<>>, {"ok"}, o)
    BY <1>3, <2>1, <2>3
  <2> QED BY <1>1, <2>2, <2>4 DEF Acts
<1>5. ASSUME SecureClear(x) PROVE Acts(<<"secure_clear", x>>, x, <<>>, {"ok"})
  <2>1. PICK g : g = secure_zero(heap, b.data, b.size)
    OBVIOUS
  <2>2. PICK o : o = clear(g, b)
    OBVIOUS
  <2>3. x \in alive /\ Ends(<<"secure_clear", x>>, x, o)
    BY <1>1, <1>5, <2>1, <2>2 DEF SecureClear
  <2>4. Local(heap, b, Ok(g, b))
    BY <1>2, <2>1, ZeroLocal
  <2>5. Leaves(b, <<>>, {"ok"}, o)
    BY <1>3, <2>2, <2>4
  <2> QED BY <1>1, <2>3, <2>5 DEF Acts
<1> QED BY <1>4, <1>5

\* reserve: the bytes stay; a string never shrinks.
LEMMA ReserveActs ==
  ASSUME NEW K, StrInv(K), NEW x \in Obj, x \in K, NEW n \in Size, Reserve(x, n)
  PROVE  Acts(<<"reserve", x, n>>, x, Held[x], IF n <= Len(Held[x]) THEN {"ok"} ELSE Abs!Room(n))
<1>1. PICK b, c, q, codes : b = obj[x] /\ c = <<"reserve", x, n>> /\ q = Held[x]
                            /\ codes = IF n <= Len(q) THEN {"ok"} ELSE Abs!Room(n)
  OBVIOUS
<1>2. PICK o \in reserve_exact(heap, b, n) : Ends(c, x, o)
  BY <1>1 DEF Reserve
<1>3. /\ x \in alive /\ n \in Nat /\ SIZE_MAX \in Nat /\ MAX_ALLOC_BYTES \in Nat /\ MAX_ALLOC_BYTES <= SIZE_MAX
  BY SizeAssumption DEF Reserve
<1>4. /\ GoodHeap(heap) /\ Sound(heap, b) /\ Ended(heap, b) /\ b.size \in Nat /\ b.cap \in Nat /\ b.size <= b.cap
      /\ b.data = Null => b.cap = 0
      /\ b.data # Null => b.cap + 1 <= MAX_ALLOC_BYTES
      /\ Len(q) = b.size /\ q = Bytes(heap, b)
  BY <1>1, HeaderFacts
<1>5. Grown(heap, b, n, o)
  BY <1>2, <1>4, ReserveGrown
<1>6. (n <= b.cap => o.code = "ok") /\ (n > b.cap => o.code \in Abs!Room(n))
  BY <1>2, <1>4, ReserveCodes
<1>7. o.code \in codes
  <2>1. CASE n <= b.size
    <3>1. n <= b.cap /\ codes = {"ok"}
      BY <1>1, <1>3, <1>4, <2>1
    <3> QED BY <1>6, <3>1
  <2>2. CASE n > b.size /\ n <= b.cap
    <3>1. b.cap + 1 <= MAX_ALLOC_BYTES
      BY <1>3, <1>4, <2>2
    <3>2. "ok" \in Abs!Room(n) /\ codes = Abs!Room(n)
      BY <1>1, <1>3, <1>4, <2>2, <3>1 DEF Abs!Room
    <3> QED BY <1>6, <2>2, <3>2
  <2>3. CASE n > b.cap
    <3>1. codes = Abs!Room(n)
      BY <1>1, <1>3, <1>4, <2>3
    <3> QED BY <1>6, <2>3, <3>1
  <2> QED BY <1>3, <1>4, <2>1, <2>2, <2>3
<1>8. Leaves(b, q, codes, o)
  BY <1>4, <1>5, <1>7, GrownLeaves
<1> QED BY <1>1, <1>2, <1>3, <1>8 DEF Acts

\* append of one byte.
LEMMA AppendCharActs ==
  ASSUME SensibleLimits, NEW K, StrInv(K), NEW x \in Obj, x \in K, NEW v \in Byte, AppendChar(x, v)
  PROVE  Acts(<<"append_char", x, v>>, x, Append(Held[x], v), Abs!Grow(Len(Held[x]), Len(Held[x]) + 1))
<1>1. PICK b, c, q, codes : b = obj[x] /\ c = <<"append_char", x, v>> /\ q = Held[x]
                            /\ codes = Abs!Grow(Len(q), Len(q) + 1)
  OBVIOUS
<1>2. /\ Inv(K) /\ GoodHeap(heap) /\ Sound(heap, b) /\ Ended(heap, b) /\ b.size \in Nat /\ b.size \in Size
      /\ Len(q) = b.size /\ q \in Seq(Cell)
  BY <1>1, HeaderFacts DEF StrInv
<1>3. PICK m : m = checked_add(b.size, 1)
  OBVIOUS
<1>4. m = IF b.size + 1 \in Size THEN b.size + 1 ELSE Nullopt
  <2>1. 1 \in Size
    BY SizeAssumption
  <2> QED BY <1>2, <1>3, <2>1, CheckedAddExact
<1> DEFINE Put(g) == Outcome("ok", memset(g.heap, g.buf.data, b.size, v, 1), g.buf,
                             ~ Inside(g.heap, g.buf.data, b.size, 1))
<1>5. PICK g \in IF m = Nullopt THEN {Outcome("overflow", heap, b, FALSE)} ELSE grow_to_at_least(heap, b, m) :
        Ends(c, x, IF g.code = "ok" THEN Sized(Put(g), m) ELSE g)
  BY <1>1, <1>3 DEF AppendChar
<1>6. x \in alive /\ SIZE_MAX \in Nat
  BY SizeAssumption DEF AppendChar
<1>7. PICK o : o = IF g.code = "ok" THEN Sized(Put(g), m) ELSE g
  OBVIOUS
<1>8. Leaves(b, Append(q, v), codes, o)
  <2>1. CASE m = Nullopt
    <3>1. PICK code : code = "overflow"
      OBVIOUS
    <3>2. g = Outcome(code, heap, b, FALSE) /\ g.code # "ok"
      BY <1>5, <2>1, <3>1 DEF Outcome
    <3>3. code \in codes
      <4>1. PICK s \in Nat, l \in Nat : s = b.size /\ l = b.size + 1
        BY <1>2
      <4>2. l > s /\ l > SIZE_MAX
        BY <1>4, <1>6, <2>1, <4>1
      <4>3. "overflow" \in Abs!Grow(s, l)
        BY <4>2, GrowCases
      <4> QED BY <1>1, <1>2, <3>1, <4>1, <4>3
    <3> QED BY <1>2, <1>7, <3>1, <3>2, <3>3, RefusalLeaves
  <2>2. CASE m # Nullopt
    <3>1. m \in Size /\ m = b.size + 1
      BY <1>4, <2>2
    <3>2. Grown(heap, b, m, g) /\ g.code \in codes
      <4>1. g \in grow_to_at_least(heap, b, m)
        BY <1>5, <2>2
      <4>2. Grown(heap, b, m, g)
        BY <1>2, <3>1, <4>1, GrowGrown
      <4>3. g.code \in Abs!Grow(b.size, m)
        BY <1>2, <3>1, <4>1, GrowCodes
      <4> QED BY <1>1, <1>2, <3>1, <4>2, <4>3
    <3>3. CASE g.code # "ok"
      BY <1>7, <3>2, <3>3 DEF Leaves, Grown, Done
    <3>4. CASE g.code = "ok"
      <4>1. o = Sized(Put(g), m)
        BY <1>7, <3>4
      <4>2. /\ Done(heap, b, o) /\ o.code = "ok" /\ o.buf.size = m
            /\ \A a \in Nat : a < b.size => Load(o.heap, o.buf.data, a) = Load(heap, b.data, a)
            /\ Load(o.heap, o.buf.data, b.size) = v
        BY <1>2, <3>1, <3>2, <3>4, <4>1, PushDone
      <4>3. PICK w : w = <<v>>
        OBVIOUS
      <4>4. w \in Seq(Cell) /\ Len(w) = 1 /\ w[1] = v
        BY <4>3 DEF Cell
      <4>5. /\ o.buf.size = b.size + Len(w) /\ Local(heap, b, o) /\ "ok" \in codes
            /\ \A a, i \in Nat : i < Len(w) /\ a = b.size + i => Load(o.heap, o.buf.data, a) = w[i + 1]
        BY <1>2, <3>1, <3>2, <3>4, <4>2, <4>4 DEF Done
      <4>6. Leaves(b, Held[x] \o w, codes, o)
        BY <1>1, <1>2, <4>2, <4>4, <4>5, AppendedLeaves
      <4>7. Append(q, v) = q \o w
        BY <1>2, <4>3 DEF Cell
      <4> QED BY <1>1, <4>6, <4>7
    <3> QED BY <3>3, <3>4
  <2> QED BY <2>1, <2>2
<1>9. Ends(c, x, o)
  BY <1>5, <1>7
<1> QED BY <1>1, <1>6, <1>8, <1>9 DEF Acts

\* What the argument of a call that takes n bytes to make m of them is: null,
\* or bytes that can be read if the result can fit.
LEMMA PassedText ==
  ASSUME NEW K, StrInv(K), NEW x \in Obj, x \in K, NEW s \in Source, Within(K, s), s.len # 0, NEW m \in Nat,
         s.of = Null \/ Readable(s, 1) \/ (s.of = Caller /\ m >= MAX_ALLOC_BYTES),
         NEW p, p = target(s), NEW off, off = s.off, NEW n, n = s.len, NEW w, w = Abs!Text(s)
  PROVE  /\ p = Null <=> s.of = Null
         /\ p # Null /\ m < MAX_ALLOC_BYTES =>
              /\ Written(heap, p, off, n)
              /\ w \in Seq(Cell) /\ Len(w) = n
              /\ \A i, e \in Nat : i < n /\ e = off + i => w[i + 1] = Load(heap, p, e)
         /\ p # Null /\ p = obj[x].data => s.of = x /\ off + n <= obj[x].size + 1 /\ off <= obj[x].size
<1>1. (s.of = Null => target(s) = Null) /\ MAX_ALLOC_BYTES \in Nat
  BY SourceType, SizeAssumption DEF StrInv
<1>2. /\ s.of # Null => target(s) # Null
      /\ s.of # Null /\ m < MAX_ALLOC_BYTES => Written(heap, target(s), s.off, s.len)
      /\ s.of # Null /\ target(s) = obj[x].data =>
           s.of = x /\ s.off + s.len <= obj[x].size + 1 /\ s.off <= obj[x].size
  BY Passed
<1>3. ASSUME p # Null, m < MAX_ALLOC_BYTES
      PROVE  /\ w \in Seq(Cell) /\ Len(w) = n
             /\ \A i, e \in Nat : i < n /\ e = off + i => w[i + 1] = Load(heap, p, e)
  <2>1. Readable(s, 1)
    BY <1>1, <1>3
  <2> QED BY <2>1, TextCells
<1> QED BY <1>1, <1>2, <1>3

\* append leaves the bytes of w after those of the string.
LEMMA AppendLeaves ==
  ASSUME SensibleLimits, NEW K, StrInv(K), NEW x \in Obj, x \in K, NEW b, b = obj[x],
         NEW p, NEW off, NEW n, AppendReady(x, p, off, n), NEW w,
         n = 0 => w = <<>>,
         n # 0 /\ p # Null /\ b.size + n < MAX_ALLOC_BYTES => TextAt(p, off, n, w),
         NEW codes, codes = IF n # 0 /\ p = Null THEN {"null_pointer"} ELSE Abs!Grow(b.size, b.size + n),
         NEW o \in append(heap, b, p, off, n)
  PROVE  Leaves(b, Held[x] \o w, codes, o)
<1>1. PICK q : q = Held[x]
  OBVIOUS
<1>2. /\ Inv(K) /\ GoodHeap(heap) /\ Sound(heap, b) /\ Ended(heap, b) /\ b.size \in Nat /\ b.size \in Size
      /\ b.cap \in Nat /\ b.size <= b.cap /\ Len(q) = b.size /\ q \in Seq(Cell) /\ q = Bytes(heap, b)
  BY <1>1, HeaderFacts DEF StrInv
<1>3. off \in Nat /\ n \in Nat /\ n \in Size /\ SIZE_MAX \in Nat /\ MAX_ALLOC_BYTES \in Nat
  BY SizeAssumption DEF AppendReady
<1>4. PICK m, l : m = b.size + n /\ l = b.size /\ m \in Nat /\ l \in Nat
  <2>1. b.size + n \in Nat
    BY <1>2, <1>3
  <2> QED BY <1>2, <2>1
<1>5. PICK k : k = checked_add(b.size, n)
  OBVIOUS
<1>6. k = IF m \in Size THEN m ELSE Nullopt
  BY <1>2, <1>3, <1>4, <1>5, CheckedAddExact
<1>7. codes = IF n # 0 /\ p = Null THEN {"null_pointer"} ELSE Abs!Grow(l, m)
  BY <1>4
<1>8. CASE n = 0
  <2>1. o = Outcome("ok", heap, b, FALSE)
    BY <1>8 DEF append
  <2>2. w = <<>>
    BY <1>8
  <2>3. q \o w = q
    BY <1>2, <2>2
  <2>4. "ok" \in codes
    <3>1. m <= l
      BY <1>4, <1>8
    <3> QED BY <1>4, <1>7, <1>8, <3>1, GrowCases
  <2>5. Leaves(b, q, codes, o)
    BY <1>2, <2>1, <2>4, NothingLeaves
  <2> QED BY <1>1, <2>3, <2>5
<1>9. CASE n # 0 /\ p = Null
  <2>1. PICK code : code = "null_pointer"
    OBVIOUS
  <2>2. o = Outcome(code, heap, b, FALSE) /\ code \in codes /\ code # "ok"
    BY <1>7, <1>9, <2>1 DEF append
  <2> QED BY <1>2, <2>2, RefusalLeaves
<1>10. CASE n # 0 /\ p # Null /\ k = Nullopt
  <2>1. PICK code : code = "overflow"
    OBVIOUS
  <2>2. o = Outcome(code, heap, b, FALSE) /\ code # "ok"
    BY <1>5, <1>10, <2>1 DEF append
  <2>3. m > l /\ m > SIZE_MAX
    BY <1>3, <1>4, <1>6, <1>10
  <2>4. code \in codes
    BY <1>4, <1>7, <1>10, <2>1, <2>3, GrowCases
  <2> QED BY <1>2, <2>2, <2>4, RefusalLeaves
<1>11. CASE n # 0 /\ p # Null /\ k # Nullopt
  <2>1. k = m /\ m \in Size
    BY <1>6, <1>11
  <2>2. PICK to : to = b.size
    OBVIOUS
  <2>3. PICK g \in copy_in_possibly_aliased(heap, b, to, p, off, n, m) :
          o = IF g.code = "ok" THEN Sized(g, m) ELSE g
    BY <1>5, <1>11, <2>1, <2>2 DEF append
  <2>4. CopyReady(heap, b, to, p, off, n, m)
    BY <1>2, <1>3, <1>4, <1>11, <2>1, <2>2 DEF CopyReady, AppendReady
  <2>5. /\ g.code = "ok" => Filled(heap, b, to, p, off, n, Sized(g, m))
        /\ g.code # "ok" => Done(heap, b, g) /\ g.heap = heap /\ g.buf = b
        /\ \E f \in grow_to_at_least(heap, b, m) : f.code = g.code
    BY <2>4, CopyInDone
  <2>6. g.code \in codes /\ codes = Abs!Grow(l, m)
    <3>1. PICK f \in grow_to_at_least(heap, b, m) : f.code = g.code
      BY <2>5
    <3>2. f.code \in Abs!Grow(b.size, m)
      BY <1>2, <2>1, <3>1, GrowCodes
    <3> QED BY <1>4, <1>7, <1>11, <3>1, <3>2
  <2>7. CASE g.code # "ok"
    BY <2>3, <2>5, <2>6, <2>7 DEF Leaves, Done
  <2>8. CASE g.code = "ok"
    <3>1. m < MAX_ALLOC_BYTES
      <4>1. m > l
        BY <1>3, <1>4, <1>11
      <4> QED BY <1>3, <1>4, <2>6, <2>8, <4>1, GrowCases
    <3>2. /\ w \in Seq(Cell) /\ Len(w) = n
          /\ \A i, e \in Nat : i < n /\ e = off + i => w[i + 1] = Load(heap, p, e)
      BY <1>4, <1>11, <3>1 DEF TextAt
    <3>3. o = Sized(g, m) /\ Filled(heap, b, to, p, off, n, o)
      BY <2>3, <2>5, <2>8
    <3>4. PICK h, d : h = o.heap /\ d = o.buf
      OBVIOUS
    <3>5. /\ Local(heap, b, o) /\ o.code = "ok" /\ d.size = b.size + n
          /\ \A a \in Nat : a < b.size => Load(h, d.data, a) = Load(heap, b.data, a)
          /\ \A i \in Nat : i < n => Load(h, d.data, to + i) = Load(heap, p, off + i)
      BY <2>2, <3>3, <3>4 DEF Filled, Done
    <3>6. ASSUME NEW a \in Nat, NEW i \in Nat, i < n, a = b.size + i PROVE Load(h, d.data, a) = w[i + 1]
      <4>1. PICK e \in Nat : e = off + i
        BY <1>3
      <4>2. Load(h, d.data, to + i) = Load(heap, p, off + i)
        BY <3>5, <3>6
      <4>3. w[i + 1] = Load(heap, p, e)
        BY <3>2, <3>6, <4>1
      <4> QED BY <2>2, <3>6, <4>1, <4>2, <4>3
    <3>7. /\ o.buf.size = b.size + Len(w) /\ "ok" \in codes
          /\ \A a \in Nat : a < b.size => Load(o.heap, o.buf.data, a) = Load(heap, b.data, a)
          /\ \A a, i \in Nat : i < Len(w) /\ a = b.size + i => Load(o.heap, o.buf.data, a) = w[i + 1]
      BY <2>6, <2>8, <3>2, <3>4, <3>5, <3>6
    <3> QED BY <1>2, <3>2, <3>5, <3>7, AppendedLeaves
  <2> QED BY <2>7, <2>8
<1> QED BY <1>8, <1>9, <1>10, <1>11

\* What append gives is an outcome.
LEMMA AppendRecorded ==
  ASSUME NEW h, NEW b, NEW p, NEW off, NEW n, NEW o \in append(h, b, p, off, n)
  PROVE  Recorded(o)
<1>1. \A code, g, c, f : Recorded(Outcome(code, g, c, f))
  BY DEF Recorded, Outcome
<1>2. \A u : Recorded(Terminated(u))
  BY <1>1 DEF Terminated
<1>3. \A m : \A u \in reserve_exact(h, b, m) : Recorded(u)
  BY <1>1, <1>2 DEF reserve_exact
<1>4. \A m : \A u \in grow_to_at_least(h, b, m) : Recorded(u)
  BY <1>1, <1>3 DEF grow_to_at_least
<1>5. \A u, to, q, from, m : Recorded(u) => Recorded(Moved(u, to, q, from, m))
  BY <1>1 DEF Moved
<1>6. \A to, m : \A u \in copy_in_possibly_aliased(h, b, to, p, off, n, m) : Recorded(u)
  BY <1>4, <1>5 DEF copy_in_possibly_aliased
<1>7. \A u, m : Recorded(Sized(u, m))
  BY <1>2 DEF Sized
<1> QED BY <1>1, <1>6, <1>7 DEF append

\* The length of C string s: what a scan up to the cap finds.
Scanned(s) == IF StaticEmpty(s) THEN 0 ELSE bounded_strlen(heap, target(s), s.off, MAX_ALLOC_BYTES)

\* What append needs of a C string whose n bytes up to the NUL have been found:
\* they lie in the string before its terminator, should it be the string's own.
LEMMA CstrReady ==
  ASSUME NEW K, StrInv(K), NEW x \in Obj, x \in K, NEW s \in Source, Within(K, s), Cstr(s), s.of # Null,
         NEW n, n = Scanned(s), n # Nullopt, NEW p, p = target(s), NEW off, off = s.off
  PROVE  /\ AppendReady(x, p, off, n) /\ n \in Nat /\ (n # 0 => p # Null)
         /\ Abs!Nuls(Abs!Text(s)) # {} /\ Len(Abs!UpToNul(Abs!Text(s))) = n
         /\ n # 0 => TextAt(p, off, n, Abs!UpToNul(Abs!Text(s)))
         /\ n = 0 => Abs!UpToNul(Abs!Text(s)) = <<>>
<1>1. PICK w, q : w = Abs!Text(s) /\ q = Abs!UpToNul(w)
  OBVIOUS
<1>2. /\ Inv(K) /\ off \in Nat /\ s.len \in Nat
      /\ obj[x].size \in Nat /\ obj[x].cap \in Nat /\ obj[x].size <= obj[x].cap
  <2>1. Inv(K) /\ GoodHeap(heap) /\ Sound(heap, obj[x])
    BY DEF StrInv, Inv
  <2> QED BY <2>1, SoundBounds, SourceType
<1>3. CASE StaticEmpty(s)
  <2>1. Abs!Nuls(w) # {} /\ q = <<>>
    BY <1>1, <1>3, StaticText
  <2>2. n = 0 /\ n \in Size
    BY <1>3, SizeAssumption DEF Scanned
  <2>3. Len(q) = 0
    BY <2>1
  <2>4. AppendReady(x, p, off, n)
    BY <1>2, <2>2 DEF AppendReady
  <2> QED BY <1>1, <2>1, <2>2, <2>3, <2>4
<1>4. CASE ~ StaticEmpty(s)
  <2>1. n = bounded_strlen(heap, p, off, MAX_ALLOC_BYTES)
    BY <1>4 DEF Scanned
  <2>2. /\ p # Null /\ n \in Nat /\ n < s.len /\ n \in Size
        /\ n # 0 => Written(heap, p, off, n)
        /\ Abs!Nuls(w) # {} /\ TextAt(p, off, n, q)
    BY <1>1, <1>4, <2>1, CstrText
  <2>3. Readable(s, 1) /\ s.len # 0
    BY <1>4, CstrSource
  <2>4. ASSUME n # 0, p = obj[x].data PROVE off + n <= obj[x].size + 1 /\ off < obj[x].cap
    <3>1. off + s.len <= obj[x].size + 1
      BY <2>3, <2>4, SourceWritten
    <3> QED BY <1>2, <2>2, <2>4, <3>1
  <2>5. AppendReady(x, p, off, n)
    BY <1>2, <2>2, <2>4 DEF AppendReady
  <2>6. Len(q) = n /\ (n = 0 => q = <<>>)
    BY <2>2, EmptySeq DEF TextAt
  <2> QED BY <1>1, <2>2, <2>5, <2>6
<1> QED BY <1>3, <1>4

\* Appending a C string: the bytes before its NUL, after those of the string.
LEMMA AppendCstrLeaves ==
  ASSUME SensibleLimits, NEW K, StrInv(K), NEW x \in Obj, x \in K,
         NEW s \in Source, Within(K, s), Cstr(s), s.of # Null,
         NEW n, n = Scanned(s), n # Nullopt, NEW o \in append(heap, obj[x], target(s), s.off, n)
  PROVE  Leaves(obj[x], Held[x] \o Abs!UpToNul(Abs!Text(s)),
                Abs!Grow(Len(Held[x]), Len(Held[x]) + Len(Abs!UpToNul(Abs!Text(s)))), o)
<1>1. PICK b, p, off, w, codes : /\ b = obj[x] /\ p = target(s) /\ off = s.off /\ w = Abs!UpToNul(Abs!Text(s))
                                 /\ codes = Abs!Grow(Len(Held[x]), Len(Held[x]) + Len(w))
  OBVIOUS
<1>2. /\ AppendReady(x, p, off, n) /\ n \in Nat /\ (n # 0 => p # Null) /\ Len(w) = n
      /\ n # 0 => TextAt(p, off, n, w)
      /\ n = 0 => w = <<>>
  BY <1>1, CstrReady
<1>3. Len(Held[x]) = b.size
  BY <1>1, HeaderFacts
<1>4. codes = IF n # 0 /\ p = Null THEN {"null_pointer"} ELSE Abs!Grow(b.size, b.size + n)
  BY <1>1, <1>2, <1>3
<1>5. o \in append(heap, b, p, off, n)
  BY <1>1
<1>6. Leaves(b, Held[x] \o w, codes, o)
  BY <1>1, <1>2, <1>4, <1>5, AppendLeaves
<1> QED BY <1>1, <1>6

\* It leaves a terminated string.
LEMMA AppendCstrDone ==
  ASSUME NEW K, StrInv(K), NEW x \in Obj, x \in K, NEW s \in Source, Within(K, s), Cstr(s), s.of # Null,
         NEW n, n = Scanned(s), n # Nullopt, NEW o \in append(heap, obj[x], target(s), s.off, n)
  PROVE  Done(heap, obj[x], o) /\ Recorded(o)
<1>1. PICK b, p, off : b = obj[x] /\ p = target(s) /\ off = s.off
  OBVIOUS
<1>2. AppendReady(x, p, off, n)
  BY <1>1, CstrReady
<1> QED BY <1>1, <1>2, AppendDone, AppendRecorded

\* append: the bytes of the source after those of the string.
LEMMA AppendBytesActs ==
  ASSUME "view_at_capacity" \in Excluded, SensibleLimits, NEW K, StrInv(K), NEW x \in Obj, x \in K,
         NEW s \in Source, Within(K, s), AppendBytes(x, s)
  PROVE  Acts(<<"append", x, s>>, x, Held[x] \o Abs!Text(s),
              Abs!Given(s, Abs!Grow(Len(Held[x]), Len(Held[x]) + s.len)))
<1>1. PICK b, c, q, w, p, off, n, codes :
        /\ b = obj[x] /\ c = <<"append", x, s>> /\ q = Held[x] /\ w = Abs!Text(s)
        /\ p = target(s) /\ off = s.off /\ n = s.len
        /\ codes = Abs!Given(s, Abs!Grow(Len(q), Len(q) + s.len))
  OBVIOUS
<1>2. b.size \in Nat /\ Len(q) = b.size
  BY <1>1, HeaderFacts
<1>3. PICK o \in append(heap, b, p, off, n) : Ends(c, x, o)
  BY <1>1 DEF AppendBytes
<1>4. x \in alive /\ ~ AtCapacity(x, s) /\ MayPass(s, 1, obj[x].size + s.len >= MAX_ALLOC_BYTES)
  BY DEF AppendBytes, Avoid
<1>5. AppendReady(x, p, off, n) /\ n \in Nat
  BY <1>1, <1>4, SourceReady, SizeAssumption DEF AppendReady
<1>6. PICK m : m = b.size + n /\ m \in Nat
  <2>1. b.size + n \in Nat
    BY <1>2, <1>5
  <2> QED BY <2>1
<1>7. n # 0 => (p = Null <=> s.of = Null) /\ (p # Null /\ m < MAX_ALLOC_BYTES => TextAt(p, off, n, w))
  <2>1. s.of = Null \/ Readable(s, 1) \/ (s.of = Caller /\ m >= MAX_ALLOC_BYTES)
    BY <1>1, <1>4, <1>6 DEF MayPass
  <2> QED BY <1>1, <1>6, <2>1, PassedText DEF TextAt
<1>8. codes = IF n # 0 /\ p = Null THEN {"null_pointer"} ELSE Abs!Grow(b.size, b.size + n)
  <2>1. s.len > 0 <=> n # 0
    BY <1>1, <1>5
  <2> QED BY <1>1, <1>2, <1>7, <2>1 DEF Abs!Given
<1>9. n = 0 => w = <<>>
  BY <1>1 DEF Abs!Text, Abs!Value
<1>10. n # 0 /\ p # Null /\ b.size + n < MAX_ALLOC_BYTES => TextAt(p, off, n, w)
  BY <1>6, <1>7
<1>11. Leaves(b, Held[x] \o w, codes, o)
  BY <1>1, <1>3, <1>5, <1>8, <1>9, <1>10, AppendLeaves
<1> QED BY <1>1, <1>3, <1>4, <1>11 DEF Acts

\* assign: the bytes of the source instead of those of the string.
LEMMA AssignActs ==
  ASSUME SensibleLimits, NEW K, StrInv(K), NEW x \in Obj, x \in K, NEW s \in Source, Within(K, s), Assign(x, s)
  PROVE  Acts(<<"assign", x, s>>, x, Abs!Text(s), Abs!Given(s, Abs!Grow(Len(Held[x]), s.len)))
<1>1. PICK b, c, q, w, p, off, n, codes :
        /\ b = obj[x] /\ c = <<"assign", x, s>> /\ q = Held[x] /\ w = Abs!Text(s)
        /\ p = target(s) /\ off = s.off /\ n = s.len
        /\ codes = Abs!Given(s, Abs!Grow(Len(q), s.len))
  OBVIOUS
<1>2. /\ Inv(K) /\ GoodHeap(heap) /\ Sound(heap, b) /\ Ended(heap, b) /\ b.size \in Nat
      /\ b.cap \in Nat /\ b.size <= b.cap /\ Len(q) = b.size /\ (b.data # Null => b.cap > 0)
  BY <1>1, HeaderFacts, SoundBounds DEF StrInv, Sound, SoundAs
<1>3. PICK o \in IF n = 0 THEN {clear(heap, b)}
                 ELSE IF p = Null THEN {Outcome("null_pointer", heap, b, FALSE)}
                 ELSE {IF g.code = "ok" THEN Sized(g, n) ELSE g
                         : g \in copy_in_possibly_aliased(heap, b, 0, p, off, n, n)} :
        Ends(c, x, o)
  BY <1>1 DEF Assign
<1>4. x \in alive /\ MayPass(s, 1, n >= MAX_ALLOC_BYTES)
  BY <1>1 DEF Assign
<1>5. off \in Nat /\ n \in Nat /\ n \in Size /\ SIZE_MAX \in Nat /\ MAX_ALLOC_BYTES \in Nat
  BY <1>1, <1>2, SourceType, SizeAssumption
<1>6. PICK l \in Nat : l = b.size
  BY <1>2
<1>7. n # 0 =>
        /\ p = Null <=> s.of = Null
        /\ p # Null /\ n < MAX_ALLOC_BYTES =>
             /\ Written(heap, p, off, n)
             /\ w \in Seq(Cell) /\ Len(w) = n
             /\ \A i, e \in Nat : i < n /\ e = off + i => w[i + 1] = Load(heap, p, e)
        /\ p # Null /\ p = b.data => s.of = x /\ off + n <= b.size + 1 /\ off <= b.size
  <2>1. s.of = Null \/ Readable(s, 1) \/ (s.of = Caller /\ n >= MAX_ALLOC_BYTES)
    BY <1>4 DEF MayPass
  <2>2. PICK m \in Nat : m = n
    BY <1>5
  <2>3. s.of = Null \/ Readable(s, 1) \/ (s.of = Caller /\ m >= MAX_ALLOC_BYTES)
    BY <2>1, <2>2
  <2>4. n # 0 =>
          /\ p = Null <=> s.of = Null
          /\ p # Null /\ m < MAX_ALLOC_BYTES =>
               /\ Written(heap, p, off, n)
               /\ w \in Seq(Cell) /\ Len(w) = n
               /\ \A i, e \in Nat : i < n /\ e = off + i => w[i + 1] = Load(heap, p, e)
          /\ p # Null /\ p = b.data => s.of = x /\ off + n <= b.size + 1 /\ off <= b.size
    BY <1>1, <2>3, PassedText
  <2> QED BY <2>2, <2>4
<1>8. codes = IF n # 0 /\ s.of = Null THEN {"null_pointer"} ELSE Abs!Grow(l, n)
  <2>1. s.len > 0 <=> n # 0
    BY <1>1, <1>5
  <2> QED BY <1>1, <1>2, <1>6, <2>1 DEF Abs!Given
<1>9. Leaves(b, w, codes, o)
  <2>1. CASE n = 0
    <3>1. Local(heap, b, Ok(heap, b))
      BY <1>2, SameLocal DEF Ok
    <3>2. o = clear(heap, b)
      BY <1>3, <2>1
    <3>3. Done(heap, b, o) /\ o.code = "ok" /\ o.buf.size = 0
      BY <1>2, <3>1, <3>2, ClearDone
    <3>4. w = <<>>
      BY <1>1, <2>1 DEF Abs!Text, Abs!Value
    <3>5. "ok" \in codes
      <4>1. n <= l
        BY <1>6, <2>1
      <4> QED BY <1>5, <1>8, <2>1, <4>1, GrowCases
    <3> QED BY <3>3, <3>4, <3>5, EmptyLeaves DEF Done
  <2>2. CASE n # 0 /\ p = Null
    <3>1. PICK code : code = "null_pointer"
      OBVIOUS
    <3>2. o = Outcome(code, heap, b, FALSE) /\ code \in codes /\ code # "ok"
      BY <1>3, <1>7, <1>8, <2>2, <3>1
    <3> QED BY <1>2, <3>2, RefusalLeaves
  <2>3. CASE n # 0 /\ p # Null
    <3>1. PICK to : to = 0
      OBVIOUS
    <3>2. PICK g \in copy_in_possibly_aliased(heap, b, to, p, off, n, n) :
            o = IF g.code = "ok" THEN Sized(g, n) ELSE g
      BY <1>3, <2>3, <3>1
    <3>3. p = b.data => off < b.cap \/ n <= b.cap
      BY <1>2, <1>5, <1>7, <2>3
    <3>4. /\ to \in Nat /\ to <= b.size /\ n = to + n /\ n \in Size \ {0}
          /\ p = b.data /\ p # Null => off + n <= b.size + 1 /\ (off < b.cap \/ n <= b.cap)
          /\ n < MAX_ALLOC_BYTES => Written(heap, p, off, n)
      BY <1>2, <1>5, <1>7, <2>3, <3>1, <3>3
    <3>5. /\ g.code = "ok" => Filled(heap, b, to, p, off, n, Sized(g, n))
          /\ g.code # "ok" => Done(heap, b, g) /\ g.heap = heap /\ g.buf = b
          /\ \E f \in grow_to_at_least(heap, b, n) : f.code = g.code
      <4>1. CopyReady(heap, b, to, p, off, n, n)
        BY <1>2, <1>5, <2>3, <3>4 DEF CopyReady
      <4> QED BY <3>2, <4>1, CopyInDone
    <3>6. g.code \in codes /\ codes = Abs!Grow(l, n)
      <4>1. PICK f \in grow_to_at_least(heap, b, n) : f.code = g.code
        BY <3>5
      <4>2. f.code \in Abs!Grow(b.size, n)
        BY <1>2, <1>5, <4>1, GrowCodes
      <4> QED BY <1>6, <1>7, <1>8, <2>3, <4>1, <4>2
    <3>7. CASE g.code # "ok"
      BY <3>2, <3>5, <3>6, <3>7 DEF Leaves, Done
    <3>8. CASE g.code = "ok"
      <4>1. n < MAX_ALLOC_BYTES
        <5>1. CASE n > l
          BY <1>5, <3>6, <3>8, <5>1, GrowCases
        <5>2. CASE n <= l
          <6>1. b.data # Null
            BY <1>1, <1>5, <1>6, <2>3, <5>2, HeaderFacts
          <6>2. b.cap + 1 <= MAX_ALLOC_BYTES
            BY <1>1, <6>1, HeaderFacts
          <6> QED BY <1>2, <1>5, <1>6, <5>2, <6>2
        <5> QED BY <1>5, <5>1, <5>2
      <4>2. /\ w \in Seq(Cell) /\ Len(w) = n
            /\ \A i, e \in Nat : i < n /\ e = off + i => w[i + 1] = Load(heap, p, e)
        BY <1>7, <2>3, <4>1
      <4>3. o = Sized(g, n) /\ Filled(heap, b, to, p, off, n, o) /\ "ok" \in codes
        BY <3>2, <3>5, <3>6, <3>8
      <4> QED BY <1>5, <3>1, <4>2, <4>3, FilledLeaves
    <3> QED BY <3>7, <3>8
  <2> QED BY <2>1, <2>2, <2>3
<1> QED BY <1>1, <1>3, <1>4, <1>9 DEF Acts

\* The arguments of insert and replace are good: n bytes from offset off of p,
\* which are what s stands for, are to take the place of the bytes of string x
\* from pos to tail and make m bytes of it, and are not in the way of the move.
Placed(x, s, b, p, off, n, pos, length, tail, m) ==
  /\ b = obj[x] /\ p = target(s) /\ off = s.off /\ n = s.len
  /\ pos \in Nat /\ length \in Nat /\ tail \in Nat /\ tail = pos + length /\ tail <= b.size
  /\ m \in Size /\ m + length = b.size + n
  /\ s.of = Null => n = 0
  /\ n = 0 => b.data # Null
  /\ s.of = Null \/ Readable(s, 1) \/ (s.of = Caller /\ m >= MAX_ALLOC_BYTES)
  /\ n # 0 /\ p = b.data => off < b.cap /\ (off + n <= b.size \/ off < tail \/ n = length)
  /\ n # 0 => ~ Inner(b, pos, tail, p, off, n)

\* insert and replace, once their arguments are good: the bytes before the
\* range, those of the source, and those after the range.
LEMMA SpliceLeaves ==
  ASSUME SensibleLimits, NEW K, StrInv(K), NEW x \in Obj, x \in K, NEW s \in Source, Within(K, s), NEW b, NEW p, NEW off, NEW n,
         NEW pos, NEW length, NEW tail, NEW m, Placed(x, s, b, p, off, n, pos, length, tail, m),
         NEW o \in splice(heap, b, pos, length, p, off, n, m)
  PROVE  Leaves(b, Abs!Splice(Held[x], pos, length, Abs!Text(s)), Abs!Grow(b.size, m), o)
<1>0. /\ b = obj[x] /\ pos \in Nat /\ length \in Nat /\ tail \in Nat /\ tail = pos + length /\ tail <= b.size
      /\ m \in Size /\ m + length = b.size + n /\ (n = 0 => b.data # Null)
      /\ n # 0 => ~ Inner(b, pos, tail, p, off, n)
  BY DEF Placed
<1>1. PICK q, codes, w : q = Held[x] /\ codes = Abs!Grow(b.size, m) /\ w = Abs!Text(s)
  OBVIOUS
<1>2. /\ Inv(K) /\ GoodHeap(heap) /\ Sound(heap, b) /\ Ended(heap, b) /\ b.size \in Nat
      /\ b.cap \in Nat /\ b.size <= b.cap /\ Len(q) = b.size
      /\ b.data = Null => b.size = 0
      /\ b.data # Null => b.cap + 1 <= MAX_ALLOC_BYTES
  BY <1>0, <1>1, HeaderFacts DEF StrInv
<1>3. /\ off \in Nat /\ n \in Nat /\ n \in Size /\ p \in Block \cup {Null} /\ m \in Nat
      /\ SIZE_MAX \in Nat /\ MAX_ALLOC_BYTES \in Nat
  BY <1>2, SourceType, SizeAssumption DEF Placed
<1>4. n # 0 =>
        /\ p # Null
        /\ m < MAX_ALLOC_BYTES =>
             /\ Written(heap, p, off, n)
             /\ w \in Seq(Cell) /\ Len(w) = n
             /\ \A i, e \in Nat : i < n /\ e = off + i => w[i + 1] = Load(heap, p, e)
        /\ p = b.data => off + n <= b.size + 1
  <2>1. /\ b = obj[x] /\ p = target(s) /\ off = s.off /\ n = s.len /\ (s.of = Null => n = 0)
        /\ s.of = Null \/ Readable(s, 1) \/ (s.of = Caller /\ m >= MAX_ALLOC_BYTES)
    BY DEF Placed
  <2>2. n # 0 =>
          /\ p = Null <=> s.of = Null
          /\ p # Null /\ m < MAX_ALLOC_BYTES =>
               /\ Written(heap, p, off, n)
               /\ w \in Seq(Cell) /\ Len(w) = n
               /\ \A i, e \in Nat : i < n /\ e = off + i => w[i + 1] = Load(heap, p, e)
          /\ p # Null /\ p = b.data => s.of = x /\ off + n <= b.size + 1 /\ off <= b.size
    <3> SUFFICES ASSUME s.len # 0
                 PROVE  /\ p = Null <=> s.of = Null
                        /\ p # Null /\ m < MAX_ALLOC_BYTES =>
                             /\ Written(heap, p, off, n)
                             /\ w \in Seq(Cell) /\ Len(w) = n
                             /\ \A i, e \in Nat : i < n /\ e = off + i => w[i + 1] = Load(heap, p, e)
                        /\ p # Null /\ p = obj[x].data =>
                             s.of = x /\ off + n <= obj[x].size + 1 /\ off <= obj[x].size
      BY <2>1
    <3>1. /\ p = target(s) /\ off = s.off /\ n = s.len /\ w = Abs!Text(s) /\ m \in Nat /\ s.len # 0
          /\ s.of = Null \/ Readable(s, 1) \/ (s.of = Caller /\ m >= MAX_ALLOC_BYTES)
          /\ StrInv(K) /\ x \in Obj /\ x \in K /\ s \in Source /\ Within(K, s)
      BY <1>1, <1>3, <2>1
    <3> QED BY <3>1, PassedText
  <2> QED BY <2>1, <2>2
<1>5. n = 0 => w = <<>>
  BY <1>1 DEF Placed, Abs!Text, Abs!Value
<1>6. /\ o.code # "ok" => Done(heap, b, o) /\ o.heap = heap /\ o.buf = b
      /\ o.code = "ok" => Spliced(heap, b, pos, tail, n, o)
      /\ o.code = "ok" /\ ~ Inner(b, pos, tail, p, off, n) =>
           \A i \in Nat : i < n => Load(o.heap, o.buf.data, pos + i) = Load(heap, p, off + i)
      /\ \E g \in grow_to_at_least(heap, b, m) : g.code = o.code
  <2>1. Clean(heap, b, pos, length, tail, p, off, n, m)
    BY <1>0, <1>2, <1>3, <1>4 DEF Placed, Clean
  <2> QED BY <2>1, SpliceDone
<1>7. o.code \in codes
  <2>1. PICK g \in grow_to_at_least(heap, b, m) : g.code = o.code
    BY <1>6
  <2>2. g.code \in Abs!Grow(b.size, m)
    BY <1>0, <1>2, <2>1, GrowCodes
  <2> QED BY <1>1, <2>1, <2>2
<1>8. CASE o.code # "ok"
  BY <1>1, <1>6, <1>7, <1>8 DEF Leaves, Done
<1>9. CASE o.code = "ok"
  <2>1. m < MAX_ALLOC_BYTES
    <3>1. CASE m > b.size
      <4>1. PICK l \in Nat : l = b.size
        BY <1>2
      <4>2. "ok" \in Abs!Grow(l, m) /\ m > l
        BY <1>1, <1>7, <1>9, <3>1, <4>1
      <4> QED BY <1>3, <4>2, GrowCases
    <3>2. CASE m <= b.size
      <4>1. b.data # Null
        <5>1. CASE b.data = Null
          <6>1. b.size = 0 /\ length = 0 /\ m = 0
            BY <1>0, <1>2, <1>3, <3>2, <5>1
          <6>2. n = 0
            BY <1>0, <1>3, <6>1
          <6> QED BY <1>0, <5>1, <6>2
        <5> QED BY <5>1
      <4> QED BY <1>2, <1>3, <3>2, <4>1
    <3> QED BY <1>2, <1>3, <3>1, <3>2
  <2>2. w \in Seq(Cell) /\ Len(w) = n
    <3>1. CASE n = 0
      BY <1>5, <3>1
    <3>2. CASE n # 0
      BY <1>4, <2>1, <3>2
    <3> QED BY <3>1, <3>2
  <2>3. PICK k \in Nat, z \in Nat : k = b.size - tail /\ z = 0
    BY <1>0, <1>2
  <2>4. PICK u, r : u = Abs!Part(q, z, pos) /\ r = Abs!Part(q, tail, k)
    OBVIOUS
  <2>5. /\ u \in Seq(Cell) /\ Len(u) = pos
        /\ \A i, e \in Nat : i < pos /\ e = z + i => u[i + 1] = Load(heap, b.data, e)
    <3>1. pos \in Nat /\ z + pos <= obj[x].size
      BY <1>0, <1>2, <2>3
    <3>2. /\ Abs!Part(Held[x], z, pos) \in Seq(Cell) /\ Len(Abs!Part(Held[x], z, pos)) = pos
          /\ \A i, e \in Nat : i < pos /\ e = z + i =>
               Abs!Part(Held[x], z, pos)[i + 1] = Load(heap, obj[x].data, e)
      BY <3>1, PartCells
    <3> QED BY <1>0, <1>1, <2>4, <3>2
  <2>6. /\ r \in Seq(Cell) /\ Len(r) = k
        /\ \A i, e \in Nat : i < k /\ e = tail + i => r[i + 1] = Load(heap, b.data, e)
    <3>1. tail \in Nat /\ tail + k <= obj[x].size
      BY <1>0, <1>2, <2>3
    <3>2. /\ Abs!Part(Held[x], tail, k) \in Seq(Cell) /\ Len(Abs!Part(Held[x], tail, k)) = k
          /\ \A i, e \in Nat : i < k /\ e = tail + i =>
               Abs!Part(Held[x], tail, k)[i + 1] = Load(heap, obj[x].data, e)
      BY <3>1, PartCells
    <3> QED BY <1>0, <1>1, <2>4, <3>2
  <2>7. PICK h, d : h = o.heap /\ d = o.buf
    OBVIOUS
  <2>8. /\ Local(heap, b, o) /\ d.size + tail = b.size + pos + n
        /\ \A a \in Nat : a < pos => Load(h, d.data, a) = Load(heap, b.data, a)
        /\ \A a \in Nat : pos + n <= a /\ a < d.size =>
             Load(h, d.data, a) = Load(heap, b.data, tail + (a - (pos + n)))
    BY <1>6, <1>9, <2>7 DEF Spliced, Done
  <2>9. d.size = pos + n + k
    <3>1. d.size \in Nat
      <4>1. GoodHeap(h) /\ Sound(h, d)
        BY <2>7, <2>8 DEF Local
      <4> QED BY <4>1, SoundBounds
    <3>2. PICK y \in Nat, l \in Nat, j \in Nat : y = d.size /\ l = b.size /\ j = n
      BY <1>2, <1>3, <3>1
    <3>3. y + tail = l + pos + j /\ k = l - tail
      BY <2>3, <2>8, <3>2
    <3>4. y = pos + j + k
      BY <1>0, <3>3
    <3> QED BY <3>2, <3>4
  <2>10. ASSUME NEW i \in Nat, NEW a \in Nat, i < pos, a = i PROVE Load(h, d.data, a) = u[i + 1]
    <3>1. a < pos /\ a = z + i
      BY <2>3, <2>10
    <3> QED BY <2>5, <2>8, <2>10, <3>1
  <2>11. ASSUME NEW i \in Nat, NEW a \in Nat, i < n, a = pos + i PROVE Load(h, d.data, a) = w[i + 1]
    <3>1. n # 0 /\ ~ Inner(b, pos, tail, p, off, n)
      BY <1>0, <1>3, <2>11
    <3>2. Load(h, d.data, pos + i) = Load(heap, p, off + i)
      BY <1>6, <1>9, <2>7, <2>11, <3>1
    <3>3. PICK e \in Nat : e = off + i
      BY <1>3
    <3>4. w[i + 1] = Load(heap, p, e)
      BY <1>4, <2>1, <2>11, <3>1, <3>3
    <3> QED BY <2>11, <3>2, <3>3, <3>4
  <2>12. ASSUME NEW i \in Nat, NEW a \in Nat, i < k, a = pos + n + i PROVE Load(h, d.data, a) = r[i + 1]
    <3>1. pos + n <= a /\ a < d.size /\ a - (pos + n) = i
      BY <1>0, <1>3, <2>9, <2>12
    <3>2. Load(h, d.data, a) = Load(heap, b.data, tail + i)
      BY <2>8, <3>1
    <3>3. PICK e \in Nat : e = tail + i
      BY <1>0
    <3>4. r[i + 1] = Load(heap, b.data, e)
      BY <2>6, <2>12, <3>3
    <3> QED BY <3>2, <3>3, <3>4
  <2>13. Bytes(h, d) = u \o w \o r
    <3>1. Len(u) = pos /\ Len(w) = n /\ Len(r) = k /\ u \in Seq(Cell) /\ w \in Seq(Cell) /\ r \in Seq(Cell)
      BY <2>2, <2>5, <2>6
    <3>2. Joined(h, d, u, w, r)
      BY <2>9, <2>10, <2>11, <2>12, <3>1 DEF Joined
    <3> QED BY <3>1, <3>2, JoinedCells
  <2>14. Abs!Splice(q, pos, length, w) = u \o w \o r
    <3>1. pos + length = tail /\ Len(q) - pos - length = k
      BY <1>0, <1>2, <2>3
    <3> QED BY <2>3, <2>4, <3>1 DEF Abs!Splice
  <2> QED BY <1>1, <1>7, <1>9, <2>7, <2>8, <2>13, <2>14 DEF Leaves
<1> QED BY <1>8, <1>9

\* Replacing no bytes by none changes nothing.
LEMMA SpliceNothing ==
  ASSUME NEW q \in Seq(Cell), NEW pos \in Nat, pos <= Len(q), NEW w, w = <<>>, NEW z, z = 0
  PROVE  Abs!Splice(q, pos, z, w) = q
<1>1. PICK k \in Nat, l \in Nat : l = Len(q) /\ k = Len(q) - pos
  <2>1. Len(q) \in Nat /\ Len(q) - pos \in Nat
    OBVIOUS
  <2> QED BY <2>1
<1>2. PICK u, r : u = Abs!Part(q, 0, pos) /\ r = Abs!Part(q, pos, k)
  OBVIOUS
<1>3. u \in Seq(Cell) /\ Len(u) = pos /\ \A i \in 1 .. pos : u[i] = q[i]
  BY <1>2, StartOf
<1>4. r \in Seq(Cell) /\ Len(r) = k /\ \A i \in 1 .. k : r[i] = q[pos + i]
  <2>1. r = [i \in 1 .. k |-> q[pos + i]]
    BY <1>2 DEF Abs!Part
  <2>2. \A i \in 1 .. k : r[i] = q[pos + i] /\ q[pos + i] \in Cell
    BY <1>1, <2>1
  <2>3. r \in [1 .. k -> Cell]
    BY <2>1, <2>2
  <2> QED BY <2>2, <2>3, FunSeq
<1>5. Abs!Splice(q, pos, z, w) = u \o w \o r
  <2>1. pos + z = pos /\ Len(q) - pos - z = k
    BY <1>1
  <2> QED BY <1>2, <2>1 DEF Abs!Splice
<1>6. u \o w = u
  BY <1>3
<1>7. PICK y : y = u \o r
  OBVIOUS
<1>8. y \in Seq(Cell) /\ Len(y) = pos + k /\ \A i \in 1 .. pos + k : y[i] = IF i <= pos THEN u[i] ELSE r[i - pos]
  <2>1. /\ y \in Seq(Cell) /\ Len(y) = Len(u) + Len(r)
        /\ \A i \in 1 .. Len(u) + Len(r) : y[i] = IF i <= Len(u) THEN u[i] ELSE r[i - Len(u)]
    BY <1>3, <1>4, <1>7, ConcatProperties
  <2>2. Len(u) = pos /\ Len(r) = k
    BY <1>3, <1>4
  <2> QED BY <2>1, <2>2
<1>9. ASSUME NEW i \in 1 .. l PROVE y[i] = q[i]
  <2>1. i \in 1 .. pos + k
    BY <1>1
  <2>2. CASE i <= pos
    BY <1>3, <1>8, <2>1, <2>2
  <2>3. CASE ~(i <= pos)
    <3>1. PICK j \in 1 .. k : j = i - pos /\ pos + j = i
      BY <2>1, <2>3
    <3> QED BY <1>4, <1>8, <2>1, <2>3, <3>1
  <2> QED BY <2>2, <2>3
<1>10. y = q
  <2>1. Len(y) = l
    BY <1>1, <1>8
  <2> QED BY <1>1, <1>8, <1>9, <2>1, SeqEqual
<1> QED BY <1>5, <1>6, <1>7, <1>10

\* insert: the bytes of the source before those from pos on.
LEMMA InsertActs ==
  ASSUME Careful, SensibleLimits, NEW K, StrInv(K), NEW x \in Obj, x \in K, NEW pos \in Size, NEW s \in Source, Within(K, s), Insert(x, pos, s)
  PROVE  Acts(<<"insert", x, pos, s>>, x, Abs!Splice(Held[x], pos, 0, Abs!Text(s)),
              IF pos > Len(Held[x]) THEN {"out_of_range"}
              ELSE Abs!Grow(Len(Held[x]), Len(Held[x]) + s.len))
<1>1. PICK b, c, q, w, p, off, n, codes :
        /\ b = obj[x] /\ c = <<"insert", x, pos, s>> /\ q = Held[x] /\ w = Abs!Text(s)
        /\ p = target(s) /\ off = s.off /\ n = s.len
        /\ codes = IF pos > Len(q) THEN {"out_of_range"} ELSE Abs!Grow(Len(q), Len(q) + s.len)
  OBVIOUS
<1>2. /\ Inv(K) /\ GoodHeap(heap) /\ Sound(heap, b) /\ Ended(heap, b) /\ b.size \in Nat /\ b.size \in Size
      /\ b.cap \in Nat /\ b.size <= b.cap /\ Len(q) = b.size /\ q \in Seq(Cell) /\ q = Bytes(heap, b)
  BY <1>1, HeaderFacts DEF StrInv
<1>3. PICK k : k = checked_add(b.size, n)
  OBVIOUS
<1>4. PICK o \in IF pos > b.size THEN {Outcome("out_of_range", heap, b, FALSE)}
                 ELSE IF n = 0 THEN {Outcome("ok", heap, b, FALSE)}
                 ELSE IF k = Nullopt THEN {Outcome("overflow", heap, b, FALSE)}
                 ELSE splice(heap, b, pos, 0, p, off, n, k) :
        Ends(c, x, o)
  BY <1>1, <1>3 DEF Insert
<1>5. /\ x \in alive /\ ~ AtCapacity(x, s) /\ ~ EndsBehind(x, s, pos) /\ (s.of = Null => n = 0)
      /\ MayPass(s, 1, b.size + n >= MAX_ALLOC_BYTES)
  BY <1>1 DEF Insert, Avoid, Careful, View
<1>6. /\ off \in Nat /\ n \in Nat /\ n \in Size /\ pos \in Nat /\ SIZE_MAX \in Nat /\ MAX_ALLOC_BYTES \in Nat
      /\ p \in Block \cup {Null}
  BY <1>1, <1>2, SourceType, SizeAssumption
<1>7. PICK m, l : m = b.size + n /\ l = b.size /\ m \in Nat /\ l \in Nat
  <2>1. b.size + n \in Nat
    BY <1>2, <1>6
  <2> QED BY <1>2, <2>1
<1>8. k = IF m \in Size THEN m ELSE Nullopt
  BY <1>2, <1>3, <1>6, <1>7, CheckedAddExact
<1>9. codes = IF pos > l THEN {"out_of_range"} ELSE Abs!Grow(l, m)
  BY <1>1, <1>2, <1>7
<1>10. PICK z : z = 0
  OBVIOUS
<1>11. Leaves(b, Abs!Splice(q, pos, z, w), codes, o)
  <2>1. CASE pos > b.size
    <3>1. PICK code : code = "out_of_range"
      OBVIOUS
    <3>2. o = Outcome(code, heap, b, FALSE) /\ code \in codes /\ code # "ok"
      BY <1>4, <1>7, <1>9, <2>1, <3>1
    <3> QED BY <1>2, <3>2, RefusalLeaves
  <2>2. CASE ~(pos > b.size) /\ n = 0
    <3>1. o = Outcome("ok", heap, b, FALSE)
      BY <1>4, <2>2
    <3>2. w = <<>>
      BY <1>1, <2>2 DEF Abs!Text, Abs!Value
    <3>3. Abs!Splice(q, pos, z, w) = q
      <4>1. pos <= Len(q)
        BY <1>2, <1>6, <2>2
      <4> QED BY <1>2, <1>6, <1>10, <3>2, <4>1, SpliceNothing
    <3>4. "ok" \in codes
      <4>1. m <= l /\ ~(pos > l)
        BY <1>6, <1>7, <2>2
      <4> QED BY <1>7, <1>9, <4>1, GrowCases
    <3>5. Leaves(b, q, codes, o)
      BY <1>2, <3>1, <3>4, NothingLeaves
    <3> QED BY <3>3, <3>5
  <2>3. CASE ~(pos > b.size) /\ n # 0 /\ k = Nullopt
    <3>1. PICK code : code = "overflow"
      OBVIOUS
    <3>2. o = Outcome(code, heap, b, FALSE) /\ code # "ok"
      BY <1>4, <2>3, <3>1
    <3>3. code \in codes
      <4>1. m > l /\ m > SIZE_MAX /\ ~(pos > l)
        BY <1>6, <1>7, <1>8, <2>3
      <4> QED BY <1>7, <1>9, <3>1, <4>1, GrowCases
    <3> QED BY <1>2, <3>2, <3>3, RefusalLeaves
  <2>4. CASE ~(pos > b.size) /\ n # 0 /\ k # Nullopt
    <3>1. k = m /\ m \in Size /\ s.of # Null
      BY <1>5, <1>8, <2>4
    <3>2. o \in splice(heap, b, pos, z, p, off, n, m)
      BY <1>4, <1>10, <2>4, <3>1
    <3>3. s.of = Null \/ Readable(s, 1) \/ (s.of = Caller /\ m >= MAX_ALLOC_BYTES)
      BY <1>5, <1>7 DEF MayPass
    <3>4. p = b.data => s.of = x /\ off + n <= b.size + 1 /\ off <= b.size
      BY <1>1, <1>6, <1>7, <2>4, <3>1, <3>3, Passed
    <3>5. p = b.data => off < b.cap /\ (off + n <= b.size \/ off < pos)
      <4>1. s.of = x => off # b.cap /\ (~(off >= pos) \/ ~(off + n > b.size))
        BY <1>1, <1>5, <1>6, <2>4 DEF AtCapacity, EndsBehind
      <4> QED BY <1>2, <1>6, <3>4, <4>1
    <3>6. ~ Inner(b, pos, pos, p, off, n)
      BY <1>6 DEF Inner
    <3>7. z \in Nat /\ pos = pos + z /\ m + z = b.size + n
      BY <1>6, <1>7, <1>10
    <3>8. Placed(x, s, b, p, off, n, pos, z, pos, m)
      <4>1. pos <= b.size
        BY <1>2, <1>6, <2>4
      <4> QED BY <1>1, <1>6, <2>4, <3>1, <3>3, <3>5, <3>6, <3>7, <4>1 DEF Placed
    <3>9. Leaves(b, Abs!Splice(Held[x], pos, z, Abs!Text(s)), Abs!Grow(b.size, m), o)
      BY <3>2, <3>8, SpliceLeaves
    <3>10. codes = Abs!Grow(b.size, m)
      BY <1>6, <1>7, <1>9, <2>4
    <3> QED BY <1>1, <3>9, <3>10
  <2> QED BY <1>2, <1>6, <2>1, <2>2, <2>3, <2>4
<1>12. Acts(c, x, Abs!Splice(q, pos, z, w), codes)
  BY <1>1, <1>4, <1>5, <1>11 DEF Acts
<1> QED BY <1>1, <1>10, <1>12

\* The subtraction of replace cannot underflow.
LEMMA SubExact ==
  ASSUME NEW a \in Size, NEW z \in Size, z <= a, NEW d, d = a - z
  PROVE  d \in Size /\ d \in Nat /\ checked_sub(a, z) = d
BY SizeAssumption DEF checked_sub, Wrap

\* replace: the bytes of the source in the place of the range.
LEMMA ReplaceActs ==
  ASSUME Cautious, SensibleLimits, NEW K, StrInv(K), NEW x \in Obj, x \in K, NEW pos \in Size, NEW length \in Size,
         NEW s \in Source, Within(K, s), Replace(x, pos, length, s)
  PROVE  IF Abs!Range(pos, length, Len(Held[x])) = {"ok"}
         THEN Acts(<<"replace", x, pos, length, s>>, x, Abs!Splice(Held[x], pos, length, Abs!Text(s)),
                   Abs!Grow(Len(Held[x]), Len(Held[x]) - length + s.len))
         ELSE /\ "ok" \notin Abs!Range(pos, length, Len(Held[x]))
              /\ Acts(<<"replace", x, pos, length, s>>, x, <<>>, Abs!Range(pos, length, Len(Held[x])))
<1>1. PICK b, c, q, w, p, off, n, range :
        /\ b = obj[x] /\ c = <<"replace", x, pos, length, s>> /\ q = Held[x] /\ w = Abs!Text(s)
        /\ p = target(s) /\ off = s.off /\ n = s.len /\ range = Abs!Range(pos, length, Len(q))
  OBVIOUS
<1>2. /\ Inv(K) /\ GoodHeap(heap) /\ Sound(heap, b) /\ Ended(heap, b) /\ b.size \in Nat /\ b.size \in Size
      /\ b.cap \in Nat /\ b.size <= b.cap /\ Len(q) = b.size
  BY <1>1, HeaderFacts DEF StrInv
<1>3. PICK code, k : code = RangeCode(pos, length, b.size) /\ k = checked_add(checked_sub(b.size, length), n)
  OBVIOUS
<1>4. PICK o \in IF code # "ok" THEN {Outcome(code, heap, b, FALSE)}
                 ELSE IF k = Nullopt THEN {Outcome("overflow", heap, b, FALSE)}
                 ELSE splice(heap, b, pos, length, p, off, n, k) :
        Ends(c, x, o)
  BY <1>1, <1>3 DEF Replace
<1>5. /\ x \in alive /\ ~ AtCapacity(x, s) /\ (s.of = Null => n = 0)
      /\ ~ (EndsBehind(x, s, pos + length) /\ n # length)
      /\ ~ (b.data = Null /\ n = 0)
      /\ ~ (/\ s.of = x /\ n \notin {0, length}
            /\ off \in pos + 1 .. pos + length - 1 /\ pos + length < b.size)
      /\ MayPass(s, 1, b.size - length + n >= MAX_ALLOC_BYTES)
  BY <1>1 DEF Replace, Avoid, Cautious, Careful, View
<1>6. /\ off \in Nat /\ n \in Nat /\ n \in Size /\ pos \in Nat /\ length \in Nat
      /\ SIZE_MAX \in Nat /\ MAX_ALLOC_BYTES \in Nat /\ p \in Block \cup {Null}
  BY <1>1, <1>2, SourceType, SizeAssumption
<1>7. /\ code \in range /\ (code = "ok" <=> pos + length <= b.size) /\ (code = "ok" <=> range = {"ok"})
      /\ code # "ok" => "ok" \notin range
  <2>1. PICK l \in Nat : l = b.size /\ l <= SIZE_MAX
    BY <1>2, <1>6
  <2>2. /\ RangeCode(pos, length, l) \in Abs!Range(pos, length, l)
        /\ RangeCode(pos, length, l) = "ok" <=> pos + length <= l
        /\ RangeCode(pos, length, l) = "ok" <=> Abs!Range(pos, length, l) = {"ok"}
        /\ RangeCode(pos, length, l) # "ok" => "ok" \notin Abs!Range(pos, length, l)
    BY <2>1, RangeCodes
  <2> QED BY <1>1, <1>2, <1>3, <2>1, <2>2
<1>8. CASE code # "ok"
  <2>1. o = Outcome(code, heap, b, FALSE)
    BY <1>4, <1>8
  <2>2. PICK r : r = <<>>
    OBVIOUS
  <2>3. Leaves(b, r, range, o)
    BY <1>2, <1>7, <1>8, <2>1, RefusalLeaves
  <2>4. Acts(c, x, r, range) /\ range # {"ok"} /\ "ok" \notin range
    BY <1>1, <1>4, <1>5, <1>7, <1>8, <2>3 DEF Acts
  <2> QED BY <1>1, <2>2, <2>4
<1>9. CASE code = "ok"
  <2>1. PICK l \in Nat, d \in Nat, m \in Nat, tail \in Nat :
          l = b.size /\ d = l - length /\ m = d + n /\ tail = pos + length /\ tail <= l
    <3>1. PICK l \in Nat : l = b.size /\ pos + length <= l
      BY <1>2, <1>7, <1>9
    <3>2. PICK d \in Nat : d = l - length
      BY <1>6, <3>1
    <3>3. d + n \in Nat /\ pos + length \in Nat
      BY <1>6, <3>2
    <3> QED BY <3>1, <3>2, <3>3
  <2>2. k = IF m \in Size THEN m ELSE Nullopt
    <3>1. length <= l
      BY <1>6, <2>1
    <3>2. d \in Size /\ checked_sub(b.size, length) = d
      BY <1>2, <2>1, <3>1, SubExact
    <3> QED BY <1>3, <1>6, <2>1, <3>2, CheckedAddExact
  <2>3. PICK codes : codes = Abs!Grow(l, m)
    OBVIOUS
  <2>4. Abs!Grow(Len(q), Len(q) - length + s.len) = codes
    BY <1>1, <1>2, <2>1, <2>3
  <2>5. Leaves(b, Abs!Splice(q, pos, length, w), codes, o)
    <3>1. CASE k = Nullopt
      <4>1. PICK e : e = "overflow"
        OBVIOUS
      <4>2. o = Outcome(e, heap, b, FALSE) /\ e # "ok"
        BY <1>4, <1>9, <3>1, <4>1
      <4>3. e \in codes
        <5>1. m > SIZE_MAX
          BY <1>6, <2>1, <2>2, <3>1
        <5>2. l <= SIZE_MAX
          BY <1>2, <1>6, <2>1
        <5>3. m > l
          BY <1>6, <2>1, <5>1, <5>2
        <5> QED BY <2>1, <2>3, <4>1, <5>1, <5>3, GrowCases
      <4> QED BY <1>2, <4>2, <4>3, RefusalLeaves
    <3>2. CASE k # Nullopt
      <4>1. k = m /\ m \in Size
        BY <2>2, <3>2
      <4>2. o \in splice(heap, b, pos, length, p, off, n, m)
        BY <1>4, <1>9, <3>2, <4>1
      <4>3. s.of = Null \/ Readable(s, 1) \/ (s.of = Caller /\ m >= MAX_ALLOC_BYTES)
        BY <1>5, <2>1 DEF MayPass
      <4>4. n # 0 /\ p = b.data => s.of = x /\ off + n <= b.size + 1 /\ off <= b.size
        <5>1. n # 0 => s.of # Null
          BY <1>5
        <5> QED BY <1>1, <1>6, <2>1, <4>3, <5>1, Passed
      <4>5. n # 0 /\ p = b.data => off < b.cap /\ (off + n <= b.size \/ off < tail \/ n = length)
        <5>1. n # 0 /\ s.of = x => off # b.cap /\ (~(off >= tail) \/ ~(off + n > b.size) \/ n = length)
          <6> SUFFICES ASSUME n # 0, s.of = x
                       PROVE  off # b.cap /\ (~(off >= tail) \/ ~(off + n > b.size) \/ n = length)
            OBVIOUS
          <6>1. s.len > 0 /\ off # b.cap
            BY <1>1, <1>5, <1>6 DEF AtCapacity
          <6>2. ~ EndsBehind(x, s, tail) \/ n = length
            BY <1>5, <2>1
          <6> QED BY <1>1, <6>1, <6>2 DEF EndsBehind
        <5>2. PICK a \in Nat, y \in Nat : a = b.cap /\ y = off + n
          BY <1>2, <1>6
        <5>3. n # 0 /\ p = b.data => off <= l /\ off # a /\ (~(off >= tail) \/ ~(y > l) \/ n = length)
          BY <2>1, <4>4, <5>1, <5>2
        <5>4. l <= a
          BY <1>2, <2>1, <5>2
        <5>5. ASSUME n # 0, p = b.data PROVE off < a /\ (y <= l \/ off < tail \/ n = length)
          <6>1. off <= l /\ off # a /\ (~(off >= tail) \/ ~(y > l) \/ n = length)
            BY <5>3, <5>5
          <6>2. off < a
            BY <1>6, <5>4, <6>1
          <6> QED BY <1>6, <6>1, <6>2
        <5> QED BY <2>1, <5>2, <5>5
      <4>6. n # 0 => ~ Inner(b, pos, tail, p, off, n)
        <5> SUFFICES ASSUME n # 0, p = b.data, pos < off, off < tail, tail < b.size, n + pos # tail PROVE FALSE
          BY DEF Inner
        <5>1. s.of = x /\ n \notin {0, length}
          BY <1>6, <2>1, <4>4
        <5>2. off \in pos + 1 .. pos + length - 1 /\ pos + length < b.size
          BY <1>6, <2>1
        <5> QED BY <1>5, <5>1, <5>2
      <4>7. tail <= b.size /\ m + length = b.size + n
        BY <1>6, <2>1
      <4>8. Placed(x, s, b, p, off, n, pos, length, tail, m)
        BY <1>1, <1>5, <1>6, <2>1, <4>1, <4>3, <4>5, <4>6, <4>7 DEF Placed
      <4>9. Leaves(b, Abs!Splice(Held[x], pos, length, Abs!Text(s)), Abs!Grow(b.size, m), o)
        BY <4>2, <4>8, SpliceLeaves
      <4> QED BY <1>1, <2>1, <2>3, <4>9
    <3> QED BY <3>1, <3>2
  <2>6. Acts(c, x, Abs!Splice(q, pos, length, w), codes)
    BY <1>1, <1>4, <1>5, <2>5 DEF Acts
  <2>7. range = {"ok"}
    BY <1>7, <1>9
  <2> QED BY <1>1, <2>4, <2>6, <2>7
<1> QED BY <1>8, <1>9

-----------------------------------------------------------------------------
(***************************************************************************)
(* Every step is a step of AbstractString.                                 *)
(***************************************************************************)

\* Construction, destruction and moves do what the abstract lifetime says.
LEMMA LifetimeStep ==
  ASSUME NEW K, Inv(K), NEW x \in Obj, NEW y \in Obj, x \in K, y \in K,
         Construct(x) \/ Destroy(x) \/ MoveConstruct(x, y) \/ MoveAssign(x, y)
  PROVE  Abs!Lifetime(call')
<1>1. ASSUME Construct(x) PROVE Abs!Lifetime(call')
  <2>1. /\ x \notin alive /\ alive' = alive \cup {x} /\ heap' = heap /\ obj' = obj
        /\ call' = <<"construct", x>> /\ ret' = [code |-> "ok", val |-> <<>>]
    BY <1>1 DEF Construct, Returns
  <2>2. Held' = Held
    BY <2>1, UnchangedHeld
  <2>3. obj[x].size = 0
    BY <2>1 DEF Inv, Empty
  <2>4. Held[x] = <<>>
    <3>1. Held[x] = Bytes(heap, obj[x])
      BY HeldBytes
    <3> QED BY <2>3, <3>1, EmptyBytes
  <2>5. Held' = [Held EXCEPT ![x] = <<>>]
    BY <2>2, <2>4 DEF Held
  <2>6. Abs!Becomes(x, <<>>, {"ok"})
    BY <2>1, <2>5 DEF Abs!Becomes, Held
  <2>7. call'[1] = "construct" /\ call'[2] = x
    BY <2>1
  <2> QED BY <2>1, <2>6, <2>7 DEF Abs!Lifetime
<1>2. ASSUME Destroy(x) PROVE Abs!Lifetime(call')
  <2>1. PICK c, o : c = <<"destroy", x>> /\ o = Outcome("ok", free(heap, obj[x].data), Empty, FALSE)
    OBVIOUS
  <2>2. x \in alive /\ Answer(c, x, o) /\ alive' = alive \ {x}
    BY <1>2, <2>1 DEF Destroy
  <2>3. Local(heap, obj[x], o)
    BY <2>1, FreeLocal DEF Inv
  <2>4. Held' = [Held EXCEPT ![x] = Bytes(o.heap, o.buf)]
    BY <2>2, <2>3, AnswerHeld
  <2>5. PICK h, k : h = o.heap /\ k = o.buf
    OBVIOUS
  <2>6. k.size = 0
    BY <2>1, <2>5 DEF Outcome, Empty
  <2>7. Held' = [Held EXCEPT ![x] = <<>>]
    BY <2>4, <2>5, <2>6, EmptyBytes
  <2>8. call'[1] = "destroy" /\ call'[2] = x
    BY <2>1, <2>2 DEF Answer, Returns
  <2> QED BY <2>2, <2>7, <2>8 DEF Abs!Lifetime, Held
<1>3. ASSUME MoveConstruct(x, y) PROVE Abs!Lifetime(call')
  <2>1. /\ x \notin alive /\ y \in alive /\ x # y /\ heap' = heap /\ alive' = alive \cup {x}
        /\ obj' = [obj EXCEPT ![x] = obj[y], ![y] = Empty]
        /\ call' = <<"move_construct", x, y>> /\ ret' = [code |-> "ok", val |-> <<>>]
    BY <1>3 DEF MoveConstruct, Returns
  <2>2. heap' = free(heap, obj[x].data)
    BY <2>1 DEF Inv, Empty, free
  <2>3. Held' = [Held EXCEPT ![x] = Held[y], ![y] = <<>>]
    BY <2>1, <2>2, MoveHeld
  <2>4. call'[1] = "move_construct" /\ call'[2] = x /\ call'[3] = y /\ ret'.code = "ok"
    BY <2>1
  <2>5. Abs!Takes(x, y)
    BY <2>1, <2>3, <2>4 DEF Abs!Takes, Held
  <2> QED BY <2>1, <2>4, <2>5 DEF Abs!Lifetime
<1>4. ASSUME MoveAssign(x, y) PROVE Abs!Lifetime(call')
  <2>1. /\ x \in alive /\ y \in alive /\ alive' = alive
        /\ call' = <<"move_assign", x, y>> /\ ret' = [code |-> "ok", val |-> <<>>]
    BY <1>4 DEF MoveAssign, Looks, Returns
  <2>2. call'[1] = "move_assign" /\ call'[2] = x /\ call'[3] = y /\ ret'.code = "ok"
    BY <2>1
  <2>3. Abs!Takes(x, y)
    <3>1. CASE x = y
      <4>1. heap' = heap /\ obj' = obj
        BY <1>4, <3>1 DEF MoveAssign, Looks
      <4>2. Held' = Held
        BY <4>1, UnchangedHeld
      <4> QED BY <2>1, <2>2, <3>1, <4>2 DEF Abs!Takes, Held
    <3>2. CASE x # y
      <4>1. heap' = free(heap, obj[x].data) /\ obj' = [obj EXCEPT ![x] = obj[y], ![y] = Empty]
        BY <1>4, <3>2 DEF MoveAssign
      <4>2. Held' = [Held EXCEPT ![x] = Held[y], ![y] = <<>>]
        BY <3>2, <4>1, MoveHeld
      <4> QED BY <2>1, <2>2, <3>2, <4>2 DEF Abs!Takes, Held
    <3> QED BY <3>1, <3>2
  <2> QED BY <2>1, <2>2, <2>3 DEF Abs!Lifetime
<1> QED BY <1>1, <1>2, <1>3, <1>4

\* A call on a live string is the abstract call of the same name.
LEMMA UseStep ==
  ASSUME NEW c, call' = c, Abs!Use(c)
  PROVE  Abs!Next
BY DEF Abs!Next

\* A factory call is the abstract call of the same name.
LEMMA CreateStep ==
  ASSUME NEW c, call' = c, Abs!Create(c)
  PROVE  Abs!Next
BY DEF Abs!Next

\* The calls that neither take bytes in nor make a string.
LEMMA PlainStep ==
  ASSUME NEW K, StrInv(K), NEW x \in Obj, x \in K
  PROVE  /\ Clear(x) => Abs!Next
         /\ SecureClear(x) => Abs!Next
         /\ \A n \in Size : Reserve(x, n) => Abs!Next
         /\ \A i \in Size : At(x, i) => Abs!Next
         /\ \A n \in Size, out \in BOOLEAN : CopyToCstr(x, out, n) => Abs!Next
<1>0. Inv(K)
  BY DEF StrInv
<1>1. ASSUME Clear(x) PROVE Abs!Next
  <2>1. PICK c : c = <<"clear", x>>
    OBVIOUS
  <2>2. call' = c /\ x \in alive /\ Abs!Becomes(x, <<>>, {"ok"})
    BY <1>1, <2>1, <1>0, ClearActs, ActsStep
  <2>3. Abs!Use(c)
    BY <2>1, <2>2 DEF Abs!Use, Held
  <2> QED BY <2>2, <2>3, UseStep
<1>2. ASSUME SecureClear(x) PROVE Abs!Next
  <2>1. PICK c : c = <<"secure_clear", x>>
    OBVIOUS
  <2>2. call' = c /\ x \in alive /\ Abs!Becomes(x, <<>>, {"ok"})
    BY <1>2, <2>1, <1>0, ClearActs, ActsStep
  <2>3. Abs!Use(c)
    BY <2>1, <2>2 DEF Abs!Use, Held
  <2> QED BY <2>2, <2>3, UseStep
<1>3. ASSUME NEW n \in Size, Reserve(x, n) PROVE Abs!Next
  <2>1. PICK c : c = <<"reserve", x, n>>
    OBVIOUS
  <2>2. /\ call' = c /\ x \in alive
        /\ Abs!Becomes(x, Held[x], IF n <= Len(Held[x]) THEN {"ok"} ELSE Abs!Room(n))
    BY <1>3, <2>1, <1>0, ReserveActs, ActsStep
  <2>3. Abs!Use(c)
    BY <2>1, <2>2 DEF Abs!Use, Held
  <2> QED BY <2>2, <2>3, UseStep
<1>4. ASSUME NEW i \in Size, At(x, i) PROVE Abs!Next
  <2>1. PICK c : c = <<"at", x, i>>
    OBVIOUS
  <2>2. call' = c /\ x \in alive /\ Abs!Yields(<<Held[x][i + 1]>>, Abs!Index(i < Len(Held[x])))
    BY <1>4, <2>1, <1>0, AtHands, HandsStep
  <2>3. Abs!Use(c)
    BY <2>1, <2>2 DEF Abs!Use, Held
  <2> QED BY <2>2, <2>3, UseStep
<1>5. ASSUME NEW n \in Size, NEW out \in BOOLEAN, CopyToCstr(x, out, n) PROVE Abs!Next
  <2>1. PICK c : c = <<"copy_to_cstr", x, out, n>>
    OBVIOUS
  <2>2. call' = c /\ x \in alive /\ Abs!CopyOut(Held[x], out, n)
    BY <1>5, <2>1, CopyToCstrCopies
  <2>3. Abs!Use(c)
    BY <2>1, <2>2 DEF Abs!Use, Held
  <2> QED BY <2>2, <2>3, UseStep
<1> QED BY <1>1, <1>2, <1>3, <1>4, <1>5

\* The calls that take bytes in.
LEMMA TakingStep ==
  ASSUME "view_at_capacity" \in Excluded, SensibleLimits, NEW K, StrInv(K), NEW x \in Obj, x \in K
  PROVE  /\ \A v \in Byte : AppendChar(x, v) => Abs!Next
         /\ \A s \in Source : Within(K, s) /\ (AppendBytes(x, s) \/ Assign(x, s)) => Abs!Next
<1>0. Inv(K)
  BY DEF StrInv
<1>1. ASSUME NEW v \in Byte, AppendChar(x, v) PROVE Abs!Next
  <2>1. PICK c : c = <<"append_char", x, v>>
    OBVIOUS
  <2>2. /\ call' = c /\ x \in alive
        /\ Abs!Becomes(x, Append(Held[x], v), Abs!Grow(Len(Held[x]), Len(Held[x]) + 1))
    BY <1>1, <2>1, <1>0, AppendCharActs, ActsStep
  <2>3. Abs!Use(c)
    BY <2>1, <2>2 DEF Abs!Use, Held
  <2> QED BY <2>2, <2>3, UseStep
<1>2. ASSUME NEW s \in Source, Within(K, s), AppendBytes(x, s) PROVE Abs!Next
  <2>1. PICK c : c = <<"append", x, s>>
    OBVIOUS
  <2>2. /\ call' = c /\ x \in alive
        /\ Abs!Becomes(x, Held[x] \o Abs!Text(s), Abs!Given(s, Abs!Grow(Len(Held[x]), Len(Held[x]) + s.len)))
    BY <1>2, <2>1, <1>0, AppendBytesActs, ActsStep
  <2>3. Abs!Use(c)
    BY <2>1, <2>2 DEF Abs!Use, Held
  <2> QED BY <2>2, <2>3, UseStep
<1>3. ASSUME NEW s \in Source, Within(K, s), Assign(x, s) PROVE Abs!Next
  <2>1. PICK c : c = <<"assign", x, s>>
    OBVIOUS
  <2>2. /\ call' = c /\ x \in alive
        /\ Abs!Becomes(x, Abs!Text(s), Abs!Given(s, Abs!Grow(Len(Held[x]), s.len)))
    BY <1>3, <2>1, <1>0, AssignActs, ActsStep
  <2>3. Abs!Use(c)
    BY <2>1, <2>2 DEF Abs!Use, Held
  <2> QED BY <2>2, <2>3, UseStep
<1> QED BY <1>1, <1>2, <1>3

\* The calls that splice bytes in.
LEMMA SplicingStep ==
  ASSUME Cautious, SensibleLimits, NEW K, StrInv(K), NEW x \in Obj, x \in K
  PROVE  /\ \A s \in Source, pos \in Size : Within(K, s) /\ Insert(x, pos, s) => Abs!Next
         /\ \A s \in Source, pos, n \in Size : Within(K, s) /\ Replace(x, pos, n, s) => Abs!Next
<1>0. Inv(K) /\ Careful
  BY DEF StrInv, Cautious
<1>1. ASSUME NEW s \in Source, NEW pos \in Size, Within(K, s), Insert(x, pos, s) PROVE Abs!Next
  <2>1. PICK c : c = <<"insert", x, pos, s>>
    OBVIOUS
  <2>2. /\ call' = c /\ x \in alive
        /\ Abs!Becomes(x, Abs!Splice(Held[x], pos, 0, Abs!Text(s)),
                       IF pos > Len(Held[x]) THEN {"out_of_range"}
                       ELSE Abs!Grow(Len(Held[x]), Len(Held[x]) + s.len))
    BY <1>1, <2>1, <1>0, InsertActs, ActsStep
  <2>3. Abs!Use(c)
    BY <2>1, <2>2 DEF Abs!Use, Held
  <2> QED BY <2>2, <2>3, UseStep
<1>2. ASSUME NEW s \in Source, NEW pos \in Size, NEW n \in Size, Within(K, s), Replace(x, pos, n, s) PROVE Abs!Next
  <2>1. PICK c, range : c = <<"replace", x, pos, n, s>> /\ range = Abs!Range(pos, n, Len(Held[x]))
    OBVIOUS
  <2>2. CASE range = {"ok"}
    <3>1. /\ call' = c /\ x \in alive
          /\ Abs!Becomes(x, Abs!Splice(Held[x], pos, n, Abs!Text(s)), Abs!Grow(Len(Held[x]), Len(Held[x]) - n + s.len))
      <4>1. Acts(c, x, Abs!Splice(Held[x], pos, n, Abs!Text(s)), Abs!Grow(Len(Held[x]), Len(Held[x]) - n + s.len))
        BY <1>2, <2>1, <2>2, ReplaceActs
      <4> QED BY <1>0, <4>1, ActsStep
    <3>2. Abs!Use(c)
      BY <2>1, <2>2, <3>1 DEF Abs!Use, Held
    <3> QED BY <3>1, <3>2, UseStep
  <2>3. CASE range # {"ok"}
    <3>1. "ok" \notin range /\ Acts(c, x, <<>>, range)
      BY <1>0, <1>2, <2>1, <2>3, ReplaceActs
    <3>2. call' = c /\ x \in alive /\ Abs!Refuses(range)
      BY <1>0, <3>1, RefusedCall
    <3>3. Abs!Use(c)
      BY <2>1, <2>3, <3>2 DEF Abs!Use, Held
    <3> QED BY <3>2, <3>3, UseStep
  <2> QED BY <2>2, <2>3
<1> QED BY <1>1, <1>2

\* The factories.
LEMMA FactoryStep ==
  ASSUME NEW K, StrInv(K), NEW x \in Obj, x \in K
  PROVE  /\ \A n \in Size : WithCapacity(x, n) => Abs!Next
         /\ \A s \in Source : Within(K, s) /\ FromBytes(x, s) => Abs!Next
         /\ \A s \in Source : Within(K, s) /\ FromCstr(x, s) => Abs!Next
         /\ \A y \in Obj \cap K : Clone(x, y) => Abs!Next
         /\ \A y \in Obj \cap K, pos, n \in Size : Substr(x, y, pos, n) => Abs!Next
<1>0. Inv(K)
  BY DEF StrInv
<1>1. ASSUME NEW n \in Size, WithCapacity(x, n) PROVE Abs!Next
  <2>1. PICK c : c = <<"with_capacity", x, n>>
    OBVIOUS
  <2>2. /\ call' = c /\ x \notin alive
        /\ Abs!Becomes(x, <<>>, IF n = 0 THEN {"ok"} ELSE Abs!Room(n))
    BY <1>1, <2>1, <1>0, WithCapacityMakes, MakesStep
  <2>3. Abs!Create(c)
    BY <2>1, <2>2 DEF Abs!Create, Held
  <2> QED BY <2>2, <2>3, CreateStep
<1>2. ASSUME NEW s \in Source, Within(K, s), FromBytes(x, s) PROVE Abs!Next
  <2>1. PICK c : c = <<"from_bytes", x, s>>
    OBVIOUS
  <2>2. /\ call' = c /\ x \notin alive
        /\ Abs!Becomes(x, Abs!Text(s), Abs!Given(s, IF s.len = 0 THEN {"ok"} ELSE Abs!Room(s.len)))
    BY <1>2, <2>1, <1>0, FromBytesMakes, MakesStep
  <2>3. Abs!Create(c)
    BY <2>1, <2>2 DEF Abs!Create, Held
  <2> QED BY <2>2, <2>3, CreateStep
<1>3. ASSUME NEW y \in Obj, y \in K, Clone(x, y) PROVE Abs!Next
  <2>1. PICK c : c = <<"clone", x, y>>
    OBVIOUS
  <2>2. /\ call' = c /\ x \notin alive
        /\ Abs!Becomes(x, Held[y], IF Held[y] = <<>> THEN {"ok"} ELSE Abs!Room(Len(Held[y])))
    BY <1>3, <2>1, <1>0, CloneMakes, MakesStep
  <2>3. Abs!Create(c)
    BY <2>1, <2>2 DEF Abs!Create, Held
  <2> QED BY <2>2, <2>3, CreateStep
<1>4. ASSUME NEW y \in Obj, y \in K, NEW pos \in Size, NEW n \in Size, Substr(x, y, pos, n) PROVE Abs!Next
  <2>1. PICK c, range : c = <<"substr", x, y, pos, n>> /\ range = Abs!Range(pos, n, Len(Held[y]))
    OBVIOUS
  <2>2. CASE range = {"ok"}
    <3>1. /\ call' = c /\ x \notin alive
          /\ Abs!Becomes(x, Abs!Part(Held[y], pos, n), IF n = 0 THEN {"ok"} ELSE Abs!Room(n))
      BY <1>0, <1>4, <2>1, <2>2, SubstrMakes, MakesStep
    <3>2. Abs!Create(c)
      BY <2>1, <2>2, <3>1 DEF Abs!Create, Held
    <3> QED BY <3>1, <3>2, CreateStep
  <2>3. CASE range # {"ok"}
    <3>1. "ok" \notin range /\ Makes(c, x, <<>>, range)
      BY <1>4, <2>1, <2>3, SubstrMakes
    <3>2. call' = c /\ x \notin alive /\ Abs!Refuses(range)
      BY <1>0, <3>1, RefusedStep
    <3>3. Abs!Create(c)
      BY <2>1, <2>3, <3>2 DEF Abs!Create, Held
    <3> QED BY <3>2, <3>3, CreateStep
  <2> QED BY <2>2, <2>3
<1>5. ASSUME NEW s \in Source, Within(K, s), FromCstr(x, s) PROVE Abs!Next
  <2>1. PICK c, w : c = <<"from_cstr", x, s>> /\ w = Abs!Text(s)
    OBVIOUS
  <2>2. FromCstrDoes(x, s)
    BY <1>5, FromCstrMakes
  <2>3. call' = c /\ Abs!FromCstr(x, s)
    <3>1. CASE s.of = Null
      <4>1. PICK codes : codes = {"null_pointer"}
        OBVIOUS
      <4>2. Makes(c, x, <<>>, codes) /\ "ok" \notin codes
        BY <2>1, <2>2, <3>1, <4>1 DEF FromCstrDoes
      <4>3. call' = c /\ Abs!Refuses(codes) /\ x \notin alive
        BY <1>0, <4>2, RefusedStep
      <4> QED BY <3>1, <4>1, <4>3 DEF Abs!FromCstr
    <3>2. CASE s.of # Null /\ Abs!Nuls(w) = {}
      <4>1. PICK codes : codes = {"not_null_terminated"}
        OBVIOUS
      <4>2. Makes(c, x, <<>>, codes) /\ "ok" \notin codes
        BY <2>1, <2>2, <3>2, <4>1 DEF FromCstrDoes
      <4>3. call' = c /\ Abs!Refuses(codes) /\ x \notin alive
        BY <1>0, <4>2, RefusedStep
      <4> QED BY <2>1, <3>2, <4>1, <4>3 DEF Abs!FromCstr
    <3>3. CASE s.of # Null /\ Abs!Nuls(w) # {}
      <4>1. PICK q, codes : q = Abs!UpToNul(w) /\ codes = IF q = <<>> THEN {"ok"} ELSE Abs!Room(Len(q))
        OBVIOUS
      <4>2. Makes(c, x, q, codes)
        BY <2>1, <2>2, <3>3, <4>1 DEF FromCstrDoes
      <4>3. call' = c /\ Abs!Becomes(x, q, codes) /\ x \notin alive
        BY <1>0, <4>2, MakesStep
      <4> QED BY <2>1, <3>3, <4>1, <4>3 DEF Abs!FromCstr
    <3> QED BY <3>1, <3>2, <3>3
  <2>4. call'[1] = "from_cstr" /\ call'[2] = x /\ call'[3] = s
    BY <2>1, <2>3
  <2> QED BY <2>3, <2>4 DEF Abs!Next
<1> QED BY <1>1, <1>2, <1>3, <1>4, <1>5

\* Every step of a string program.
LEMMA NextStep ==
  ASSUME Cautious, SensibleLimits, StrInv(Obj), Next
  PROVE  Abs!Next
<1>0. Inv(Obj) /\ "view_at_capacity" \in Excluded /\ \A s \in Source : Within(Obj, s)
  BY WithinObj DEF StrInv, Cautious, Careful
<1>1. CASE LifetimeNext
  <2>1. PICK x \in Obj, y \in Obj :
          Construct(x) \/ Destroy(x) \/ MoveConstruct(x, y) \/ MoveAssign(x, y)
    BY <1>1 DEF LifetimeNext
  <2>2. Abs!Lifetime(call')
    BY <1>0, <2>1, LifetimeStep
  <2> QED BY <2>2 DEF Abs!Next
<1>2. ASSUME NEW x \in Obj, Clear(x) \/ SecureClear(x) PROVE Abs!Next
  BY <1>2, PlainStep
<1>3. ASSUME NEW x \in Obj, NEW y \in Obj, Clone(x, y) PROVE Abs!Next
  BY <1>3, FactoryStep
<1>4. ASSUME NEW x \in Obj, NEW y \in Obj, NEW pos \in Size, NEW n \in Size, Substr(x, y, pos, n)
      PROVE  Abs!Next
  BY <1>4, FactoryStep
<1>5. ASSUME NEW x \in Obj, NEW n \in Size, WithCapacity(x, n) \/ Reserve(x, n) \/ At(x, n) PROVE Abs!Next
  BY <1>5, FactoryStep, PlainStep
<1>6. ASSUME NEW x \in Obj, NEW n \in Size, NEW out \in BOOLEAN, CopyToCstr(x, out, n) PROVE Abs!Next
  BY <1>6, PlainStep
<1>7. ASSUME NEW x \in Obj, NEW v \in Byte, AppendChar(x, v) PROVE Abs!Next
  BY <1>0, <1>7, TakingStep
<1>8. ASSUME NEW x \in Obj, NEW s \in Source, FromBytes(x, s) \/ FromCstr(x, s) PROVE Abs!Next
  BY <1>0, <1>8, FactoryStep
<1>9. ASSUME NEW x \in Obj, NEW s \in Source, AppendBytes(x, s) \/ Assign(x, s) PROVE Abs!Next
  BY <1>0, <1>9, TakingStep
<1>10. ASSUME NEW x \in Obj, NEW s \in Source, NEW pos \in Size, Insert(x, pos, s) PROVE Abs!Next
  BY <1>0, <1>10, SplicingStep
<1>11. ASSUME NEW x \in Obj, NEW s \in Source, NEW pos \in Size, NEW n \in Size, Replace(x, pos, n, s)
       PROVE  Abs!Next
  BY <1>0, <1>11, SplicingStep
<1> QED BY <1>1, <1>2, <1>3, <1>4, <1>5, <1>6, <1>7, <1>8, <1>9, <1>10, <1>11 DEF Next

\* Every string behaves as the byte sequence of AbstractString: each call has
\* exactly the abstract effect, also from a view of the string that is being
\* changed, or is refused with a code its arguments justify and changes nothing.
THEOREM StringRefines ==
  ASSUME Cautious, SensibleLimits
  PROVE  Spec => Implements
<1>1. Init => Abs!Init
  <2> SUFFICES ASSUME Init PROVE Abs!Init
    OBVIOUS
  <2>1. Inv(Obj) /\ \A x \in Obj : obj[x].size = 0
    BY InitInv DEF Init, Empty
  <2>2. \A x \in Obj : Contents(x) = <<>>
    <3> SUFFICES ASSUME NEW x \in Obj PROVE Contents(x) = <<>>
      OBVIOUS
    <3>1. PICK b : b = obj[x]
      OBVIOUS
    <3>2. Bytes(heap, b) = <<>> /\ Contents(x) = Bytes(heap, b)
      BY <2>1, <3>1, EmptyBytes DEF Bytes, Contents
    <3> QED BY <3>2
  <2>3. [x \in Obj |-> Contents(x)] = [x \in Obj |-> <<>>]
    BY <2>2
  <2> QED BY <2>3 DEF Init, Abs!Init
<1>2. StrInv(Obj) /\ [Next]_vars => [Abs!Next]_(Abs!avars)
  <2>1. StrInv(Obj) /\ Next => Abs!Next
    BY NextStep
  <2>2. UNCHANGED vars => UNCHANGED Abs!avars
    <3> SUFFICES ASSUME UNCHANGED vars PROVE UNCHANGED Abs!avars
      OBVIOUS
    <3>1. heap' = heap /\ obj' = obj /\ alive' = alive /\ call' = call /\ ret' = ret
      BY DEF vars
    <3>2. Held' = Held
      BY <3>1, UnchangedHeld
    <3> QED BY <3>1, <3>2 DEF Abs!avars, Held
  <2> QED BY <2>1, <2>2
<1>3. Spec => []StrInv(Obj)
  BY StrInvHolds DEF Cautious
<1> QED BY <1>1, <1>2, <1>3, PTL DEF Spec, Implements, Abs!Spec
=============================================================================
