---------------------------- MODULE BufferProofs ----------------------------
(***************************************************************************)
(* Proofs that every buffer program keeps its buffers sound, for every     *)
(* number of objects, heap blocks, byte values and every setting of the    *)
(* limits: each helper of buffer.cpp is local (see ContainerProofs), hence *)
(* every operation keeps the invariant.  What each helper does to the      *)
(* bytes gives the refinement of AbstractBuffer, step by step, and where   *)
(* the block is afterwards gives DataStable.                               *)
(***************************************************************************)
EXTENDS Buffer, ContainerProofs

USE DEF Size, Nullopt

-----------------------------------------------------------------------------
(***************************************************************************)
(* The private helpers of buffer.                                          *)
(***************************************************************************)

\* Making room for n bytes: the buffer is as before, with the room, or the
\* call is refused with a code that n justifies, and nothing changed.
Grown(h, b, n, o) ==
  /\ Local(h, b, o)
  /\ o.code \in Abs!Room(n)
  /\ o.code = "ok" =>
       /\ o.buf.cap >= n /\ o.buf.size = b.size /\ n <= MAX_ALLOC_BYTES
       /\ n <= b.cap => o.heap = h /\ o.buf = b
       /\ \A a \in Nat : a < b.size => Load(o.heap, o.buf.data, a) = Load(h, b.data, a)
  /\ o.code # "ok" => o.heap = h /\ o.buf = b

\* Leaving everything as it is makes room where there is enough already.
LEMMA SameGrown ==
  ASSUME NEW h, GoodHeap(h), NEW b, Sound(h, b), NEW n \in Size, NEW code \in Abs!Room(n),
         code = "ok" => n <= b.cap
  PROVE  Grown(h, b, n, Outcome(code, h, b, FALSE))
<1> DEFINE o == Outcome(code, h, b, FALSE)
<1>1. Local(h, b, o)
  BY SameLocal
<1>2. o.heap = h /\ o.buf = b /\ o.code = code
  BY DEF Outcome
<1>3. b.cap \in Nat /\ n \in Nat /\ b.cap <= MAX_ALLOC_BYTES /\ MAX_ALLOC_BYTES \in Nat
  BY SoundBounds, SizeAssumption
<1> HIDE DEF o
<1>4. Grown(h, b, n, o)
  BY <1>1, <1>2, <1>3 DEF Grown
<1> QED BY <1>4 DEF o

\* reserve makes room or changes nothing.
LEMMA ReserveGrown ==
  ASSUME NEW h, GoodHeap(h), NEW b, Sound(h, b), NEW n \in Size, NEW o \in reserve(h, b, n)
  PROVE  Grown(h, b, n, o)
<1>0. b.cap \in Nat /\ b.cap <= MAX_ALLOC_BYTES /\ n \in Nat /\ n <= SIZE_MAX
      /\ MAX_ALLOC_BYTES \in Nat /\ SIZE_MAX \in Nat
  BY SoundBounds, SizeAssumption
<1>1. CASE n <= b.cap
  <2>1. "ok" \in Abs!Room(n)
    BY <1>0, <1>1 DEF Abs!Room
  <2>2. o = Outcome("ok", h, b, FALSE)
    BY <1>1 DEF reserve
  <2> QED BY <1>1, <2>1, <2>2, SameGrown
<1>2. CASE ~(n <= b.cap) /\ n > MAX_ALLOC_BYTES
  <2>1. "capacity_exceeded" \in Abs!Room(n)
    BY <1>0, <1>2 DEF Abs!Room
  <2>2. o = Outcome("capacity_exceeded", h, b, FALSE)
    BY <1>2 DEF reserve
  <2> QED BY <2>1, <2>2, SameGrown
<1>3. CASE ~(n <= b.cap) /\ ~(n > MAX_ALLOC_BYTES)
  <2>1. {"ok", "out_of_memory"} \subseteq Abs!Room(n)
    BY <1>0, <1>3 DEF Abs!Room
  <2>2. CASE o = Outcome("out_of_memory", h, b, FALSE)
    BY <2>1, <2>2, SameGrown
  <2>3. ASSUME NEW p \in Room(h, b.data),
               o = Outcome("ok", realloc(h, b.data, p, n), [data |-> p, size |-> b.size, cap |-> n], FALSE)
        PROVE  Grown(h, b, n, o)
    <3>1. n \in Nat /\ n <= MAX_ALLOC_BYTES /\ b.cap < n /\ n = n + Slack /\ b.size \in Nat /\ b.size <= b.cap
      BY <1>0, <1>3, SoundBounds, BufferAssumption
    <3>2. Local(h, b, o)
      BY <2>3, <3>1, ReallocLocal
    <3>3. o.code = "ok" /\ o.buf.cap = n /\ o.buf.size = b.size /\ o.buf.data = p
          /\ o.heap = realloc(h, b.data, p, n)
      BY <2>3 DEF Outcome
    <3>4. \A a \in Nat : a < n => Load(realloc(h, b.data, p, n), p, a) = Load(h, b.data, a)
      <4>1. b.data \in Block \cup {Null} /\ h \in [Block -> Chunk] /\ n \in 0 .. MAX_ALLOC_BYTES /\ p \in Block
        BY <1>0, <3>1, SoundBounds DEF GoodHeap, Room
      <4> QED BY <4>1, ReallocCells
    <3>5. \A a \in Nat : a < b.size => Load(o.heap, o.buf.data, a) = Load(h, b.data, a)
      <4>1. \A a \in Nat : a < b.size => a < n
        BY <1>0, <3>1
      <4> QED BY <3>3, <3>4, <4>1
    <3>6. n <= n /\ ~(n <= b.cap)
      BY <1>3, <3>1
    <3> QED BY <2>1, <3>1, <3>2, <3>3, <3>5, <3>6 DEF Grown
  <2>4. \/ o = Outcome("out_of_memory", h, b, FALSE)
        \/ \E p \in Room(h, b.data) :
             o = Outcome("ok", realloc(h, b.data, p, n), [data |-> p, size |-> b.size, cap |-> n], FALSE)
    BY <1>3 DEF reserve
  <2> QED BY <2>2, <2>3, <2>4
<1> QED BY <1>1, <1>2, <1>3

\* So does grow_to_at_least.
LEMMA GrowGrown ==
  ASSUME NEW h, GoodHeap(h), NEW b, Sound(h, b), NEW n \in Size, NEW o \in grow_to_at_least(h, b, n)
  PROVE  Grown(h, b, n, o)
<1> DEFINE w == next_capacity(b.cap, n)
           t == IF w < n THEN n ELSE w
<1>1. b.cap \in Size /\ b.cap \in Nat /\ b.cap <= MAX_ALLOC_BYTES /\ n \in Nat
      /\ MAX_ALLOC_BYTES \in Nat /\ SIZE_MAX \in Nat /\ MAX_ALLOC_BYTES <= SIZE_MAX
  BY SoundBounds, SizeAssumption
<1>2. CASE n <= b.cap
  <2>1. "ok" \in Abs!Room(n)
    BY <1>1, <1>2 DEF Abs!Room
  <2>2. o = Outcome("ok", h, b, FALSE)
    BY <1>2 DEF grow_to_at_least
  <2> QED BY <1>2, <2>1, <2>2, SameGrown
<1>3. CASE ~(n <= b.cap)
  <2>1. w \in Size /\ w >= n /\ (n <= MAX_ALLOC_BYTES => w <= MAX_ALLOC_BYTES)
    BY <1>1, NextCapacityBounds
  <2>2. t \in Size /\ t \in Nat /\ t >= n /\ (n <= MAX_ALLOC_BYTES <=> t <= MAX_ALLOC_BYTES)
    BY <1>1, <2>1, SizeAssumption
  <2>3. o \in reserve(h, b, t)
    BY <1>3 DEF grow_to_at_least
  <2> HIDE DEF t
  <2>4. Grown(h, b, t, o)
    BY <2>2, <2>3, ReserveGrown
  <2>5. o.buf.cap \in Nat
    BY <2>4, SizeAssumption DEF Grown, Local, Sound, SoundAs, Header
  <2>6. Abs!Room(t) = Abs!Room(n)
    BY <1>1, <2>2 DEF Abs!Room
  <2>7. o.code = "ok" => o.buf.cap >= n /\ n <= MAX_ALLOC_BYTES
    BY <1>1, <2>2, <2>4, <2>5 DEF Grown
  <2> QED BY <1>3, <2>4, <2>6, <2>7 DEF Grown
<1> QED BY <1>2, <1>3

\* The buffer b has become u, n bytes long, and has kept its own bytes, and its
\* block too if that had room for n.
Extended(h, b, n, u) ==
  /\ Local(h, b, u) /\ u.code = "ok" /\ u.buf.size = n
  /\ n <= b.cap => u.buf.data = b.data /\ u.buf.cap = b.cap
  /\ \A a \in Nat : a < b.size => Load(u.heap, u.buf.data, a) = Load(h, b.data, a)

\* Writing to the room that growth made, up to the new size, extends.
LEMMA WriteExtended ==
  ASSUME NEW h, GoodHeap(h), NEW b, Sound(h, b), NEW n \in Nat, n > b.size, NEW g, Grown(h, b, n, g),
         g.code = "ok", NEW t, SameBut(g.heap, t, g.buf.data),
         \A a \in Nat : a < b.size => Load(t, g.buf.data, a) = Load(g.heap, g.buf.data, a),
         \A a \in Nat : b.size <= a /\ a < n => Load(t, g.buf.data, a) # Undef
  PROVE  Extended(h, b, n, Ok(t, [g.buf EXCEPT !.size = n]))
<1>1. /\ Local(h, b, g) /\ GoodHeap(g.heap) /\ Sound(g.heap, g.buf) /\ g.buf \in Header
      /\ g.buf.cap >= n /\ g.buf.size = b.size
      /\ \A a \in Nat : a < b.size => Load(g.heap, g.buf.data, a) = Load(h, b.data, a)
  BY DEF Grown, Local, Sound, SoundAs
<1>2. b.size \in Nat /\ g.buf.cap \in Nat /\ g.buf.data # Null
  BY <1>1, SoundBounds
<1>3. PICK c : c = [data |-> g.buf.data, size |-> n, cap |-> g.buf.cap]
  OBVIOUS
<1>4. [g.buf EXCEPT !.size = n] = c
  BY <1>1, <1>3, SizeField
<1>5. \A a \in Nat : a < n => Load(t, g.buf.data, a) # Undef
  <2>1. \A a \in Nat : a < b.size => Load(g.heap, g.buf.data, a) # Undef
    BY <1>1, SoundCells
  <2>2. \A a \in Nat : a < b.size \/ b.size <= a
    BY <1>2
  <2> QED BY <2>1, <2>2
<1>6. Local(g.heap, g.buf, Ok(t, c))
  BY <1>1, <1>2, <1>3, <1>5, WriteLocal DEF Ok
<1>7. Local(h, b, Ok(t, c))
  BY <1>1, <1>6, LocalTransitive
<1>8. PICK u : u = Ok(t, c)
  OBVIOUS
<1>9. u.code = "ok" /\ u.heap = t /\ u.buf = c /\ c.size = n /\ c.data = g.buf.data /\ c.cap = g.buf.cap
  BY <1>3, <1>8 DEF Ok, Outcome
<1>10. n <= b.cap => c.data = b.data /\ c.cap = b.cap
  BY <1>9 DEF Grown
<1>11. \A a \in Nat : a < b.size => Load(t, c.data, a) = Load(h, b.data, a)
  BY <1>1, <1>9
<1>12. Extended(h, b, n, u)
  BY <1>7, <1>8, <1>9, <1>10, <1>11 DEF Extended
<1> QED BY <1>4, <1>8, <1>12

\* Filling that room with a byte.
LEMMA FillExtended ==
  ASSUME NEW h, GoodHeap(h), NEW b, Sound(h, b), NEW n \in Nat, n > b.size, NEW g, Grown(h, b, n, g),
         g.code = "ok", NEW v \in Byte, NEW k, k = n - b.size,
         NEW u, u = Ok(memset(g.heap, g.buf.data, b.size, v, k), [g.buf EXCEPT !.size = n])
  PROVE  /\ Extended(h, b, n, u) /\ Inside(g.heap, g.buf.data, b.size, k)
         /\ \A a \in Nat : b.size <= a /\ a < n => Load(u.heap, u.buf.data, a) = v
<1>1. /\ Local(h, b, g) /\ GoodHeap(g.heap) /\ Sound(g.heap, g.buf)
      /\ g.buf.cap >= n /\ g.buf.size = b.size
  BY DEF Grown, Local
<1>2. PICK D, to, t : D = g.buf.data /\ to = b.size /\ t = memset(g.heap, D, to, v, k)
  OBVIOUS
<1>3. to \in Nat /\ g.buf.cap \in Nat /\ D # Null /\ k \in Nat /\ to + k = n
  BY <1>1, <1>2, SoundBounds
<1>4. D \in Block \ {Caller} /\ g.heap[D].len = g.buf.cap
  BY <1>1, <1>2, <1>3, BufferAssumption DEF Sound, SoundAs
<1>5. Inside(g.heap, D, to, k)
  BY <1>1, <1>3, <1>4 DEF Inside
<1>6. /\ SameBut(g.heap, t, D)
      /\ \A a \in Nat : a \in to .. to + k - 1 => Load(t, D, a) = v
      /\ \A a \in Nat : a \notin to .. to + k - 1 => Load(t, D, a) = Load(g.heap, D, a)
  BY <1>1, <1>2, <1>3, <1>4, <1>5, MemsetCells
<1>7. \A a \in Nat : to <= a /\ a < n => Load(t, D, a) = v
  BY <1>3, <1>6
<1>8. \A a \in Nat : a < to => Load(t, D, a) = Load(g.heap, D, a)
  BY <1>3, <1>6
<1>9. Extended(h, b, n, Ok(t, [g.buf EXCEPT !.size = n]))
  BY <1>2, <1>6, <1>7, <1>8, WriteExtended, MemoryAssumption
<1>10. u.heap = t /\ u.buf.data = D
  <2>1. g.buf \in Header
    BY <1>1 DEF Sound, SoundAs
  <2> QED BY <1>2, <2>1, SizeField DEF Ok, Outcome
<1> QED BY <1>2, <1>5, <1>7, <1>9, <1>10

\* The buffer b has got n bytes of block p after its own, m bytes in all, or
\* the copy was refused.
CopiedIn(h, b, p, off, n, m, o) ==
  /\ o.code \in Abs!Room(m)
  /\ o.code = "ok" =>
       /\ o.bad = FALSE
       /\ Extended(h, b, m, Ok(o.heap, [o.buf EXCEPT !.size = m]))
       /\ \A a, i, e \in Nat : i < n /\ a = b.size + i /\ e = off + i =>
            Load(o.heap, o.buf.data, a) = Load(h, p, e)
  /\ o.code # "ok" => Local(h, b, o) /\ o.heap = h /\ o.buf = b

\* copy_in_possibly_aliased, of bytes of the buffer itself or of another
\* block, followed by the new size: the growth does not take the source away,
\* and the copy stays in bounds and takes the bytes that were there before.
\* A source too long for the cap is refused before it is read.
LEMMA CopyInExtended ==
  ASSUME NEW h, GoodHeap(h), NEW b, Sound(h, b), NEW p \in Block, NEW off \in Nat,
         NEW n \in Size \ {0}, NEW m \in Size, m = b.size + n,
         m <= MAX_ALLOC_BYTES => Written(h, p, off, n),
         p = b.data => off + n <= b.size,
         NEW o \in copy_in_possibly_aliased(h, b, b.size, p, off, n)
  PROVE  CopiedIn(h, b, p, off, n, m, o)
<1> DEFINE end == checked_add(b.size, n)
           src(g) == IF pointer_in_range(p, off, b.data, b.cap) THEN g.buf.data ELSE p
           Copied(g) == Outcome("ok", memmove(g.heap, g.buf.data, b.size, src(g), off, n), g.buf,
                                ~ (Inside(g.heap, src(g), off, n) /\ Inside(g.heap, g.buf.data, b.size, n)))
<1>0. b.size \in Size /\ b.size \in Nat /\ n \in Nat /\ m \in Nat /\ m > b.size
  BY SoundBounds, SizeAssumption
<1>1. end = m /\ end # Nullopt
  BY <1>0, CheckedAddExact, SizeAssumption
<1>2. PICK g \in grow_to_at_least(h, b, m) : o = IF g.code = "ok" THEN Copied(g) ELSE g
  BY <1>1 DEF copy_in_possibly_aliased
<1>3. Grown(h, b, m, g)
  BY <1>2, GrowGrown
<1>4. CASE g.code # "ok"
  BY <1>2, <1>3, <1>4 DEF Grown, CopiedIn
<1>5. CASE g.code = "ok"
  <2>1. /\ Local(h, b, g) /\ GoodHeap(g.heap) /\ Sound(g.heap, g.buf) /\ Written(h, p, off, n)
        /\ g.buf.cap >= m /\ g.buf.size = b.size /\ m <= MAX_ALLOC_BYTES /\ "ok" \in Abs!Room(m)
        /\ \A a \in Nat : a < b.size => Load(g.heap, g.buf.data, a) = Load(h, b.data, a)
    BY <1>3, <1>5 DEF Grown, Local
  <2>2. PICK D, to : D = g.buf.data /\ to = b.size
    OBVIOUS
  <2>3. D \in Block \ {Caller} /\ D # Null /\ g.heap[D].len = g.buf.cap /\ g.buf.cap \in Nat /\ g.buf \in Header
    <3>1. g.buf.cap \in Nat /\ g.buf.cap > 0
      BY <1>0, <2>1, SoundBounds
    <3> QED BY <2>1, <2>2, <3>1, BufferAssumption DEF Sound, SoundAs
  <2>4. Inside(g.heap, D, to, n)
    BY <1>0, <2>1, <2>2, <2>3 DEF Inside
  <2>5. PICK q : q = src(g)
    OBVIOUS
  <2>6. /\ q \in Block /\ Inside(g.heap, q, off, n)
        /\ \A a \in Nat : off <= a /\ a < off + n =>
             Load(g.heap, q, a) = Load(h, p, a) /\ Load(g.heap, q, a) # Undef
    <3>1. CASE p = b.data
      <4>1. off < b.cap /\ b.data # Null /\ b.size <= b.cap /\ b.cap \in Nat
        BY <3>1, <1>0, SoundBounds, MemoryAssumption
      <4>2. q = D
        BY <2>2, <2>5, <3>1, <4>1 DEF pointer_in_range
      <4>3. \A a \in Nat : off <= a /\ a < off + n => a < b.size
        BY <3>1, <1>0
      <4>4. off + n <= g.buf.cap
        BY <1>0, <2>1, <2>3, <3>1
      <4>5. \A a \in Nat : a < b.size => Load(g.heap, D, a) # Undef
        BY <2>1, <2>2, SoundCells
      <4> QED BY <2>1, <2>2, <2>3, <3>1, <4>2, <4>3, <4>4, <4>5 DEF Inside
    <3>2. CASE p # b.data
      <4>1. q = p
        BY <2>5, <3>2 DEF pointer_in_range
      <4>2. Inside(g.heap, p, off, n)
        BY <2>1, <3>2, WrittenFrame
      <4>3. Live(h, p) /\ h[p].len \in 0 .. MAX_ALLOC_BYTES /\ off + n <= h[p].len
        BY <2>1, <1>0, SizeAssumption DEF Written, Live, GoodHeap, Chunk
      <4>4. g.heap[p] = h[p]
        BY <2>1, <3>2, <4>3 DEF Local
      <4>5. ASSUME NEW a \in Nat, off <= a, a < off + n
            PROVE  Load(g.heap, p, a) = Load(h, p, a) /\ Load(h, p, a) # Undef
        <5>1. a < h[p].len /\ a \in Addr
          BY <1>0, <4>3, <4>5, SizeAssumption DEF Addr
        <5> QED BY <2>1, <4>4, <4>5, <5>1, MemoryAssumption DEF Load, Written
      <4> QED BY <4>1, <4>2, <4>5
    <3> QED BY <3>1, <3>2
  <2>7. PICK t : t = memmove(g.heap, D, to, q, off, n)
    OBVIOUS
  <2>8. o = Ok(t, g.buf)
    BY <1>2, <1>5, <2>2, <2>4, <2>5, <2>6, <2>7 DEF Ok
  <2>9. o.heap = t /\ o.buf = g.buf /\ o.bad = FALSE /\ o.code = "ok"
    BY <2>8 DEF Ok, Outcome
  <2>10. /\ SameBut(g.heap, t, D)
         /\ \A a \in Nat : a \in to .. to + n - 1 => Load(t, D, a) = Load(g.heap, q, off + (a - to))
         /\ \A a \in Nat : a \notin to .. to + n - 1 => Load(t, D, a) = Load(g.heap, D, a)
    <3>1. to \in Nat /\ n \in Nat /\ q \in Block /\ D \in Block \ {Caller} /\ GoodHeap(g.heap)
      BY <1>0, <2>1, <2>2, <2>3, <2>6
    <3> QED BY <2>4, <2>7, <3>1, MemmoveCells
  <2>11. \A a \in Nat : a < to => Load(t, D, a) = Load(g.heap, D, a)
    BY <1>0, <2>2, <2>10
  <2>12. ASSUME NEW a \in Nat, NEW e \in Nat, to <= a, a < m, e = off + (a - to)
         PROVE  Load(t, D, a) = Load(h, p, e) /\ Load(t, D, a) # Undef
    <3>1. a \in to .. to + n - 1 /\ off <= e /\ e < off + n
      BY <1>0, <2>2, <2>12
    <3> QED BY <2>6, <2>10, <2>12, <3>1
  <2>13. \A a \in Nat : to <= a /\ a < m => Load(t, D, a) # Undef
    <3> SUFFICES ASSUME NEW a \in Nat, to <= a, a < m PROVE Load(t, D, a) # Undef
      OBVIOUS
    <3>1. PICK e \in Nat : e = off + (a - to)
      BY <1>0, <2>2
    <3> QED BY <2>12, <3>1
  <2>14. Extended(h, b, m, Ok(t, [g.buf EXCEPT !.size = m]))
    BY <1>0, <1>3, <1>5, <2>2, <2>10, <2>11, <2>13, WriteExtended
  <2>15. ASSUME NEW a \in Nat, NEW i \in Nat, NEW e \in Nat, i < n, a = b.size + i, e = off + i
         PROVE  Load(t, D, a) = Load(h, p, e)
    <3>1. to <= a /\ a < m /\ e = off + (a - to)
      BY <1>0, <2>2, <2>15
    <3> QED BY <2>12, <3>1
  <2> QED BY <2>1, <2>2, <2>9, <2>14, <2>15 DEF CopiedIn
<1> QED BY <1>4, <1>5

\* A new buffer: empty with the capacity asked for, or none at all.
LEMMA WithCapacityMade ==
  ASSUME NEW h, GoodHeap(h), NEW n \in Size, NEW o \in with_capacity(h, n)
  PROVE  /\ Local(h, Empty, o)
         /\ o.code \in IF n = 0 THEN {"ok"} ELSE Abs!Room(n)
         /\ o.code = "ok" => o.buf.cap = n /\ o.buf.size = 0 /\ n <= MAX_ALLOC_BYTES
         /\ o.code # "ok" => o.buf = Empty /\ o.heap = h
<1>0. Sound(h, Empty) /\ n \in Nat
  BY EmptySound, SizeAssumption
<1>1. ASSUME NEW c, o = Outcome(c, h, Empty, FALSE), c = "ok" => n = 0,
             c \in IF n = 0 THEN {"ok"} ELSE Abs!Room(n)
      PROVE  /\ Local(h, Empty, o)
             /\ o.code \in IF n = 0 THEN {"ok"} ELSE Abs!Room(n)
             /\ o.code = "ok" => o.buf.cap = n /\ o.buf.size = 0 /\ n <= MAX_ALLOC_BYTES
             /\ o.code # "ok" => o.buf = Empty /\ o.heap = h
  <2>1. Local(h, Empty, o)
    BY <1>0, <1>1, SameLocal
  <2>2. o.code = c /\ o.buf = Empty /\ o.heap = h
    BY <1>1 DEF Outcome
  <2>3. o.code = "ok" => n = 0
    BY <1>1, <2>2
  <2>4. o.code \in IF n = 0 THEN {"ok"} ELSE Abs!Room(n)
    BY <1>1, <2>2
  <2>5. Empty.cap = 0 /\ Empty.size = 0 /\ 0 <= MAX_ALLOC_BYTES
    BY SizeAssumption DEF Empty
  <2> QED BY <2>1, <2>2, <2>3, <2>4, <2>5
<1>2. CASE n = 0
  BY <1>1, <1>2 DEF with_capacity
<1>3. CASE n > MAX_ALLOC_BYTES
  <2>0. n # 0
    BY <1>0, <1>3, SizeAssumption
  <2>1. o = Outcome("capacity_exceeded", h, Empty, FALSE)
    BY <1>3, <2>0 DEF with_capacity
  <2>2. "capacity_exceeded" \in Abs!Room(n)
    BY <1>3, SizeAssumption DEF Abs!Room
  <2> QED BY <1>1, <2>0, <2>1, <2>2
<1>4. CASE n # 0 /\ ~(n > MAX_ALLOC_BYTES)
  <2>0. {"ok", "out_of_memory"} \subseteq Abs!Room(n) /\ n <= MAX_ALLOC_BYTES
    BY <1>4, SizeAssumption DEF Abs!Room
  <2>1. \/ o = Outcome("out_of_memory", h, Empty, FALSE)
        \/ \E p \in Room(h, Null) :
             o = Outcome("ok", malloc(h, p, n), [data |-> p, size |-> 0, cap |-> n], FALSE)
    BY <1>4 DEF with_capacity
  <2>2. ASSUME NEW p \in Room(h, Null),
               o = Outcome("ok", malloc(h, p, n), [data |-> p, size |-> 0, cap |-> n], FALSE)
        PROVE  /\ Local(h, Empty, o)
               /\ o.code = "ok" /\ o.buf.cap = n /\ o.buf.size = 0
    <3>1. malloc(h, p, n) = realloc(h, Null, p, n)
      BY DEF malloc, realloc, free, Load, Freed
    <3>2. n \in Nat /\ n <= MAX_ALLOC_BYTES /\ 0 < n /\ n = n + Slack
      BY <1>0, <1>4, SizeAssumption, BufferAssumption
    <3>3. Empty.data = Null /\ Empty.size = 0 /\ Empty.cap = 0
      BY DEF Empty
    <3>4. Local(h, Empty, Outcome("ok", realloc(h, Empty.data, p, n),
                                  [data |-> p, size |-> Empty.size, cap |-> n], FALSE))
      BY <1>0, <2>2, <3>2, <3>3, ReallocLocal
    <3> QED BY <2>2, <3>1, <3>3, <3>4 DEF Outcome
  <2> QED BY <1>1, <1>4, <2>0, <2>1, <2>2
<1> QED BY <1>2, <1>3, <1>4

\* from_bytes: a buffer filled with the bytes of the source, or none at all.
LEMMA FromBytesMade ==
  ASSUME NEW h, GoodHeap(h), NEW q \in Block \cup {Null}, NEW off \in Nat, NEW n \in Size,
         n # 0 /\ q # Null /\ n <= MAX_ALLOC_BYTES => Written(h, q, off, n),
         NEW o \in from_bytes(h, q, off, n)
  PROVE  /\ Local(h, Empty, o)
         /\ o.code \in IF n = 0 THEN {"ok"} ELSE IF q = Null THEN {"null_pointer"} ELSE Abs!Room(n)
         /\ o.code = "ok" => /\ o.buf.size = n /\ n <= MAX_ALLOC_BYTES
                             /\ \A a, e \in Nat : a < n /\ e = off + a =>
                                  Load(o.heap, o.buf.data, a) = Load(h, q, e)
         /\ o.code # "ok" => o.buf = Empty /\ o.heap = h
<1>0. Sound(h, Empty) /\ 0 \in Size /\ Empty.data = Null /\ n \in Nat
  BY EmptySound, SizeAssumption DEF Empty
<1>1. CASE n = 0
  <2>1. o \in with_capacity(h, 0)
    BY <1>1 DEF from_bytes
  <2>2. PICK z \in Size : z = 0
    BY <1>0
  <2>3. o \in with_capacity(h, z)
    BY <2>1, <2>2
  <2>4. /\ Local(h, Empty, o) /\ o.code \in (IF z = 0 THEN {"ok"} ELSE Abs!Room(z))
        /\ o.code = "ok" => o.buf.size = 0
        /\ o.code # "ok" => o.buf = Empty /\ o.heap = h
    BY <2>3, WithCapacityMade
  <2>5. \A a \in Nat : ~(a < n)
    BY <1>1
  <2> QED BY <1>1, <2>2, <2>4, <2>5, SizeAssumption
<1>2. CASE n # 0 /\ q = Null
  <2>1. o = Outcome("null_pointer", h, Empty, FALSE)
    BY <1>2 DEF from_bytes
  <2>2. o.buf = Empty /\ o.heap = h /\ o.code = "null_pointer"
    BY <2>1 DEF Outcome
  <2>3. Local(h, Empty, o)
    BY <1>0, <2>1, SameLocal
  <2> QED BY <1>2, <2>2, <2>3
<1>3. CASE n # 0 /\ q # Null
  <2> DEFINE Filled(g) == Outcome("ok", memmove(g.heap, g.buf.data, 0, q, off, n),
                                  [g.buf EXCEPT !.size = n], ~ Inside(h, q, off, n))
  <2>1. PICK g \in with_capacity(h, n) : o = IF g.code = "ok" THEN Filled(g) ELSE g
    BY <1>3 DEF from_bytes
  <2>2. /\ Local(h, Empty, g) /\ g.code \in Abs!Room(n)
        /\ g.code = "ok" => g.buf.cap = n /\ g.buf.size = 0 /\ n <= MAX_ALLOC_BYTES
        /\ g.code # "ok" => g.buf = Empty /\ g.heap = h
    BY <1>3, <2>1, WithCapacityMade
  <2>3. CASE g.code # "ok"
    BY <1>3, <2>1, <2>2, <2>3
  <2>4. CASE g.code = "ok"
    <3>1. GoodHeap(g.heap) /\ Sound(g.heap, g.buf) /\ g.buf \in Header
      BY <2>2 DEF Local, Sound, SoundAs
    <3>2. PICK D, to, t : D = g.buf.data /\ to = 0 /\ t = memmove(g.heap, D, to, q, off, n)
      OBVIOUS
    <3>3. D # Null /\ D \in Block \ {Caller} /\ g.heap[D].len = n
      BY <1>0, <1>3, <2>2, <2>4, <3>1, <3>2, BufferAssumption DEF Sound, SoundAs
    <3>4. Written(h, q, off, n) /\ q # Empty.data /\ q \in Block
      BY <1>0, <1>3, <2>2, <2>4
    <3>5. /\ Inside(h, q, off, n) /\ h[q].len \in 0 .. MAX_ALLOC_BYTES /\ off + n <= h[q].len /\ Live(h, q)
          /\ \A a \in Addr : off <= a /\ a < off + n => h[q].cell[a] # Undef
      BY <1>0, <1>3, <3>4, SizeAssumption DEF Inside, Written, GoodHeap, Chunk, Live
    <3>6. g.heap[q] = h[q]
      BY <2>2, <3>4, <3>5 DEF Local
    <3>7. to \in Nat /\ Inside(g.heap, D, to, n)
      BY <1>0, <3>2, <3>3 DEF Inside
    <3>8. /\ SameBut(g.heap, t, D)
          /\ \A a \in Nat : a \in to .. to + n - 1 => Load(t, D, a) = Load(g.heap, q, off + (a - to))
      <4>1. GoodHeap(g.heap) /\ D \in Block \ {Caller} /\ to \in Nat /\ n \in Nat /\ q \in Block /\ Inside(g.heap, D, to, n)
        BY <1>0, <3>1, <3>3, <3>4, <3>7
      <4> QED BY <3>2, <4>1, MemmoveCells
    <3>9. ASSUME NEW a \in Nat, NEW e \in Nat, a < n, e = off + a
          PROVE  Load(t, D, a) = Load(h, q, e) /\ Load(h, q, e) # Undef
      <4>1. a \in to .. to + n - 1 /\ off + (a - to) = e /\ e < h[q].len /\ e \in Addr /\ off <= e /\ e < off + n
        BY <1>0, <3>2, <3>5, <3>9, SizeAssumption DEF Addr
      <4>2. Load(t, D, a) = Load(g.heap, q, e)
        BY <3>8, <4>1
      <4> QED BY <1>3, <3>5, <3>6, <4>1, <4>2 DEF Load
    <3>10. \A a \in Nat : a < n => Load(t, D, a) # Undef
      <4> SUFFICES ASSUME NEW a \in Nat, a < n PROVE Load(t, D, a) # Undef
        OBVIOUS
      <4>1. PICK e \in Nat : e = off + a
        OBVIOUS
      <4> QED BY <3>9, <4>1
    <3>11. PICK c : c = [data |-> D, size |-> n, cap |-> g.buf.cap]
      OBVIOUS
    <3>12. Local(g.heap, g.buf, Ok(t, c))
      <4>1. n \in Nat /\ n <= g.buf.cap
        BY <1>0, <2>2, <2>4
      <4>2. /\ g.buf.data # Null /\ SameBut(g.heap, t, g.buf.data)
            /\ \A a \in Nat : a < n => Load(t, g.buf.data, a) # Undef
            /\ c = [data |-> g.buf.data, size |-> n, cap |-> g.buf.cap]
        BY <3>2, <3>3, <3>8, <3>10, <3>11
      <4> QED BY <3>1, <4>1, <4>2, WriteLocal DEF Ok
    <3>13. [g.buf EXCEPT !.size = n] = c
      BY <3>1, <3>2, <3>11, SizeField
    <3>14. o = Ok(t, c)
      BY <2>1, <2>4, <3>2, <3>5, <3>13 DEF Ok
    <3>15. Local(h, Empty, o)
      BY <1>0, <2>2, <3>12, <3>14, LocalTransitive
    <3>16. o.code = "ok" /\ o.heap = t /\ o.buf.data = D /\ o.buf.size = n
      BY <3>11, <3>14 DEF Ok, Outcome
    <3> QED BY <1>3, <2>2, <2>4, <3>9, <3>15, <3>16
  <2> QED BY <2>3, <2>4
<1> QED BY <1>1, <1>2, <1>3

-----------------------------------------------------------------------------
(***************************************************************************)
(* What each operation does: it is sound, and it gives what AbstractBuffer *)
(* says or leaves everything alone, and it moves the block only when it    *)
(* has to.                                                                 *)
(***************************************************************************)

\* The part of DataStable that speaks of one step.
Stable ==
  \A x \in alive \cap alive' :
    \/ call'[1] \in {"reserve", "move_construct", "move_assign"} /\ ret'.code = "ok"
    \/ obj'[x].size > obj[x].cap
    \/ obj'[x].data = obj[x].data /\ obj'[x].cap = obj[x].cap

\* Header b keeps its block unless the contents outgrow it or the call is reserve.
Steady(c, b, o) ==
  \/ c[1] = "reserve" /\ o.code = "ok"
  \/ o.buf.size > b.cap
  \/ o.buf.data = b.data /\ o.buf.cap = b.cap

\* The call c on x makes it hold q or is refused with one of the codes.
Acts(c, x, q, codes) ==
  /\ x \in alive
  /\ \E o : Ends(c, x, o) /\ Leaves(obj[x], q, codes, o) /\ Steady(c, obj[x], o)

\* The factory call c makes x hold q or is refused with one of the codes.
Makes(c, x, q, codes) ==
  /\ x \notin alive
  /\ \E o : Creates(c, x, o) /\ Leaves(Empty, q, codes, o)

\* The call c hands out v or is refused with one of the codes.
Hands(c, v, codes) ==
  \E code, val : /\ Looks(c, code, val, FALSE) /\ code \in codes
                 /\ code = "ok" => val = v
                 /\ code # "ok" => val = <<>>

\* Objects outside K, those of the other kind, keep their fields and their bytes.
Frame(K) ==
  \A y \in Obj \ K :
    obj'[y] = obj[y] /\ \A a : Load(heap', obj[y].data, a) = Load(heap, obj[y].data, a)

\* What such a call does to the program as a whole.
LEMMA ActsStep ==
  ASSUME NEW K, Inv(K), NEW x \in Obj, x \in K, NEW c, NEW q, NEW codes, Acts(c, x, q, codes)
  PROVE  Inv(K)' /\ call' = c /\ Abs!Becomes(x, q, codes) /\ x \in alive /\ Stable /\ Frame(K)
<1>1. PICK o : Ends(c, x, o) /\ Leaves(obj[x], q, codes, o) /\ Steady(c, obj[x], o)
  BY DEF Acts
<1>2. Inv(K)' /\ call' = c /\ Turns(x, q, codes) /\ obj' = [obj EXCEPT ![x] = o.buf] /\ ret'.code = o.code
  BY <1>1, EndsTurns DEF Acts
<1>3. Abs!Becomes(x, q, codes)
  BY <1>2 DEF Turns, Abs!Becomes, Abs!Refuses, Held
<1>4. Stable
  <2> SUFFICES ASSUME NEW y \in alive
               PROVE  \/ c[1] = "reserve" /\ o.code = "ok"
                      \/ obj'[y].size > obj[y].cap
                      \/ obj'[y].data = obj[y].data /\ obj'[y].cap = obj[y].cap
    BY <1>2 DEF Stable
  <2>1. y \in Obj /\ obj \in [Obj -> Header]
    BY DEF Inv
  <2>2. CASE y = x
    BY <1>1, <1>2, <2>1, <2>2 DEF Steady
  <2>3. CASE y # x
    BY <1>2, <2>1, <2>3
  <2> QED BY <2>2, <2>3
<1>5. Frame(K)
  <2>1. Local(heap, obj[x], o) /\ Answer(c, x, o)
    BY <1>1 DEF Leaves, Ends
  <2> QED BY <2>1, AnswerFrame DEF Frame
<1> QED BY <1>2, <1>3, <1>4, <1>5 DEF Acts

\* A factory: a new buffer with the contents q, or none and a code.
LEMMA MakesStep ==
  ASSUME NEW K, Inv(K), NEW x \in Obj, x \in K, NEW c, NEW q, NEW codes, Makes(c, x, q, codes)
  PROVE  Inv(K)' /\ call' = c /\ Abs!Becomes(x, q, codes) /\ x \notin alive /\ Stable /\ Frame(K)
<1>1. PICK o : Creates(c, x, o) /\ Leaves(Empty, q, codes, o)
  BY DEF Makes
<1>2. Inv(K)' /\ call' = c /\ Turns(x, q, codes) /\ obj' = [obj EXCEPT ![x] = o.buf]
  BY <1>1, CreatesTurns
<1>3. Abs!Becomes(x, q, codes)
  BY <1>2 DEF Turns, Abs!Becomes, Abs!Refuses, Held
<1>4. \A y \in alive : obj'[y] = obj[y]
  BY <1>2 DEF Makes, Inv
<1>5. Frame(K)
  <2>1. Local(heap, obj[x], o) /\ Answer(c, x, o)
    BY <1>1 DEF Leaves, Creates, Makes, Inv
  <2> QED BY <2>1, AnswerFrame DEF Frame
<1> QED BY <1>2, <1>3, <1>4, <1>5 DEF Makes, Stable

\* A call that only reads.
LEMMA HandsStep ==
  ASSUME NEW K, Inv(K), NEW c, NEW v, NEW codes, Hands(c, v, codes)
  PROVE  Inv(K)' /\ call' = c /\ Abs!Yields(v, codes) /\ Stable /\ Frame(K)
<1>1. PICK code, val : /\ Looks(c, code, val, FALSE) /\ code \in codes
                       /\ code = "ok" => val = v
                       /\ code # "ok" => val = <<>>
  BY DEF Hands
<1>2. Inv(K)' /\ call' = c /\ Tells(v, codes) /\ obj' = obj
  BY <1>1, LooksTells
<1>3. Abs!Yields(v, codes)
  BY <1>2 DEF Tells, Abs!Yields, Abs!Refuses, Held
<1>4. heap' = heap
  BY <1>1 DEF Looks
<1> QED BY <1>2, <1>3, <1>4 DEF Stable, Frame

\* A live buffer, its block and its bytes.
LEMMA HeaderFacts ==
  ASSUME NEW K, Inv(K), NEW x \in Obj, x \in K, NEW b, b = obj[x]
  PROVE  /\ GoodHeap(heap) /\ Sound(heap, b) /\ b \in Header
         /\ b.data \in Block \cup {Null} /\ b.size \in Nat /\ b.cap \in Nat /\ b.size <= b.cap
         /\ b.cap <= MAX_ALLOC_BYTES /\ b.size \in Size
         /\ b.data = Null => b.size = 0
         /\ b.data # Null => b.data \in Block \ {Caller} /\ heap[b.data].len = b.cap
         /\ Held[x] \in Seq(Cell) /\ Len(Held[x]) = b.size /\ Bytes(heap, b) = Held[x]
         /\ \A i \in 1 .. b.size : Held[x][i] = Load(heap, b.data, i - 1)
<1>1. GoodHeap(heap) /\ Sound(heap, b) /\ b \in Header
  BY DEF Inv
<1>2. b.data \in Block \cup {Null} /\ b.size \in Nat /\ b.cap \in Nat /\ b.size <= b.cap
      /\ b.cap <= MAX_ALLOC_BYTES /\ (b.data = Null => b.size = 0)
  BY <1>1, SoundBounds
<1>3. b.data # Null => b.data \in Block \ {Caller} /\ heap[b.data].len = b.cap
  BY <1>1, <1>2, BufferAssumption DEF Sound, SoundAs
<1>4. b.size \in Size
  BY <1>1 DEF Header
<1>5. /\ Held[x] \in Seq(Cell) /\ Len(Held[x]) = b.size /\ Bytes(heap, b) = Held[x]
      /\ \A i \in 1 .. b.size : Held[x][i] = Load(heap, b.data, i - 1)
  BY HeldBytes
<1> QED BY <1>1, <1>2, <1>3, <1>4, <1>5

\* What a source that may be read stands for is in memory where it points.
LEMMA ValueCells ==
  ASSUME NEW K, Inv(K), NEW s \in Source, Readable(s, 0), s.len # 0
  PROVE  /\ Abs!Value(s) \in Seq(Cell) /\ Len(Abs!Value(s)) = s.len /\ s.of # Null
         /\ \A i, e \in Nat : i < s.len /\ e = s.off + i => Abs!Value(s)[i + 1] = Load(heap, target(s), e)
<1>1. PICK w : w = Abs!Value(s)
  OBVIOUS
<1>2. w = IF s.of = Caller THEN [i \in 1 .. s.len |-> CallerBytes[s.off + i - 1]]
          ELSE [i \in 1 .. s.len |-> Held[s.of][s.off + i]]
  BY <1>1 DEF Abs!Value, Abs!Part, Held
<1> QED BY <1>1, <1>2, SourceCells

\* A non-empty source points nowhere only if it is the null pointer.
LEMMA SourcePointer ==
  ASSUME NEW K, Inv(K), NEW s \in Source, s.len # 0, NEW long, MayPass(s, 0, long)
  PROVE  /\ target(s) = Null <=> s.of = Null
         /\ target(s) \in Block \cup {Null}
<1>1. s.of \in Obj \cup {Caller, Null} /\ s.off \in Nat /\ s.len \in Nat
  BY SizeAssumption DEF Source
<1>2. CASE s.of \in Obj
  <2>1. PICK y \in Obj : y = s.of
    BY <1>2
  <2>2. y # Null /\ y # Caller
    BY ContainerAssumption, MemoryAssumption
  <2>3. obj[y].size \in Nat /\ obj[y].data \in Block \cup {Null} /\ (obj[y].data = Null => obj[y].size = 0)
    BY AnyObject
  <2>4. target(s) = obj[y].data
    BY <2>1 DEF target
  <2>5. s.off + s.len <= obj[y].size
    <3>1. Readable(s, 0)
      BY <2>1, <2>2 DEF MayPass
    <3>2. s.off + s.len <= obj[y].size + (IF obj[y].data = Null THEN 0 ELSE 0)
      BY <2>1, <2>2, <3>1 DEF Readable
    <3>3. (IF obj[y].data = Null THEN 0 ELSE 0) = 0
      OBVIOUS
    <3> QED BY <2>3, <3>2, <3>3
  <2>6. obj[y].data # Null
    BY <1>1, <2>3, <2>5
  <2> QED BY <2>1, <2>2, <2>3, <2>4, <2>6
<1>3. CASE s.of \notin Obj
  BY <1>1, <1>3, MemoryAssumption DEF target
<1> QED BY <1>2, <1>3

\* A refusal leaves everything alone.
LEMMA RefusalLeaves ==
  ASSUME NEW b, GoodHeap(heap), Sound(heap, b), NEW q, NEW codes, NEW code \in codes, code # "ok", NEW c,
         NEW o, o = Outcome(code, heap, b, FALSE)
  PROVE  Leaves(b, q, codes, o) /\ Steady(c, b, o)
<1>1. Local(heap, b, o)
  BY SameLocal
<1>2. o.code = code /\ o.heap = heap /\ o.buf = b
  BY DEF Outcome
<1> QED BY <1>1, <1>2 DEF Leaves, Steady

\* So does a success that has nothing to do.
LEMMA NothingLeaves ==
  ASSUME NEW b, GoodHeap(heap), Sound(heap, b), NEW q, q = Bytes(heap, b), NEW codes, "ok" \in codes, NEW c,
         NEW o, o = Ok(heap, b)
  PROVE  Leaves(b, q, codes, o) /\ Steady(c, b, o)
<1>1. Local(heap, b, o)
  BY SameLocal DEF Ok
<1>2. o.code = "ok" /\ o.heap = heap /\ o.buf = b
  BY DEF Ok, Outcome
<1> QED BY <1>1, <1>2 DEF Leaves, Steady

\* Overwriting bytes of a buffer, which keeps its size.
LEMMA StoreLeaves ==
  ASSUME NEW b, GoodHeap(heap), Sound(heap, b), b.data # Null, NEW t, SameBut(heap, t, b.data),
         NEW q \in Seq(Cell), Len(q) = b.size, \A i \in 1 .. b.size : Load(t, b.data, i - 1) = q[i],
         \A i \in 1 .. b.size : q[i] # Undef, NEW codes, "ok" \in codes, NEW c
  PROVE  Leaves(b, q, codes, Ok(t, b)) /\ Steady(c, b, Ok(t, b))
<1>1. b.size \in Nat /\ b.cap \in Nat /\ b.size <= b.cap /\ b \in Header
  BY SoundBounds DEF Sound, SoundAs
<1>2. \A a \in Nat : a < b.size => Load(t, b.data, a) # Undef
  <2> SUFFICES ASSUME NEW a \in Nat, a < b.size PROVE Load(t, b.data, a) # Undef
    OBVIOUS
  <2>1. PICK i \in 1 .. b.size : a = i - 1
    <3>1. a + 1 \in 1 .. b.size /\ a = (a + 1) - 1
      BY <1>1
    <3> QED BY <3>1
  <2> QED BY <2>1
<1>3. PICK m \in Nat : m = b.size
  BY <1>1
<1>4. b = [data |-> b.data, size |-> m, cap |-> b.cap]
  BY <1>1, <1>3 DEF Header
<1>5. Local(heap, b, Outcome("ok", t, [data |-> b.data, size |-> m, cap |-> b.cap], FALSE))
  BY <1>1, <1>2, <1>3, WriteLocal
<1>6. PICK o : o = Ok(t, b)
  OBVIOUS
<1>7. Local(heap, b, o)
  BY <1>4, <1>5, <1>6 DEF Ok
<1>8. o.code = "ok" /\ o.heap = t /\ o.buf = b
  BY <1>6 DEF Ok, Outcome
<1>9. Bytes(t, b) = q
  BY <1>1, BytesAre
<1> QED BY <1>6, <1>7, <1>8, <1>9 DEF Leaves, Steady

\* Overwriting the bytes from offset at by those of w.
LEMMA OverwriteLeaves ==
  ASSUME NEW K, Inv(K), NEW x \in Obj, x \in K, NEW b, b = obj[x], b.data # Null, NEW t, SameBut(heap, t, b.data),
         NEW at \in Nat, NEW w \in Seq(Cell), at + Len(w) <= b.size,
         \A i, a \in Nat : i < Len(w) /\ a = at + i => Load(t, b.data, a) = w[i + 1] /\ w[i + 1] # Undef,
         \A a \in Nat : ~(at <= a /\ a < at + Len(w)) => Load(t, b.data, a) = Load(heap, b.data, a),
         NEW codes, "ok" \in codes, NEW c
  PROVE  Leaves(b, Abs!Overwrite(Held[x], at, w), codes, Ok(t, b)) /\ Steady(c, b, Ok(t, b))
<1>1. PICK q, u, n : q = Abs!Overwrite(Held[x], at, w) /\ u = Held[x] /\ n = Len(w)
  OBVIOUS
<1>2. /\ GoodHeap(heap) /\ Sound(heap, b) /\ b.size \in Nat
      /\ u \in Seq(Cell) /\ Len(u) = b.size
      /\ \A j \in 1 .. b.size : u[j] = Load(heap, b.data, j - 1)
  BY <1>1, HeaderFacts
<1>3. n \in Nat
  BY <1>1
<1>4. q = [j \in 1 .. b.size |-> IF j \in at + 1 .. at + n THEN w[j - at] ELSE u[j]]
  BY <1>1, <1>2 DEF Abs!Overwrite
<1>5. ASSUME NEW j \in 1 .. b.size
      PROVE  q[j] = Load(t, b.data, j - 1) /\ q[j] \in Cell /\ q[j] # Undef
  <2>1. PICK a \in Nat : a = j - 1 /\ a < b.size
    BY <1>2
  <2>2. CASE j \in at + 1 .. at + n
    <3>1. PICK i \in Nat : i = j - at - 1
      BY <1>3, <2>2
    <3>2. i < n /\ a = at + i /\ i + 1 = j - at /\ i + 1 \in 1 .. n
      BY <1>3, <2>1, <2>2, <3>1
    <3>3. q[j] = w[i + 1]
      BY <1>4, <2>2, <3>2
    <3>4. Load(t, b.data, a) = w[i + 1] /\ w[i + 1] # Undef
      BY <1>1, <3>2
    <3>5. w[i + 1] \in Cell
      BY <1>1, <3>2
    <3> QED BY <2>1, <3>3, <3>4, <3>5
  <2>3. CASE j \notin at + 1 .. at + n
    <3>1. ~(at <= a /\ a < at + n)
      BY <1>3, <2>1, <2>3
    <3>2. q[j] = u[j] /\ Load(t, b.data, a) = Load(heap, b.data, a)
      BY <1>1, <1>4, <2>3, <3>1
    <3>3. u[j] = Load(heap, b.data, a) /\ u[j] \in Cell
      BY <1>2, <2>1
    <3>4. Load(heap, b.data, a) # Undef
      BY <1>2, <2>1, SoundCells
    <3> QED BY <2>1, <3>2, <3>3, <3>4
  <2> QED BY <2>2, <2>3
<1>6. q \in Seq(Cell) /\ Len(q) = b.size
  <2>1. PICK k \in Nat : k = b.size
    BY <1>2
  <2>2. q \in [1 .. k -> Cell]
    BY <1>4, <1>5, <2>1
  <2>3. q \in Seq(Cell) /\ Len(q) = k
    BY <2>2, FunSeq, Zenon
  <2> QED BY <2>1, <2>3
<1>7. Leaves(b, q, codes, Ok(t, b)) /\ Steady(c, b, Ok(t, b))
  BY <1>2, <1>5, <1>6, StoreLeaves
<1> QED BY <1>1, <1>7

\* set: one byte changes, if there is one at that place.
LEMMA SetActs ==
  ASSUME NEW K, Inv(K), NEW x \in Obj, x \in K, NEW i \in Size, NEW v \in Byte, Set(x, i, v)
  PROVE  Acts(<<"set", x, i, v>>, x, Abs!Overwrite(Held[x], i, <<v>>), Abs!Index(i < Len(Held[x])))
<1>1. PICK b, c, q, w, codes :
        /\ b = obj[x] /\ c = <<"set", x, i, v>> /\ w = <<v>>
        /\ q = Abs!Overwrite(Held[x], i, w) /\ codes = Abs!Index(i < Len(Held[x]))
  OBVIOUS
<1>2. PICK o : o = IF i >= b.size THEN Outcome("out_of_range", heap, b, FALSE)
                   ELSE Outcome("ok", memset(heap, b.data, i, v, 1), b, ~ Inside(heap, b.data, i, 1))
  OBVIOUS
<1>3. x \in alive /\ Ends(c, x, o)
  BY <1>1, <1>2 DEF Set
<1>4. /\ GoodHeap(heap) /\ Sound(heap, b)
      /\ b.data \in Block \cup {Null} /\ b.size \in Nat /\ b.cap \in Nat /\ b.size <= b.cap
      /\ b.data = Null => b.size = 0
      /\ b.data # Null => b.data \in Block \ {Caller} /\ heap[b.data].len = b.cap
      /\ Len(Held[x]) = b.size
  BY <1>1, HeaderFacts
<1>5. i \in Nat
  BY SizeAssumption
<1>6. CASE i >= b.size
  <2>1. "out_of_range" \in codes
    BY <1>1, <1>4, <1>5, <1>6 DEF Abs!Index
  <2>2. o = Outcome("out_of_range", heap, b, FALSE)
    BY <1>2, <1>6
  <2>3. Leaves(b, q, codes, o) /\ Steady(c, b, o)
    BY <1>4, <2>1, <2>2, RefusalLeaves
  <2> QED BY <1>1, <1>3, <2>3 DEF Acts
<1>7. CASE ~(i >= b.size)
  <2>1. "ok" \in codes /\ i < b.size /\ b.data # Null
    BY <1>1, <1>4, <1>5, <1>7 DEF Abs!Index
  <2>2. PICK n \in Nat : n = 1
    OBVIOUS
  <2>3. Inside(heap, b.data, i, n)
    BY <1>4, <1>5, <2>1, <2>2 DEF Inside
  <2>4. PICK t : t = memset(heap, b.data, i, v, n)
    OBVIOUS
  <2>5. /\ SameBut(heap, t, b.data)
        /\ \A a \in Nat : a \in i .. i + n - 1 => Load(t, b.data, a) = v
        /\ \A a \in Nat : a \notin i .. i + n - 1 => Load(t, b.data, a) = Load(heap, b.data, a)
    BY <1>4, <1>5, <2>1, <2>3, <2>4, MemsetCells
  <2>6. o = Ok(t, b)
    BY <1>2, <1>7, <2>2, <2>3, <2>4 DEF Ok
  <2>7. w \in Seq(Cell) /\ Len(w) = 1 /\ w[1] = v /\ v # Undef
    BY <1>1, MemoryAssumption DEF Cell
  <2>8. \A k, a \in Nat : k < Len(w) /\ a = i + k => Load(t, b.data, a) = w[k + 1] /\ w[k + 1] # Undef
    <3> SUFFICES ASSUME NEW k \in Nat, NEW a \in Nat, k < 1, a = i + k
                 PROVE  Load(t, b.data, a) = v /\ k + 1 = 1
      BY <2>7
    <3>1. k = 0 /\ a \in i .. i + n - 1
      BY <1>5, <2>2
    <3> QED BY <2>5, <3>1
  <2>9. \A a \in Nat : ~(i <= a /\ a < i + Len(w)) => Load(t, b.data, a) = Load(heap, b.data, a)
    <3>1. \A a \in Nat : ~(i <= a /\ a < i + 1) => a \notin i .. i + n - 1
      BY <1>5, <2>2
    <3> QED BY <2>5, <2>7, <3>1
  <2>10. i + Len(w) <= b.size
    BY <1>4, <1>5, <2>1, <2>7
  <2>11. Leaves(b, q, codes, o) /\ Steady(c, b, o)
    <3>1. i \in Nat /\ SameBut(heap, t, b.data) /\ b.data # Null
      BY <1>5, <2>1, <2>5
    <3>2. Leaves(b, Abs!Overwrite(Held[x], i, w), codes, Ok(t, b)) /\ Steady(c, b, Ok(t, b))
      BY <1>1, <2>1, <2>7, <2>8, <2>9, <2>10, <3>1, OverwriteLeaves, ZenonT(30)
    <3> QED BY <1>1, <2>6, <3>2
  <2> QED BY <1>1, <1>3, <2>11 DEF Acts
<1> QED BY <1>6, <1>7

\* write: the bytes of the source replace as many of the buffer's, if they
\* fit; the source may overlap the bytes it replaces.
LEMMA WriteActs ==
  ASSUME NEW K, Inv(K), NEW x \in Obj, x \in K, NEW offset \in Size, NEW s \in Source, Write(x, offset, s)
  PROVE  Acts(<<"write", x, offset, s>>, x, Abs!Overwrite(Held[x], offset, Abs!Value(s)),
              IF s.len = 0 THEN {"ok"}
              ELSE IF s.of = Null THEN {"null_pointer"}
              ELSE Abs!Range(offset, s.len, Len(Held[x])))
<1>1. PICK b, c, w, q, codes, p, off, n :
        /\ b = obj[x] /\ c = <<"write", x, offset, s>> /\ w = Abs!Value(s)
        /\ q = Abs!Overwrite(Held[x], offset, w) /\ p = target(s) /\ off = s.off /\ n = s.len
        /\ codes = IF s.len = 0 THEN {"ok"}
                   ELSE IF s.of = Null THEN {"null_pointer"}
                   ELSE Abs!Range(offset, s.len, Len(Held[x]))
  OBVIOUS
<1> DEFINE fits == range_in_bounds(offset, n, b.size)
           code == IF n = 0 THEN "ok"
                   ELSE IF p = Null THEN "null_pointer"
                   ELSE IF fits THEN "ok"
                   ELSE IF checked_add(offset, n) = Nullopt THEN "overflow" ELSE "out_of_range"
<1>2. PICK o : o = IF n = 0 \/ code # "ok" THEN Outcome(code, heap, b, FALSE)
                   ELSE Outcome("ok", memmove(heap, b.data, offset, p, off, n), b,
                                ~ (Inside(heap, p, off, n) /\ Inside(heap, b.data, offset, n)))
  OBVIOUS
<1>3. x \in alive /\ Ends(c, x, o) /\ MayPass(s, 0, ~fits)
  BY <1>1, <1>2 DEF Write
<1>4. /\ GoodHeap(heap) /\ Sound(heap, b)
      /\ b.data \in Block \cup {Null} /\ b.size \in Nat /\ b.cap \in Nat /\ b.size <= b.cap
      /\ b.data = Null => b.size = 0
      /\ b.data # Null => b.data \in Block \ {Caller} /\ heap[b.data].len = b.cap
      /\ Held[x] \in Seq(Cell) /\ Len(Held[x]) = b.size /\ Bytes(heap, b) = Held[x]
  BY <1>1, HeaderFacts
<1>5. /\ offset \in Nat /\ off \in Nat /\ n \in Size /\ n \in Nat /\ SIZE_MAX \in Nat
      /\ b.size <= SIZE_MAX
  BY <1>1, HeaderFacts, SizeAssumption DEF Source
<1>6. /\ fits <=> offset + n <= b.size
      /\ checked_add(offset, n) = Nullopt <=> offset + n > SIZE_MAX
  <2>1. checked_add(offset, n) = IF offset + n \in Size THEN offset + n ELSE Nullopt
    BY <1>5, CheckedAddExact
  <2>2. offset + n \in Nat /\ (offset + n \in Size <=> offset + n <= SIZE_MAX)
    BY <1>5
  <2>3. fits <=> checked_add(offset, n) # Nullopt /\ checked_add(offset, n) <= b.size
    BY DEF range_in_bounds
  <2>4. CASE offset + n <= SIZE_MAX
    <3>1. checked_add(offset, n) = offset + n
      BY <2>1, <2>2, <2>4
    <3> QED BY <1>4, <1>5, <2>2, <2>3, <2>4, <3>1
  <2>5. CASE ~(offset + n <= SIZE_MAX)
    <3>1. checked_add(offset, n) = Nullopt
      BY <2>1, <2>2, <2>5
    <3> QED BY <1>4, <1>5, <2>2, <2>3, <2>5, <3>1
  <2> QED BY <2>4, <2>5
<1>7. n # 0 => (p = Null <=> s.of = Null)
  BY <1>1, <1>3, SourcePointer
<1> HIDE DEF fits
<1>8. CASE n = 0
  <2>1. q = Held[x] /\ codes = {"ok"} /\ o = Ok(heap, b)
    <3>1. w = <<>> /\ codes = {"ok"}
      BY <1>1, <1>8 DEF Abs!Value
    <3>2. q = [i \in 1 .. b.size |-> Held[x][i]]
      BY <1>1, <1>4, <1>5, <3>1 DEF Abs!Overwrite
    <3>3. o = Ok(heap, b)
      BY <1>2, <1>8 DEF Ok
    <3> QED BY <1>4, <3>1, <3>2, <3>3
  <2>2. Leaves(b, q, codes, o) /\ Steady(c, b, o)
    BY <1>4, <2>1, NothingLeaves
  <2> QED BY <1>1, <1>3, <2>2 DEF Acts
<1>9. CASE n # 0 /\ code # "ok"
  <2>1. o = Outcome(code, heap, b, FALSE)
    BY <1>2, <1>9
  <2>3. code \in codes
    BY <1>1, <1>4, <1>5, <1>6, <1>7, <1>9 DEF Abs!Range, Abs!Index
  <2> HIDE DEF code
  <2>4. Leaves(b, q, codes, o) /\ Steady(c, b, o)
    BY <1>4, <1>9, <2>1, <2>3, RefusalLeaves
  <2> QED BY <1>1, <1>3, <2>4 DEF Acts
<1>10. CASE n # 0 /\ code = "ok"
  <2>1. p # Null /\ offset + n <= b.size /\ fits
    BY <1>6, <1>10
  <2>2. s.of # Null /\ Readable(s, 0)
    BY <1>3, <1>7, <1>10, <2>1 DEF MayPass
  <2>3. Written(heap, p, off, n) /\ Inside(heap, p, off, n) /\ p \in Block
    BY <1>1, <1>10, <2>1, <2>2, ReadableWritten DEF Written, Inside
  <2>4. b.data # Null
    BY <1>4, <1>5, <1>10, <2>1
  <2>5. Inside(heap, b.data, offset, n)
    BY <1>4, <1>5, <2>1, <2>4 DEF Inside
  <2>6. PICK t : t = memmove(heap, b.data, offset, p, off, n)
    OBVIOUS
  <2>7. o = Ok(t, b)
    BY <1>2, <1>10, <2>3, <2>5, <2>6 DEF Ok
  <2>8. /\ SameBut(heap, t, b.data)
        /\ \A a \in Nat : a \in offset .. offset + n - 1 =>
             Load(t, b.data, a) = Load(heap, p, off + (a - offset))
        /\ \A a \in Nat : a \notin offset .. offset + n - 1 => Load(t, b.data, a) = Load(heap, b.data, a)
    <3>1. GoodHeap(heap) /\ b.data \in Block \ {Caller} /\ offset \in Nat /\ n \in Nat /\ p \in Block /\ off \in Nat
      BY <1>4, <1>5, <2>3, <2>4
    <3> QED BY <2>5, <2>6, <3>1, MemmoveCells
  <2>9. /\ w \in Seq(Cell) /\ Len(w) = n
        /\ \A i, e \in Nat : i < n /\ e = off + i => w[i + 1] = Load(heap, p, e)
    BY <1>1, <1>10, <2>2, ValueCells
  <2>10. ASSUME NEW i \in Nat, NEW a \in Nat, i < Len(w), a = offset + i
         PROVE  Load(t, b.data, a) = w[i + 1] /\ w[i + 1] # Undef
    <3>1. PICK e \in Nat : e = off + i
      BY <1>5
    <3>2. a \in offset .. offset + n - 1 /\ off + (a - offset) = e /\ off <= e /\ e < off + n
      BY <1>5, <2>9, <2>10, <3>1
    <3>3. Load(t, b.data, a) = Load(heap, p, e) /\ w[i + 1] = Load(heap, p, e)
      BY <2>8, <2>9, <2>10, <3>1, <3>2
    <3>4. Load(heap, p, e) # Undef
      BY <1>4, <2>3, <3>2, WrittenLoad
    <3> QED BY <3>3, <3>4
  <2>11. \A a \in Nat : ~(offset <= a /\ a < offset + Len(w)) => Load(t, b.data, a) = Load(heap, b.data, a)
    <3>1. \A a \in Nat : ~(offset <= a /\ a < offset + n) => a \notin offset .. offset + n - 1
      BY <1>5
    <3> QED BY <2>8, <2>9, <3>1
  <2>12. "ok" \in codes
    BY <1>1, <1>4, <1>5, <1>10, <2>1, <2>2 DEF Abs!Range, Abs!Index
  <2>13. offset + Len(w) <= b.size
    BY <2>1, <2>9
  <2>14. Leaves(b, q, codes, o) /\ Steady(c, b, o)
    <3>1. SameBut(heap, t, b.data) /\ w \in Seq(Cell) /\ offset \in Nat /\ b = obj[x]
      BY <1>1, <1>5, <2>8, <2>9
    <3>2. \A i, a \in Nat : i < Len(w) /\ a = offset + i => Load(t, b.data, a) = w[i + 1] /\ w[i + 1] # Undef
      BY <2>10
    <3>3. Leaves(b, Abs!Overwrite(Held[x], offset, w), codes, Ok(t, b)) /\ Steady(c, b, Ok(t, b))
      BY <2>4, <2>11, <2>12, <2>13, <3>1, <3>2, OverwriteLeaves
    <3> QED BY <1>1, <2>7, <3>3
  <2> QED BY <1>1, <1>3, <2>14 DEF Acts
<1> QED BY <1>8, <1>9, <1>10

\* A buffer that has grown by the bytes of w.
LEMMA ExtendedLeaves ==
  ASSUME NEW K, Inv(K), NEW x \in Obj, x \in K, NEW b, b = obj[x], NEW w \in Seq(Cell), NEW m \in Nat, m = b.size + Len(w),
         NEW u, Extended(heap, b, m, u),
         \A a, i \in Nat : i < Len(w) /\ a = b.size + i => Load(u.heap, u.buf.data, a) = w[i + 1],
         NEW codes, "ok" \in codes, NEW c
  PROVE  Leaves(b, Held[x] \o w, codes, u) /\ Steady(c, b, u)
<1>1. PICK h, k : h = u.heap /\ k = u.buf
  OBVIOUS
<1>2. /\ Local(heap, b, u) /\ u.code = "ok" /\ k.size = m
      /\ m <= b.cap => k.data = b.data /\ k.cap = b.cap
      /\ \A a \in Nat : a < b.size => Load(h, k.data, a) = Load(heap, b.data, a)
  BY <1>1 DEF Extended
<1>3. b.cap \in Nat
  BY HeaderFacts
<1>4. k.size = obj[x].size + Len(w) /\ Inv(K) /\ x \in Obj /\ w \in Seq(Cell)
  BY <1>2
<1>5. \A a \in Nat : a < obj[x].size => Load(h, k.data, a) = Load(heap, obj[x].data, a)
  BY <1>2
<1>6. \A a, i \in Nat : i < Len(w) /\ a = obj[x].size + i => Load(h, k.data, a) = w[i + 1]
  BY <1>1
<1>7. Bytes(h, k) = Held[x] \o w
  BY <1>4, <1>5, <1>6, ConcatCells, SMTT(60)
<1>8. Leaves(b, Held[x] \o w, codes, u)
  BY <1>1, <1>2, <1>7 DEF Leaves
<1>9. Steady(c, b, u)
  <2>1. m <= b.cap \/ m > b.cap
    BY <1>3
  <2> QED BY <1>1, <1>2, <2>1 DEF Steady
<1> QED BY <1>8, <1>9

\* A buffer cut down to its first m bytes, the rest of its block whatever it is.
LEMMA CutLeaves ==
  ASSUME NEW K, Inv(K), NEW x \in Obj, x \in K, NEW b, b = obj[x], NEW m \in Nat, m <= b.size,
         NEW codes, "ok" \in codes, NEW c, NEW o, o = Ok(heap, [b EXCEPT !.size = m])
  PROVE  Leaves(b, [i \in 1 .. m |-> Held[x][i]], codes, o) /\ Steady(c, b, o)
<1>1. /\ GoodHeap(heap) /\ Sound(heap, b) /\ b \in Header /\ b.size \in Nat
      /\ \A i \in 1 .. b.size : Held[x][i] = Load(heap, b.data, i - 1)
  BY HeaderFacts
<1>2. PICK k : k = [data |-> b.data, size |-> m, cap |-> b.cap]
  OBVIOUS
<1>3. [b EXCEPT !.size = m] = k
  BY <1>1, <1>2, SizeField
<1>4. Local(heap, b, o)
  BY <1>1, <1>2, <1>3, ShrinkLocal DEF Ok
<1>5. o.code = "ok" /\ o.heap = heap /\ o.buf = k /\ k.data = b.data /\ k.size = m /\ k.cap = b.cap
  BY <1>2, <1>3 DEF Ok, Outcome
<1>6. \A i \in 1 .. m : Held[x][i] = Load(heap, k.data, i - 1)
  <2>1. \A i \in 1 .. m : i \in 1 .. b.size
    BY <1>1
  <2> QED BY <1>1, <1>5, <2>1
<1>7. Bytes(heap, k) = [i \in 1 .. m |-> Held[x][i]]
  BY <1>5, <1>6 DEF Bytes
<1> QED BY <1>4, <1>5, <1>7 DEF Leaves, Steady

\* fill: every byte becomes v.
LEMMA FillActs ==
  ASSUME NEW K, Inv(K), NEW x \in Obj, x \in K, NEW v \in Byte, Fill(x, v)
  PROVE  Acts(<<"fill", x, v>>, x, Abs!Repeat(v, Len(Held[x])), {"ok"})
<1>1. PICK b, c, q, codes :
        b = obj[x] /\ c = <<"fill", x, v>> /\ q = Abs!Repeat(v, Len(Held[x])) /\ codes = {"ok"}
  OBVIOUS
<1>2. PICK o : o = IF b.size > 0 /\ b.data # Null
                   THEN Outcome("ok", memset(heap, b.data, 0, v, b.size), b, ~ Inside(heap, b.data, 0, b.size))
                   ELSE Outcome("ok", heap, b, FALSE)
  OBVIOUS
<1>3. x \in alive /\ Ends(c, x, o)
  BY <1>1, <1>2 DEF Fill
<1>4. /\ GoodHeap(heap) /\ Sound(heap, b)
      /\ b.data \in Block \cup {Null} /\ b.size \in Nat /\ b.cap \in Nat /\ b.size <= b.cap
      /\ b.data = Null => b.size = 0
      /\ b.data # Null => b.data \in Block \ {Caller} /\ heap[b.data].len = b.cap
      /\ Held[x] \in Seq(Cell) /\ Len(Held[x]) = b.size /\ Bytes(heap, b) = Held[x]
  BY <1>1, HeaderFacts
<1>5. PICK n \in Nat : n = b.size
  BY <1>4
<1>6. v \in Cell /\ v # Undef
  BY MemoryAssumption DEF Cell
<1>7. q \in [1 .. n -> Cell] /\ \A i \in 1 .. n : q[i] = v
  BY <1>1, <1>4, <1>5, <1>6 DEF Abs!Repeat
<1>8. q \in Seq(Cell) /\ Len(q) = n
  BY <1>7, FunSeq
<1>9. CASE ~(b.size > 0 /\ b.data # Null)
  <2>1. b.size = 0 /\ o = Ok(heap, b)
    <3>1. b.size = 0
      BY <1>4, <1>9
    <3>2. o = Outcome("ok", heap, b, FALSE)
      BY <1>2, <1>9
    <3> QED BY <3>1, <3>2 DEF Ok
  <2>2. q = <<>> /\ Bytes(heap, b) = <<>>
    BY <1>5, <1>8, <2>1, EmptyBytes, EmptySeq
  <2>3. Leaves(b, q, codes, o) /\ Steady(c, b, o)
    BY <1>1, <1>4, <2>1, <2>2, NothingLeaves
  <2> QED BY <1>1, <1>3, <2>3 DEF Acts
<1>10. CASE b.size > 0 /\ b.data # Null
  <2>1. PICK to \in Nat : to = 0
    OBVIOUS
  <2>2. b.data \in Block \ {Caller} /\ Inside(heap, b.data, to, n)
    BY <1>4, <1>5, <1>10, <2>1 DEF Inside
  <2>3. PICK t : t = memset(heap, b.data, to, v, n)
    OBVIOUS
  <2>4. /\ SameBut(heap, t, b.data)
        /\ \A a \in Nat : a \in to .. to + n - 1 => Load(t, b.data, a) = v
    BY <1>4, <2>2, <2>3, MemsetCells
  <2>5. o = Ok(t, b)
    BY <1>2, <1>5, <1>10, <2>1, <2>2, <2>3 DEF Ok
  <2>6. ASSUME NEW i \in 1 .. b.size PROVE Load(t, b.data, i - 1) = q[i] /\ q[i] # Undef
    <3>1. PICK a \in Nat : a = i - 1 /\ a \in to .. to + n - 1
      BY <1>4, <1>5, <2>1
    <3> QED BY <1>5, <1>6, <1>7, <2>4, <3>1
  <2>7. Leaves(b, q, codes, o) /\ Steady(c, b, o)
    <3>1. Len(q) = b.size /\ b.data # Null /\ "ok" \in codes
      BY <1>1, <1>5, <1>8, <1>10
    <3> QED BY <1>4, <1>8, <2>4, <2>5, <2>6, <3>1, StoreLeaves
  <2> QED BY <1>1, <1>3, <2>7 DEF Acts
<1> QED BY <1>9, <1>10

\* clear: nothing is left.
LEMMA ClearActs ==
  ASSUME NEW K, Inv(K), NEW x \in Obj, x \in K, Clear(x)
  PROVE  Acts(<<"clear", x>>, x, <<>>, {"ok"})
<1>1. PICK b, c, m, codes : b = obj[x] /\ c = <<"clear", x>> /\ m = 0 /\ codes = {"ok"}
  OBVIOUS
<1>2. PICK o : o = Ok(heap, [b EXCEPT !.size = m])
  OBVIOUS
<1>3. x \in alive /\ Ends(c, x, o)
  BY <1>1, <1>2 DEF Clear, Ok
<1>4. m \in Nat /\ m <= b.size /\ "ok" \in codes
  BY <1>1, HeaderFacts
<1>5. Leaves(b, [i \in 1 .. m |-> Held[x][i]], codes, o) /\ Steady(c, b, o)
  BY <1>1, <1>2, <1>4, CutLeaves
<1>6. [i \in 1 .. m |-> Held[x][i]] = <<>>
  BY <1>1
<1> QED BY <1>1, <1>3, <1>5, <1>6 DEF Acts

\* reserve: the bytes stay, the block may move.
LEMMA ReserveActs ==
  ASSUME NEW K, Inv(K), NEW x \in Obj, x \in K, NEW n \in Size, Reserve(x, n)
  PROVE  Acts(<<"reserve", x, n>>, x, Held[x], Abs!Room(n))
<1>1. PICK b, c, codes : b = obj[x] /\ c = <<"reserve", x, n>> /\ codes = Abs!Room(n)
  OBVIOUS
<1>2. PICK o \in reserve(heap, b, n) : Ends(c, x, o)
  BY <1>1 DEF Reserve
<1>3. GoodHeap(heap) /\ Sound(heap, b) /\ b.size \in Nat /\ Bytes(heap, b) = Held[x]
  BY <1>1, HeaderFacts
<1>4. Grown(heap, b, n, o)
  BY <1>2, <1>3, ReserveGrown
<1>5. PICK h, k : h = o.heap /\ k = o.buf
  OBVIOUS
<1>6. o.code = "ok" => Bytes(h, k) = Held[x]
  <2> SUFFICES ASSUME o.code = "ok" PROVE Bytes(h, k) = Bytes(heap, b)
    BY <1>3
  <2>1. k.size = b.size /\ \A a \in Nat : a < b.size => Load(h, k.data, a) = Load(heap, b.data, a)
    BY <1>4, <1>5 DEF Grown
  <2> QED BY <1>3, <2>1, SameBytes
<1>7. Leaves(b, Held[x], codes, o)
  BY <1>1, <1>4, <1>5, <1>6 DEF Grown, Leaves
<1>8. c[1] = "reserve"
  BY <1>1
<1>9. Steady(c, b, o)
  BY <1>4, <1>8 DEF Grown, Steady
<1>10. x \in alive
  BY DEF Reserve
<1> QED BY <1>1, <1>2, <1>7, <1>9, <1>10 DEF Acts

\* secure_clear: the bytes are zeroed in place, and nothing is left.
LEMMA SecureClearActs ==
  ASSUME NEW K, Inv(K), NEW x \in Obj, x \in K, SecureClear(x)
  PROVE  Acts(<<"secure_clear", x>>, x, <<>>, {"ok"})
<1>1. PICK b, c, m, codes : b = obj[x] /\ c = <<"secure_clear", x>> /\ m = 0 /\ codes = {"ok"}
  OBVIOUS
<1>2. PICK o : o = Outcome("ok", secure_zero(heap, b.data, b.size), [b EXCEPT !.size = m],
                           b.size > 0 /\ ~ Inside(heap, b.data, 0, b.size))
  OBVIOUS
<1>3. x \in alive /\ Ends(c, x, o)
  BY <1>1, <1>2 DEF SecureClear
<1>4. /\ GoodHeap(heap) /\ Sound(heap, b) /\ b \in Header
      /\ b.data \in Block \cup {Null} /\ b.size \in Nat /\ b.cap \in Nat /\ b.size <= b.cap
      /\ b.data = Null => b.size = 0
      /\ b.data # Null => b.data \in Block \ {Caller} /\ heap[b.data].len = b.cap
  BY <1>1, HeaderFacts
<1>5. PICK k : k = [data |-> b.data, size |-> m, cap |-> b.cap]
  OBVIOUS
<1>6. [b EXCEPT !.size = m] = k /\ k.size = 0 /\ k.data = b.data /\ k.cap = b.cap
  BY <1>1, <1>4, <1>5, SizeField
<1>7. m \in Nat /\ m <= b.size /\ m <= b.cap /\ "ok" \in codes
  BY <1>1, <1>4
<1>8. PICK t : t = secure_zero(heap, b.data, b.size)
  OBVIOUS
<1>9. o = Ok(t, k)
  <2>1. ~(b.size > 0 /\ ~ Inside(heap, b.data, 0, b.size))
    BY <1>4 DEF Inside
  <2>2. (b.size > 0 /\ ~ Inside(heap, b.data, 0, b.size)) = FALSE
    BY <2>1
  <2> QED BY <1>2, <1>6, <1>8, <2>2 DEF Ok
<1>10. Local(heap, b, Ok(t, k))
  <2>1. CASE b.data = Null \/ b.size = 0
    <3>1. t = heap
      BY <1>8, <2>1 DEF secure_zero
    <3> QED BY <1>4, <1>5, <1>7, <3>1, ShrinkLocal DEF Ok
  <2>2. CASE ~(b.data = Null \/ b.size = 0)
    <3>1. PICK to, n, v : to = 0 /\ n = b.size /\ v = 0
      OBVIOUS
    <3>2. t = memset(heap, b.data, to, v, n)
      BY <1>8, <2>2, <3>1 DEF secure_zero
    <3>3. to \in Nat /\ n \in Nat /\ v \in Byte /\ b.data \in Block \ {Caller} /\ Inside(heap, b.data, to, n)
      BY <1>4, <2>2, <3>1, MemoryAssumption DEF Inside
    <3>4. SameBut(heap, t, b.data)
      BY <1>4, <3>2, <3>3, MemsetCells
    <3>5. \A a \in Nat : a < m => Load(t, b.data, a) # Undef
      BY <1>1
    <3>6. b.data # Null
      BY <2>2
    <3> QED BY <1>4, <1>5, <1>7, <3>4, <3>5, <3>6, WriteLocal DEF Ok
  <2> QED BY <2>1, <2>2
<1>11. o.code = "ok" /\ o.heap = t /\ o.buf = k
  BY <1>9 DEF Ok, Outcome
<1>12. Bytes(t, k) = <<>>
  BY <1>6, EmptyBytes
<1>13. Leaves(b, <<>>, codes, o) /\ Steady(c, b, o)
  BY <1>6, <1>7, <1>9, <1>10, <1>11, <1>12 DEF Leaves, Steady
<1> QED BY <1>1, <1>3, <1>13 DEF Acts

\* Growing to n bytes and filling the new ones with v, or a refusal.
LEMMA FillLeaves ==
  ASSUME NEW K, Inv(K), NEW x \in Obj, x \in K, NEW b, b = obj[x], NEW n \in Nat, n > b.size, NEW g, Grown(heap, b, n, g),
         NEW v \in Byte, NEW k, k = n - b.size,
         NEW o, g.code # "ok" => o = g,
         g.code = "ok" => o = Outcome("ok", memset(g.heap, g.buf.data, b.size, v, k), [g.buf EXCEPT !.size = n],
                                      ~ Inside(g.heap, g.buf.data, b.size, k)),
         NEW w, w = [i \in 1 .. k |-> v], NEW codes, codes = Abs!Room(n), NEW c
  PROVE  Leaves(b, Held[x] \o w, codes, o) /\ Steady(c, b, o)
<1>1. GoodHeap(heap) /\ Sound(heap, b) /\ b.size \in Nat /\ g.code \in codes
  BY HeaderFacts DEF Grown
<1>2. CASE g.code # "ok"
  BY <1>2 DEF Grown, Leaves, Steady
<1>3. CASE g.code = "ok"
  <2>1. PICK u : u = Ok(memset(g.heap, g.buf.data, b.size, v, k), [g.buf EXCEPT !.size = n])
    OBVIOUS
  <2>2. /\ Extended(heap, b, n, u) /\ Inside(g.heap, g.buf.data, b.size, k)
        /\ \A a \in Nat : b.size <= a /\ a < n => Load(u.heap, u.buf.data, a) = v
    BY <1>1, <1>3, <2>1, FillExtended
  <2>3. o = u
    BY <1>3, <2>1, <2>2 DEF Ok
  <2>4. k \in Nat /\ v \in Cell
    BY <1>1 DEF Cell
  <2>5. w \in Seq(Cell) /\ Len(w) = k /\ \A i \in 1 .. k : w[i] = v
    <3>1. w \in [1 .. k -> Cell]
      BY <2>4
    <3> QED BY <2>4, <3>1, FunSeq
  <2>6. n = b.size + Len(w)
    BY <1>1, <2>4, <2>5
  <2>7. ASSUME NEW a \in Nat, NEW i \in Nat, i < Len(w), a = b.size + i
        PROVE  Load(u.heap, u.buf.data, a) = w[i + 1]
    <3>1. i + 1 \in 1 .. k /\ b.size <= a /\ a < n
      BY <1>1, <2>4, <2>5, <2>6, <2>7
    <3> QED BY <2>2, <2>5, <3>1
  <2>8. "ok" \in codes
    BY <1>1, <1>3
  <2>9. \A a, i \in Nat : i < Len(w) /\ a = b.size + i => Load(u.heap, u.buf.data, a) = w[i + 1]
    BY <2>7
  <2>10. Leaves(b, Held[x] \o w, codes, u) /\ Steady(c, b, u)
    <3>1. Extended(heap, b, n, u)
      BY <2>2
    <3>2. w \in Seq(Cell)
      BY <2>5
    <3> QED BY <2>6, <2>8, <2>9, <3>1, <3>2, ExtendedLeaves, ZenonT(30)
  <2> QED BY <2>3, <2>10
<1> QED BY <1>2, <1>3

\* append(byte): one byte more, if there is room for it.
LEMMA AppendByteActs ==
  ASSUME NEW K, Inv(K), NEW x \in Obj, x \in K, NEW v \in Byte, AppendByte(x, v)
  PROVE  Acts(<<"append_byte", x, v>>, x, Append(Held[x], v), Abs!Room(Len(Held[x]) + 1))
<1>1. PICK b, c, codes, n, one : b = obj[x] /\ c = <<"append_byte", x, v>> /\ codes = Abs!Room(b.size + 1)
                            /\ n = checked_add(b.size, 1) /\ one = 1
  OBVIOUS
<1> DEFINE Put(g) == Outcome("ok", memset(g.heap, g.buf.data, b.size, v, one),
                             [g.buf EXCEPT !.size = n], ~ Inside(g.heap, g.buf.data, b.size, one))
<1>2. PICK g \in IF n = Nullopt THEN {Outcome("overflow", heap, b, FALSE)}
                 ELSE grow_to_at_least(heap, b, n) :
        Ends(c, x, IF g.code = "ok" THEN Put(g) ELSE g)
  BY <1>1 DEF AppendByte
<1>3. PICK o : o = IF g.code = "ok" THEN Put(g) ELSE g
  OBVIOUS
<1>4. x \in alive /\ Ends(c, x, o)
  BY <1>2, <1>3 DEF AppendByte
<1>5. /\ GoodHeap(heap) /\ Sound(heap, b) /\ b.size \in Nat /\ b.size \in Size
      /\ Held[x] \in Seq(Cell) /\ Len(Held[x]) = b.size
  BY <1>1, HeaderFacts
<1>6. n = IF b.size + one \in Size THEN b.size + one ELSE Nullopt
  <2>1. one \in Size
    BY <1>1, SizeAssumption
  <2>2. n = checked_add(b.size, one)
    BY <1>1
  <2> QED BY <1>5, <2>1, <2>2, CheckedAddExact
<1>7. PICK w : w = [i \in 1 .. one |-> v]
  OBVIOUS
<1>8. Append(Held[x], v) = Held[x] \o w
  <2>1. w = <<v>>
    BY <1>1, <1>7
  <2>2. v \in Cell
    BY DEF Cell
  <2> QED BY <1>5, <2>1, <2>2, AppendIsConcat
<1>9. CASE n = Nullopt
  <2>1. g = Outcome("overflow", heap, b, FALSE)
    BY <1>2, <1>9
  <2>2. o = Outcome("overflow", heap, b, FALSE)
    BY <1>3, <2>1 DEF Outcome
  <2>3. "overflow" \in codes
    <3>1. b.size + 1 > SIZE_MAX
      BY <1>1, <1>5, <1>6, <1>9, SizeAssumption
    <3> QED BY <1>1, <3>1 DEF Abs!Room
  <2>4. Leaves(b, Held[x] \o w, codes, o) /\ Steady(c, b, o)
    BY <1>5, <2>2, <2>3, RefusalLeaves
  <2> QED BY <1>1, <1>4, <1>5, <1>8, <2>4 DEF Acts
<1>10. CASE n # Nullopt
  <2>1. n = b.size + one /\ n \in Size /\ n \in Nat /\ n > b.size /\ one = n - b.size
    BY <1>1, <1>5, <1>6, <1>10, SizeAssumption
  <2>2. g \in grow_to_at_least(heap, b, n)
    BY <1>2, <1>10
  <2>3. Grown(heap, b, n, g)
    BY <1>5, <2>1, <2>2, GrowGrown
  <2>4. /\ g.code # "ok" => o = g
        /\ g.code = "ok" => o = Outcome("ok", memset(g.heap, g.buf.data, b.size, v, one), [g.buf EXCEPT !.size = n],
                                        ~ Inside(g.heap, g.buf.data, b.size, one))
    BY <1>3
  <2>5. codes = Abs!Room(n)
    BY <1>1, <2>1
  <2>6. Leaves(b, Held[x] \o w, codes, o) /\ Steady(c, b, o)
    <3>1. n \in Nat /\ n > b.size /\ one = n - b.size /\ b = obj[x]
      BY <1>1, <2>1
    <3> QED BY <1>7, <2>3, <2>4, <2>5, <3>1, FillLeaves, ZenonT(30)
  <2> QED BY <1>1, <1>4, <1>5, <1>8, <2>6 DEF Acts
<1> QED BY <1>9, <1>10

\* resize: cut down to n bytes, or filled up with v to n bytes if there is
\* room for them.
LEMMA ResizeActs ==
  ASSUME NEW K, Inv(K), NEW x \in Obj, x \in K, NEW n \in Size, NEW v \in Byte, Resize(x, n, v)
  PROVE  Acts(<<"resize", x, n, v>>, x,
              Abs!Part(Held[x], 0, Abs!Smaller(n, Len(Held[x]))) \o Abs!Repeat(v, n - Len(Held[x])),
              IF n <= Len(Held[x]) THEN {"ok"} ELSE Abs!Room(n))
<1>1. PICK b, c, codes, q, u, k :
        /\ b = obj[x] /\ c = <<"resize", x, n, v>> /\ u = Held[x] /\ k = n - Len(u)
        /\ codes = (IF n <= Len(u) THEN {"ok"} ELSE Abs!Room(n))
        /\ q = Abs!Part(u, 0, Abs!Smaller(n, Len(u))) \o Abs!Repeat(v, k)
  OBVIOUS
<1> DEFINE Sized(g) ==
             Outcome("ok",
                     IF n > b.size THEN memset(g.heap, g.buf.data, b.size, v, n - b.size) ELSE g.heap,
                     [g.buf EXCEPT !.size = n],
                     n > b.size /\ ~ Inside(g.heap, g.buf.data, b.size, n - b.size))
<1>2. PICK g \in IF n > MAX_ALLOC_BYTES THEN {Outcome("capacity_exceeded", heap, b, FALSE)}
                 ELSE grow_to_at_least(heap, b, n) :
        Ends(c, x, IF g.code = "ok" THEN Sized(g) ELSE g)
  BY <1>1 DEF Resize
<1>3. PICK o : o = IF g.code = "ok" THEN Sized(g) ELSE g
  OBVIOUS
<1>4. x \in alive /\ Ends(c, x, o)
  BY <1>2, <1>3 DEF Resize
<1>5. /\ GoodHeap(heap) /\ Sound(heap, b) /\ b.size \in Nat /\ b.cap \in Nat /\ b.size <= b.cap
      /\ b.cap <= MAX_ALLOC_BYTES
      /\ u \in Seq(Cell) /\ Len(u) = b.size
  BY <1>1, HeaderFacts
<1>6. n \in Nat /\ MAX_ALLOC_BYTES \in Nat /\ SIZE_MAX \in Nat /\ n <= SIZE_MAX /\ v \in Cell
  BY SizeAssumption DEF Cell
<1>7. CASE n <= b.size
  <2>1. g = Outcome("ok", heap, b, FALSE)
    <3>1. ~(n > MAX_ALLOC_BYTES) /\ n <= b.cap
      BY <1>5, <1>6, <1>7
    <3> QED BY <1>2, <3>1 DEF grow_to_at_least
  <2>2. o = Ok(heap, [b EXCEPT !.size = n])
    <3>1. g.code = "ok" /\ g.heap = heap /\ g.buf = b /\ ~(n > b.size)
      BY <1>5, <1>6, <1>7, <2>1 DEF Outcome
    <3> QED BY <1>3, <3>1 DEF Ok
  <2>3. "ok" \in codes
    BY <1>1, <1>5, <1>7
  <2>4. PICK z : z = [i \in 1 .. n |-> u[i]]
    OBVIOUS
  <2>5. Leaves(b, [i \in 1 .. n |-> Held[x][i]], codes, o) /\ Steady(c, b, o)
    BY <1>1, <1>6, <1>7, <2>2, <2>3, CutLeaves
  <2>6. z \in Seq(Cell)
    <3>1. z \in [1 .. n -> Cell]
      BY <1>5, <1>6, <1>7, <2>4
    <3> QED BY <1>6, <3>1, FunSeq
  <2>7. Abs!Part(u, 0, Abs!Smaller(n, Len(u))) = z
    <3>1. Abs!Smaller(n, Len(u)) = n
      BY <1>5, <1>6, <1>7 DEF Abs!Smaller
    <3>2. \A i \in 1 .. n : 0 + i = i
      BY <1>6
    <3> QED BY <2>4, <3>1, <3>2 DEF Abs!Part
  <2>8. Abs!Repeat(v, k) = <<>>
    <3>1. k \in Int /\ k <= 0
      BY <1>1, <1>5, <1>6, <1>7
    <3>2. 1 .. k = {}
      BY <3>1
    <3> QED BY <3>2 DEF Abs!Repeat
  <2>9. q = z
    BY <1>1, <2>6, <2>7, <2>8, ConcatEmptySeq
  <2> QED BY <1>1, <1>4, <2>4, <2>5, <2>9 DEF Acts
<1>8. CASE n > b.size
  <2>1. codes = Abs!Room(n)
    BY <1>1, <1>5, <1>6, <1>8
  <2>2. PICK w : w = [i \in 1 .. k |-> v]
    OBVIOUS
  <2>3. q = Held[x] \o w
    <3>1. Abs!Smaller(n, Len(u)) = b.size
      BY <1>5, <1>6, <1>8 DEF Abs!Smaller
    <3>2. PICK z : z = Abs!Part(u, 0, b.size)
      OBVIOUS
    <3>3. z = [i \in 1 .. b.size |-> u[i]]
      <4>1. \A i \in 1 .. b.size : 0 + i = i
        BY <1>5
      <4> QED BY <3>2, <4>1 DEF Abs!Part
    <3>4. z = u
      BY <1>5, <3>3
    <3>5. Abs!Repeat(v, k) = w
      BY <2>2 DEF Abs!Repeat
    <3> QED BY <1>1, <3>1, <3>2, <3>4, <3>5
  <2>4. k = n - b.size
    BY <1>1, <1>5
  <2>5. CASE n > MAX_ALLOC_BYTES
    <3>1. o = Outcome("capacity_exceeded", heap, b, FALSE)
      <4>1. g = Outcome("capacity_exceeded", heap, b, FALSE)
        BY <1>2, <2>5
      <4>2. g.code # "ok"
        BY <4>1 DEF Outcome
      <4> QED BY <1>3, <4>1, <4>2
    <3>2. "capacity_exceeded" \in codes
      BY <1>6, <2>1, <2>5 DEF Abs!Room
    <3>3. Leaves(b, q, codes, o) /\ Steady(c, b, o)
      BY <1>5, <3>1, <3>2, RefusalLeaves
    <3> QED BY <1>1, <1>4, <3>3 DEF Acts
  <2>6. CASE ~(n > MAX_ALLOC_BYTES)
    <3>1. Grown(heap, b, n, g)
      BY <1>2, <1>5, <2>6, GrowGrown
    <3>2. /\ g.code # "ok" => o = g
          /\ g.code = "ok" => o = Outcome("ok", memset(g.heap, g.buf.data, b.size, v, k), [g.buf EXCEPT !.size = n],
                                          ~ Inside(g.heap, g.buf.data, b.size, k))
      BY <1>3, <1>8, <2>4
    <3>3. b = obj[x]
      BY <1>1
    <3>4. Leaves(b, Held[x] \o w, codes, o) /\ Steady(c, b, o)
      BY <1>6, <1>8, <2>1, <2>2, <2>4, <3>1, <3>2, <3>3, FillLeaves, ZenonT(30)
    <3> QED BY <1>1, <1>4, <2>3, <3>4 DEF Acts
  <2> QED BY <2>5, <2>6
<1> QED BY <1>5, <1>6, <1>7, <1>8

\* append(bytes): the bytes of the source follow those of the buffer, also when
\* the source lies in the buffer, if there is room for them.
LEMMA AppendBytesActs ==
  ASSUME NEW K, Inv(K), NEW x \in Obj, x \in K, NEW s \in Source, AppendBytes(x, s)
  PROVE  Acts(<<"append", x, s>>, x, Held[x] \o Abs!Value(s), Abs!Take(s, Len(Held[x]) + s.len))
<1>1. PICK b, c, codes, n, m, p, off, w :
        /\ b = obj[x] /\ c = <<"append", x, s>> /\ codes = Abs!Take(s, b.size + s.len)
        /\ n = s.len /\ m = checked_add(b.size, n) /\ p = target(s) /\ off = s.off /\ w = Abs!Value(s)
  OBVIOUS
<1> DEFINE F(g) == IF g.code = "ok" THEN Outcome("ok", g.heap, [g.buf EXCEPT !.size = m], g.bad) ELSE g
<1>2. PICK o \in IF n = 0 THEN {Outcome("ok", heap, b, FALSE)}
                 ELSE IF p = Null THEN {Outcome("null_pointer", heap, b, FALSE)}
                 ELSE IF m = Nullopt THEN {Outcome("overflow", heap, b, FALSE)}
                 ELSE {F(g) : g \in copy_in_possibly_aliased(heap, b, b.size, p, off, n)} :
        Ends(c, x, o)
  BY <1>1 DEF AppendBytes
<1>3. x \in alive /\ MayPass(s, 0, b.size + n > MAX_ALLOC_BYTES)
  BY <1>1 DEF AppendBytes
<1>4. /\ GoodHeap(heap) /\ Sound(heap, b) /\ b.size \in Nat /\ b.size \in Size
      /\ Held[x] \in Seq(Cell) /\ Len(Held[x]) = b.size /\ Bytes(heap, b) = Held[x]
      /\ b.data # Null => b.data \in Block \ {Caller}
  BY <1>1, HeaderFacts
<1>5. off \in Nat /\ n \in Size /\ n \in Nat /\ SIZE_MAX \in Nat /\ MAX_ALLOC_BYTES \in Nat
      /\ MAX_ALLOC_BYTES <= SIZE_MAX
  BY <1>1, SizeAssumption DEF Source
<1>6. m = IF b.size + n \in Size THEN b.size + n ELSE Nullopt
  BY <1>1, <1>4, <1>5, CheckedAddExact
<1>S. b.size + n \in Nat /\ (b.size + n \in Size <=> b.size + n <= SIZE_MAX)
  BY <1>4, <1>5
<1>7. n # 0 => (p = Null <=> s.of = Null) /\ p \in Block \cup {Null}
  BY <1>1, <1>3, SourcePointer
<1>8. CASE n = 0
  <2>1. w = <<>> /\ codes = {"ok"} /\ o = Ok(heap, b)
    BY <1>1, <1>2, <1>8 DEF Abs!Value, Abs!Take, Ok
  <2>2. Held[x] \o w = Bytes(heap, b)
    BY <1>4, <2>1, ConcatEmptySeq
  <2>3. Leaves(b, Held[x] \o w, codes, o) /\ Steady(c, b, o)
    BY <1>4, <2>1, <2>2, NothingLeaves
  <2> QED BY <1>1, <1>2, <1>3, <1>4, <2>3 DEF Acts
<1>9. CASE n # 0 /\ (p = Null \/ m = Nullopt)
  <2>1. PICK code : code = IF p = Null THEN "null_pointer" ELSE "overflow"
    OBVIOUS
  <2>2. o = Outcome(code, heap, b, FALSE) /\ code # "ok"
    BY <1>2, <1>9, <2>1
  <2>3. code \in codes
    <3>1. m = Nullopt => b.size + n > SIZE_MAX
      <4>1. b.size + n \in Size => m = b.size + n
        BY <1>6
      <4>2. b.size + n # Nullopt
        BY <1>S
      <4> QED BY <1>5, <1>S, <4>1, <4>2
    <3> QED BY <1>1, <1>7, <1>9, <2>1, <3>1 DEF Abs!Take, Abs!Room
  <2>4. Leaves(b, Held[x] \o w, codes, o) /\ Steady(c, b, o)
    BY <1>4, <2>2, <2>3, RefusalLeaves
  <2> QED BY <1>1, <1>2, <1>3, <1>4, <2>4 DEF Acts
<1>10. CASE n # 0 /\ p # Null /\ m # Nullopt
  <2>1. m = b.size + n /\ m \in Size /\ m \in Nat /\ n \in Size \ {0} /\ p \in Block /\ s.of # Null
    <3>1. m = b.size + n /\ m \in Size
      BY <1>6, <1>10
    <3>2. p \in Block /\ s.of # Null
      BY <1>7, <1>10
    <3> QED BY <1>5, <1>10, <1>S, <3>1, <3>2
  <2>2. codes = Abs!Room(m)
    BY <1>1, <1>10, <2>1 DEF Abs!Take
  <2>3. PICK g \in copy_in_possibly_aliased(heap, b, b.size, p, off, n) : o = F(g)
    BY <1>2, <1>10
  <2>4. m <= MAX_ALLOC_BYTES => Readable(s, 0)
    BY <1>3, <1>5, <2>1 DEF MayPass
  <2>5. m <= MAX_ALLOC_BYTES => Written(heap, p, off, n)
    BY <1>1, <1>10, <2>4, ReadableWritten
  <2>6. p = b.data => off + n <= b.size
    <3> SUFFICES ASSUME p = b.data PROVE Readable(s, 0)
      BY <1>1, <1>10, ReadableWritten
    <3>1. s.of # Caller
      BY <1>1, <1>4, <1>10, ContainerAssumption, MemoryAssumption DEF target
    <3> QED BY <1>3, <2>1, <3>1 DEF MayPass
  <2>7. /\ g.code \in Abs!Room(m)
        /\ g.code = "ok" =>
              /\ g.bad = FALSE
              /\ Extended(heap, b, m, Ok(g.heap, [g.buf EXCEPT !.size = m]))
              /\ \A a, i, e \in Nat : i < n /\ a = b.size + i /\ e = off + i =>
                   Load(g.heap, g.buf.data, a) = Load(heap, p, e)
        /\ g.code # "ok" => Local(heap, b, g) /\ g.heap = heap /\ g.buf = b
    <3>1. GoodHeap(heap) /\ Sound(heap, b)
      BY <1>4
    <3>2. p \in Block /\ off \in Nat /\ n \in Size \ {0} /\ m \in Size /\ m = b.size + n
      BY <1>5, <2>1
    <3>3. CopiedIn(heap, b, p, off, n, m, g)
      BY <2>3, <2>5, <2>6, <3>1, <3>2, CopyInExtended
    <3> QED BY <3>3 DEF CopiedIn
  <2>8. CASE g.code # "ok"
    <3>1. o = g
      BY <2>3, <2>8
    <3>2. Leaves(b, Held[x] \o w, codes, o) /\ Steady(c, b, o)
      BY <2>2, <2>7, <2>8, <3>1 DEF Leaves, Steady
    <3> QED BY <1>1, <1>2, <1>3, <1>4, <3>2 DEF Acts
  <2>9. CASE g.code = "ok"
    <3>1. PICK h, k : h = g.heap /\ k = [g.buf EXCEPT !.size = m]
      OBVIOUS
    <3>2. o = Ok(h, k)
      BY <2>3, <2>7, <2>9, <3>1 DEF Ok
    <3>3. Extended(heap, b, m, o) /\ "ok" \in codes
      BY <2>2, <2>7, <2>9, <3>1, <3>2
    <3>4. o.heap = h /\ o.buf = k
      BY <3>2 DEF Ok, Outcome
    <3>5. m <= MAX_ALLOC_BYTES
      BY <1>5, <2>1, <2>2, <3>3 DEF Abs!Room
    <3>6. /\ w \in Seq(Cell) /\ Len(w) = n
          /\ \A i, e \in Nat : i < n /\ e = off + i => w[i + 1] = Load(heap, p, e)
      BY <1>1, <1>10, <2>4, <3>5, ValueCells
    <3>7. k.data = g.buf.data
      <4>1. k \in Header
        BY <3>3, <3>4 DEF Extended, Local, Sound, SoundAs
      <4>2. DOMAIN k = DOMAIN g.buf /\ k.data = k["data"]
        BY <3>1
      <4>3. "data" \in DOMAIN k
        BY <4>1 DEF Header
      <4> QED BY <3>1, <4>2, <4>3
    <3>8. ASSUME NEW a \in Nat, NEW i \in Nat, i < Len(w), a = b.size + i
          PROVE  Load(o.heap, o.buf.data, a) = w[i + 1]
      <4>1. PICK e \in Nat : e = off + i
        BY <1>5
      <4>2. Load(h, g.buf.data, a) = Load(heap, p, e)
        BY <2>7, <2>9, <3>1, <3>6, <3>8, <4>1
      <4>3. w[i + 1] = Load(heap, p, e)
        BY <3>6, <3>8, <4>1
      <4> QED BY <3>4, <3>7, <4>2, <4>3
    <3>9. m = b.size + Len(w) /\ w \in Seq(Cell) /\ b = obj[x]
      BY <1>1, <2>1, <3>6
    <3>10. \A a, i \in Nat : i < Len(w) /\ a = b.size + i => Load(o.heap, o.buf.data, a) = w[i + 1]
      BY <3>8
    <3>11. Leaves(b, Held[x] \o w, codes, o) /\ Steady(c, b, o)
      BY <2>1, <3>3, <3>9, <3>10, ExtendedLeaves, ZenonT(30)
    <3> QED BY <1>1, <1>2, <1>3, <1>4, <3>11 DEF Acts
  <2> QED BY <2>8, <2>9
<1> QED BY <1>8, <1>9, <1>10

\* at: the byte at that place, if there is one.
LEMMA AtHands ==
  ASSUME NEW K, Inv(K), NEW x \in Obj, x \in K, NEW i \in Size, At(x, i)
  PROVE  x \in alive /\ Hands(<<"at", x, i>>, <<Held[x][i + 1]>>, Abs!Index(i < Len(Held[x])))
<1>1. PICK b, c, v, codes : b = obj[x] /\ c = <<"at", x, i>> /\ v = <<Held[x][i + 1]>>
                            /\ codes = Abs!Index(i < Len(Held[x]))
  OBVIOUS
<1>2. /\ b.size \in Nat /\ b.cap \in Nat /\ b.size <= b.cap /\ Len(Held[x]) = b.size
      /\ b.data = Null => b.size = 0
      /\ b.data # Null => heap[b.data].len = b.cap
      /\ \A j \in 1 .. b.size : Held[x][j] = Load(heap, b.data, j - 1)
  BY <1>1, HeaderFacts
<1>3. i \in Nat
  BY SizeAssumption
<1>4. \/ i >= b.size /\ Looks(c, "out_of_range", <<>>, FALSE)
      \/ i < b.size /\ Looks(c, "ok", <<Load(heap, b.data, i)>>, ~ Inside(heap, b.data, i, 1))
  BY <1>1 DEF At
<1>5. CASE i >= b.size /\ Looks(c, "out_of_range", <<>>, FALSE)
  <2>1. "out_of_range" \in codes
    BY <1>1, <1>2, <1>3, <1>5 DEF Abs!Index
  <2>2. Hands(c, v, codes)
    BY <1>5, <2>1 DEF Hands
  <2> QED BY <1>1, <2>2 DEF At
<1>6. CASE i < b.size /\ Looks(c, "ok", <<Load(heap, b.data, i)>>, ~ Inside(heap, b.data, i, 1))
  <2>1. "ok" \in codes
    BY <1>1, <1>2, <1>3, <1>6 DEF Abs!Index
  <2>2. Inside(heap, b.data, i, 1)
    BY <1>2, <1>3, <1>6 DEF Inside
  <2>3. (~ Inside(heap, b.data, i, 1)) = FALSE
    BY <2>2
  <2>4. v = <<Load(heap, b.data, i)>>
    <3>1. PICK j \in 1 .. b.size : j = i + 1 /\ j - 1 = i
      BY <1>2, <1>3, <1>6
    <3> QED BY <1>1, <1>2, <3>1
  <2>5. Looks(c, "ok", v, FALSE)
    BY <1>6, <2>3, <2>4
  <2>6. Hands(c, v, codes)
    BY <2>1, <2>5 DEF Hands
  <2> QED BY <1>1, <2>6 DEF At
<1> QED BY <1>4, <1>5, <1>6

\* read: as many of the bytes from the offset as there are and fit.
LEMMA ReadHands ==
  ASSUME NEW K, Inv(K), NEW x \in Obj, x \in K, NEW offset \in Size, NEW out \in BOOLEAN, NEW len \in Size,
         Read(x, offset, out, len)
  PROVE  x \in alive /\ Hands(<<"read", x, offset, out, len>>,
               Abs!Part(Held[x], offset, Abs!Smaller(len, Len(Held[x]) - offset)),
               IF offset > Len(Held[x]) THEN {"out_of_range"}
               ELSE IF len > 0 /\ ~out THEN {"null_pointer"} ELSE {"ok"})
<1>1. PICK b, c, m, v, codes, z :
        /\ b = obj[x] /\ c = <<"read", x, offset, out, len>>
        /\ m = (IF len < b.size - offset THEN len ELSE b.size - offset)
        /\ v = [i \in 1 .. m |-> Held[x][offset + i]]
        /\ z = [i \in 1 .. m |-> Load(heap, b.data, offset + i - 1)]
        /\ codes = (IF offset > Len(Held[x]) THEN {"out_of_range"}
                    ELSE IF len > 0 /\ ~out THEN {"null_pointer"} ELSE {"ok"})
  OBVIOUS
<1>2. /\ b.size \in Nat /\ b.cap \in Nat /\ b.size <= b.cap /\ Len(Held[x]) = b.size
      /\ b.data = Null => b.size = 0
      /\ b.data # Null => heap[b.data].len = b.cap
      /\ \A j \in 1 .. b.size : Held[x][j] = Load(heap, b.data, j - 1)
  BY <1>1, HeaderFacts
<1>3. offset \in Nat /\ len \in Nat
  BY SizeAssumption
<1>4. x \in alive
  BY DEF Read
<1>5. Abs!Part(Held[x], offset, Abs!Smaller(len, Len(Held[x]) - offset)) = v
  BY <1>1, <1>2 DEF Abs!Part, Abs!Smaller
<1>6. \/ offset > b.size /\ Looks(c, "out_of_range", <<>>, FALSE)
      \/ offset <= b.size /\ len = 0 /\ Looks(c, "ok", <<>>, FALSE)
      \/ offset <= b.size /\ len > 0 /\ ~out /\ Looks(c, "null_pointer", <<>>, FALSE)
      \/ /\ offset <= b.size /\ len > 0 /\ out
         /\ Looks(c, "ok", z, m > 0 /\ ~ Inside(heap, b.data, offset, m))
  BY <1>1 DEF Read
<1>7. CASE offset > b.size /\ Looks(c, "out_of_range", <<>>, FALSE)
  <2>1. "out_of_range" \in codes
    BY <1>1, <1>2, <1>7
  <2>2. Hands(c, v, codes)
    BY <1>7, <2>1 DEF Hands
  <2> QED BY <1>1, <1>4, <1>5, <2>2
<1>8. CASE offset <= b.size /\ len = 0 /\ Looks(c, "ok", <<>>, FALSE)
  <2>1. "ok" \in codes
    BY <1>1, <1>2, <1>3, <1>8
  <2>2. m = 0
    BY <1>1, <1>2, <1>3, <1>8
  <2>3. v = <<>>
    BY <1>1, <2>2
  <2>4. Hands(c, v, codes)
    BY <1>8, <2>1, <2>3 DEF Hands
  <2> QED BY <1>1, <1>4, <1>5, <2>4
<1>9. CASE offset <= b.size /\ len > 0 /\ ~out /\ Looks(c, "null_pointer", <<>>, FALSE)
  <2>1. "null_pointer" \in codes
    <3>1. ~(offset > b.size)
      BY <1>2, <1>3, <1>9
    <3> QED BY <1>1, <1>2, <1>9, <3>1
  <2>2. Hands(c, v, codes)
    BY <1>9, <2>1 DEF Hands
  <2> QED BY <1>1, <1>4, <1>5, <2>2
<1>10. CASE offset <= b.size /\ len > 0 /\ out /\ Looks(c, "ok", z, m > 0 /\ ~ Inside(heap, b.data, offset, m))
  <2>1. "ok" \in codes
    <3>1. ~(offset > b.size)
      BY <1>2, <1>3, <1>10
    <3> QED BY <1>1, <1>2, <1>10, <3>1
  <2>2. m \in Nat /\ offset + m <= b.size
    <3>1. m = IF len < b.size - offset THEN len ELSE b.size - offset
      BY <1>1
    <3>2. offset <= b.size
      BY <1>10
    <3>3. CASE len < b.size - offset
      BY <1>2, <1>3, <3>1, <3>2, <3>3
    <3>4. CASE ~(len < b.size - offset)
      BY <1>2, <1>3, <3>1, <3>2, <3>4
    <3> QED BY <3>3, <3>4
  <2>3. m > 0 => Inside(heap, b.data, offset, m)
    BY <1>2, <1>3, <2>2 DEF Inside
  <2>4. (m > 0 /\ ~ Inside(heap, b.data, offset, m)) = FALSE
    BY <2>3
  <2>5. ASSUME NEW i \in 1 .. m PROVE Held[x][offset + i] = Load(heap, b.data, offset + i - 1)
    <3>1. PICK j \in 1 .. b.size : j = offset + i
      BY <1>2, <1>3, <2>2
    <3> QED BY <1>2, <3>1
  <2>6. v = z
    BY <1>1, <2>5
  <2>7. Looks(c, "ok", v, FALSE)
    BY <1>10, <2>4, <2>6
  <2>8. Hands(c, v, codes)
    BY <2>1, <2>7 DEF Hands
  <2> QED BY <1>1, <1>4, <1>5, <2>8
<1> QED BY <1>6, <1>7, <1>8, <1>9, <1>10

\* with_capacity: an empty buffer, if there is room.
LEMMA WithCapacityMakes ==
  ASSUME NEW K, Inv(K), NEW x \in Obj, x \in K, NEW n \in Size, WithCapacity(x, n)
  PROVE  Makes(<<"with_capacity", x, n>>, x, <<>>, IF n = 0 THEN {"ok"} ELSE Abs!Room(n))
<1>1. PICK c, codes : c = <<"with_capacity", x, n>> /\ codes = IF n = 0 THEN {"ok"} ELSE Abs!Room(n)
  OBVIOUS
<1>2. PICK o \in with_capacity(heap, n) : Creates(c, x, o)
  BY <1>1 DEF WithCapacity
<1>3. GoodHeap(heap)
  BY DEF Inv
<1>4. /\ Local(heap, Empty, o) /\ (o.code \in IF n = 0 THEN {"ok"} ELSE Abs!Room(n))
      /\ o.code = "ok" => o.buf.size = 0
      /\ o.code # "ok" => o.buf = Empty /\ o.heap = heap
  BY <1>2, <1>3, WithCapacityMade
<1>5. PICK h, k : h = o.heap /\ k = o.buf
  OBVIOUS
<1>6. o.code = "ok" => Bytes(h, k) = <<>>
  BY <1>4, <1>5, EmptyBytes
<1>7. o.code \in codes
  BY <1>1, <1>4
<1>8. Leaves(Empty, <<>>, codes, o)
  BY <1>4, <1>5, <1>6, <1>7 DEF Leaves
<1>9. x \notin alive
  BY <1>2 DEF Creates
<1> QED BY <1>1, <1>2, <1>8, <1>9 DEF Makes

\* A buffer made from n bytes of block p that are the bytes of w.
LEMMA FromBytesLeaves ==
  ASSUME GoodHeap(heap), NEW p \in Block \cup {Null}, NEW off \in Nat, NEW n \in Size,
         n # 0 /\ p # Null /\ n <= MAX_ALLOC_BYTES => Written(heap, p, off, n),
         NEW o \in from_bytes(heap, p, off, n), NEW w,
         n <= MAX_ALLOC_BYTES /\ (n = 0 \/ p # Null) =>
            /\ w \in Seq(Cell) /\ Len(w) = n
            /\ \A i, e \in Nat : i < n /\ e = off + i => w[i + 1] = Load(heap, p, e),
         NEW codes,
         codes = IF n = 0 THEN {"ok"} ELSE IF p = Null THEN {"null_pointer"} ELSE Abs!Room(n)
  PROVE  Leaves(Empty, w, codes, o)
<1>1. /\ Local(heap, Empty, o)
      /\ (o.code \in IF n = 0 THEN {"ok"} ELSE IF p = Null THEN {"null_pointer"} ELSE Abs!Room(n))
      /\ o.code = "ok" => /\ o.buf.size = n /\ n <= MAX_ALLOC_BYTES
                          /\ \A a, e \in Nat : a < n /\ e = off + a =>
                               Load(o.heap, o.buf.data, a) = Load(heap, p, e)
      /\ o.code # "ok" => o.buf = Empty /\ o.heap = heap
  BY FromBytesMade
<1>2. o.code \in codes
  BY <1>1
<1>3. n \in Nat
  BY SizeAssumption
<1>4. ASSUME o.code = "ok" PROVE Bytes(o.heap, o.buf) = w
  <2>1. n = 0 \/ p # Null
    BY <1>1, <1>4
  <2>2. /\ w \in Seq(Cell) /\ Len(w) = n
        /\ \A i, e \in Nat : i < n /\ e = off + i => w[i + 1] = Load(heap, p, e)
    BY <1>1, <1>4, <2>1
  <2>3. PICK h, k : h = o.heap /\ k = o.buf
    OBVIOUS
  <2>4. k.size = n
    BY <1>1, <1>4, <2>3
  <2>5. ASSUME NEW j \in 1 .. k.size PROVE Load(h, k.data, j - 1) = w[j]
    <3>1. PICK a \in Nat, e \in Nat : a = j - 1 /\ a < n /\ e = off + a /\ a + 1 = j
      <4>1. j - 1 \in Nat /\ off + (j - 1) \in Nat /\ j - 1 < n /\ (j - 1) + 1 = j
        BY <1>3, <2>4
      <4> QED BY <4>1
    <3>2. Load(h, k.data, a) = Load(heap, p, e)
      BY <1>1, <1>4, <2>3, <3>1
    <3>3. w[a + 1] = Load(heap, p, e)
      BY <2>2, <3>1
    <3> QED BY <3>1, <3>2, <3>3
  <2>6. k.size \in Nat /\ Len(w) = k.size
    BY <1>3, <2>2, <2>4
  <2>7. Bytes(h, k) = w
    BY <2>2, <2>5, <2>6, BytesAre
  <2> QED BY <2>3, <2>7
<1> QED BY <1>1, <1>2, <1>4 DEF Leaves

\* from_bytes: a buffer of the source's bytes, if there is room.
LEMMA FromBytesMakes ==
  ASSUME NEW K, Inv(K), NEW x \in Obj, x \in K, NEW s \in Source, FromBytes(x, s)
  PROVE  Makes(<<"from_bytes", x, s>>, x, Abs!Value(s), Abs!Take(s, s.len))
<1>1. PICK c, codes, p, off, n, w :
        /\ c = <<"from_bytes", x, s>> /\ codes = Abs!Take(s, s.len)
        /\ p = target(s) /\ off = s.off /\ n = s.len /\ w = Abs!Value(s)
  OBVIOUS
<1>2. PICK o \in from_bytes(heap, p, off, n) : Creates(c, x, o)
  BY <1>1 DEF FromBytes
<1>3. GoodHeap(heap) /\ MayPass(s, 0, n > MAX_ALLOC_BYTES)
  BY <1>1 DEF Inv, FromBytes
<1>4. off \in Nat /\ n \in Size /\ n \in Nat /\ MAX_ALLOC_BYTES \in Nat
  BY <1>1, SizeAssumption DEF Source
<1>5. p \in Block \cup {Null}
  BY <1>1, MemoryAssumption DEF target, Source, Inv, Header
<1>6. n # 0 => (p = Null <=> s.of = Null)
  BY <1>1, <1>3, SourcePointer
<1>7. n # 0 /\ p # Null /\ n <= MAX_ALLOC_BYTES => Readable(s, 0)
  <2>1. n <= MAX_ALLOC_BYTES => ~(n > MAX_ALLOC_BYTES)
    BY <1>4
  <2> QED BY <1>3, <1>6, <2>1 DEF MayPass
<1>8. n # 0 /\ p # Null /\ n <= MAX_ALLOC_BYTES => Written(heap, p, off, n)
  BY <1>1, <1>7, ReadableWritten
<1>9. n <= MAX_ALLOC_BYTES /\ (n = 0 \/ p # Null) =>
            /\ w \in Seq(Cell) /\ Len(w) = n
            /\ \A i, e \in Nat : i < n /\ e = off + i => w[i + 1] = Load(heap, p, e)
  <2>1. CASE n = 0
    <3>1. w = <<>>
      BY <1>1, <2>1 DEF Abs!Value
    <3>2. \A i \in Nat : ~(i < n)
      BY <2>1
    <3> QED BY <2>1, <3>1, <3>2
  <2>2. CASE n # 0
    BY <1>1, <1>7, <2>2, ValueCells
  <2> QED BY <2>1, <2>2
<1>10. codes = IF n = 0 THEN {"ok"} ELSE IF p = Null THEN {"null_pointer"} ELSE Abs!Room(n)
  BY <1>1, <1>6 DEF Abs!Take
<1>11. Leaves(Empty, w, codes, o)
  BY <1>2, <1>3, <1>4, <1>5, <1>8, <1>9, <1>10, FromBytesLeaves, ZenonT(30)
<1>12. x \notin alive
  BY <1>2 DEF Creates
<1> QED BY <1>1, <1>2, <1>11, <1>12 DEF Makes

\* clone: a buffer of the same bytes, if there is room.
LEMMA CloneMakes ==
  ASSUME NEW K, Inv(K), NEW x \in Obj, x \in K, NEW y \in Obj, y \in K, Clone(x, y)
  PROVE  Makes(<<"clone", x, y>>, x, Held[y],
               IF Held[y] = <<>> THEN {"ok"} ELSE Abs!Room(Len(Held[y])))
<1>1. PICK b, c, codes, p, off, n, w :
        /\ b = obj[y] /\ c = <<"clone", x, y>> /\ w = Held[y] /\ p = b.data /\ off = 0 /\ n = b.size
        /\ codes = IF w = <<>> THEN {"ok"} ELSE Abs!Room(Len(w))
  OBVIOUS
<1>2. PICK o \in from_bytes(heap, p, off, n) : Creates(c, x, o)
  BY <1>1 DEF Clone
<1>3. /\ GoodHeap(heap) /\ Sound(heap, b) /\ b \in Header
      /\ p \in Block \cup {Null} /\ n \in Nat /\ b.cap \in Nat /\ n <= b.cap
      /\ b.cap <= MAX_ALLOC_BYTES /\ n \in Size
      /\ p = Null => n = 0
      /\ p # Null => heap[p].len = b.cap
      /\ w \in Seq(Cell) /\ Len(w) = n
      /\ \A i \in 1 .. n : w[i] = Load(heap, p, i - 1)
  BY <1>1, HeaderFacts
<1>4. off \in Nat
  BY <1>1
<1>5. n # 0 /\ p # Null /\ n <= MAX_ALLOC_BYTES => Written(heap, p, off, n)
  <2>1. p # Null => \A a \in Addr : a < n => heap[p].cell[a] # Undef
    BY <1>1, <1>3 DEF Sound, SoundAs
  <2>2. off + n = n
    BY <1>1, <1>3
  <2> QED BY <1>1, <1>3, <2>1, <2>2 DEF Written
<1>6. \A i, e \in Nat : i < n /\ e = off + i => w[i + 1] = Load(heap, p, e)
  <2> SUFFICES ASSUME NEW i \in Nat, NEW e \in Nat, i < n, e = off + i
               PROVE  w[i + 1] = Load(heap, p, e)
    OBVIOUS
  <2>1. PICK j \in 1 .. n : j = i + 1 /\ j - 1 = e
    BY <1>1, <1>3
  <2> QED BY <1>3, <2>1
<1>7. codes = IF n = 0 THEN {"ok"} ELSE IF p = Null THEN {"null_pointer"} ELSE Abs!Room(n)
  <2>1. w = <<>> <=> n = 0
    BY <1>3, EmptySeq
  <2> QED BY <1>1, <1>3, <2>1
<1>8. Leaves(Empty, w, codes, o)
  <2>1. GoodHeap(heap) /\ p \in Block \cup {Null} /\ n \in Size
    BY <1>3
  <2>2. n <= MAX_ALLOC_BYTES /\ (n = 0 \/ p # Null) =>
            /\ w \in Seq(Cell) /\ Len(w) = n
            /\ \A i, e \in Nat : i < n /\ e = off + i => w[i + 1] = Load(heap, p, e)
    BY <1>3, <1>6
  <2> QED BY <1>2, <1>4, <1>5, <1>7, <2>1, <2>2, FromBytesLeaves
<1>9. x \notin alive
  BY <1>2 DEF Creates
<1> QED BY <1>1, <1>2, <1>8, <1>9 DEF Makes

\* Construction, destruction and moves do what the abstract lifetime says,
\* and only moves take a block from one buffer to another.
LEMMA LifetimeStep ==
  ASSUME NEW K, Inv(K), NEW x \in Obj, NEW y \in Obj, x \in K, y \in K,
         Construct(x) \/ Destroy(x) \/ MoveConstruct(x, y) \/ MoveAssign(x, y)
  PROVE  Inv(K)' /\ Abs!Lifetime(call') /\ Stable /\ Frame(K)
<1>1. Inv(K)'
  BY LifetimeInv
<1>2. ASSUME Construct(x) PROVE Abs!Lifetime(call') /\ Stable /\ Frame(K)
  <2>1. /\ x \notin alive /\ alive' = alive \cup {x} /\ heap' = heap /\ obj' = obj
        /\ call' = <<"construct", x>> /\ ret' = [code |-> "ok", val |-> <<>>]
    BY <1>2 DEF Construct, Returns
  <2>2. Held' = Held
    BY <2>1, UnchangedHeld
  <2>3. obj[x].size = 0
    BY <2>1 DEF Inv, Empty
  <2>4. Held[x] = <<>>
    <3>1. Held[x] = Bytes(heap, obj[x])
      BY HeldBytes
    <3> QED BY <2>3, <3>1, EmptyBytes
  <2>5. Held' = [Held EXCEPT ![x] = <<>>]
    BY <2>2, <2>4 DEF Held
  <2>6. Abs!Becomes(x, <<>>, {"ok"})
    BY <2>1, <2>5 DEF Abs!Becomes, Held
  <2>7. call'[1] = "construct" /\ call'[2] = x
    BY <2>1
  <2>8. Abs!Lifetime(call')
    BY <2>1, <2>6, <2>7 DEF Abs!Lifetime
  <2> QED BY <2>1, <2>8 DEF Stable, Frame
<1>3. ASSUME Destroy(x) PROVE Abs!Lifetime(call') /\ Stable /\ Frame(K)
  <2>1. PICK c, o : c = <<"destroy", x>> /\ o = Outcome("ok", free(heap, obj[x].data), Empty, FALSE)
    OBVIOUS
  <2>2. x \in alive /\ Answer(c, x, o) /\ alive' = alive \ {x}
    BY <1>3, <2>1 DEF Destroy
  <2>3. Local(heap, obj[x], o)
    BY <2>1, FreeLocal DEF Inv
  <2>4. Held' = [Held EXCEPT ![x] = Bytes(o.heap, o.buf)]
    BY <2>2, <2>3, AnswerHeld
  <2>5. PICK h, k : h = o.heap /\ k = o.buf
    OBVIOUS
  <2>6. k.size = 0
    BY <2>1, <2>5 DEF Outcome, Empty
  <2>7. Held' = [Held EXCEPT ![x] = <<>>]
    BY <2>4, <2>5, <2>6, EmptyBytes
  <2>8. call'[1] = "destroy" /\ call'[2] = x
    BY <2>1, <2>2 DEF Answer, Returns
  <2>9. Abs!Lifetime(call')
    BY <2>2, <2>7, <2>8 DEF Abs!Lifetime, Held
  <2>10. \A z \in alive' : obj'[z] = obj[z]
    BY <2>2 DEF Answer, Inv
  <2>11. Frame(K)
    BY <2>2, <2>3, AnswerFrame DEF Frame
  <2> QED BY <2>9, <2>10, <2>11 DEF Stable
<1>4. ASSUME MoveConstruct(x, y) PROVE Abs!Lifetime(call') /\ Stable /\ Frame(K)
  <2>1. /\ x \notin alive /\ y \in alive /\ x # y /\ heap' = heap /\ alive' = alive \cup {x}
        /\ obj' = [obj EXCEPT ![x] = obj[y], ![y] = Empty]
        /\ call' = <<"move_construct", x, y>> /\ ret' = [code |-> "ok", val |-> <<>>]
    BY <1>4 DEF MoveConstruct, Returns
  <2>2. heap' = free(heap, obj[x].data)
    BY <2>1 DEF Inv, Empty, free
  <2>3. Held' = [Held EXCEPT ![x] = Held[y], ![y] = <<>>]
    BY <2>1, <2>2, MoveHeld
  <2>4. call'[1] = "move_construct" /\ call'[2] = x /\ call'[3] = y /\ ret'.code = "ok"
    BY <2>1
  <2>5. Abs!Takes(x, y)
    BY <2>1, <2>3, <2>4 DEF Abs!Takes, Held
  <2>6. Abs!Lifetime(call')
    BY <2>1, <2>4, <2>5 DEF Abs!Lifetime
  <2>7. Frame(K)
    BY <2>1, <2>2, MoveFrame DEF Frame
  <2> QED BY <2>4, <2>6, <2>7 DEF Stable
<1>5. ASSUME MoveAssign(x, y) PROVE Abs!Lifetime(call') /\ Stable /\ Frame(K)
  <2>1. /\ x \in alive /\ y \in alive /\ alive' = alive
        /\ call' = <<"move_assign", x, y>> /\ ret' = [code |-> "ok", val |-> <<>>]
    BY <1>5 DEF MoveAssign, Looks, Returns
  <2>2. call'[1] = "move_assign" /\ call'[2] = x /\ call'[3] = y /\ ret'.code = "ok"
    BY <2>1
  <2>3. Abs!Takes(x, y) /\ Frame(K)
    <3>1. CASE x = y
      <4>1. heap' = heap /\ obj' = obj
        BY <1>5, <3>1 DEF MoveAssign, Looks
      <4>2. Held' = Held
        BY <4>1, UnchangedHeld
      <4> QED BY <2>1, <2>2, <3>1, <4>1, <4>2 DEF Abs!Takes, Held, Frame
    <3>2. CASE x # y
      <4>1. heap' = free(heap, obj[x].data) /\ obj' = [obj EXCEPT ![x] = obj[y], ![y] = Empty]
        BY <1>5, <3>2 DEF MoveAssign
      <4>2. Held' = [Held EXCEPT ![x] = Held[y], ![y] = <<>>]
        BY <3>2, <4>1, MoveHeld
      <4>3. Frame(K)
        BY <3>2, <4>1, MoveFrame DEF Frame
      <4> QED BY <2>1, <2>2, <3>2, <4>2, <4>3 DEF Abs!Takes, Held
    <3> QED BY <3>1, <3>2
  <2>4. Abs!Lifetime(call')
    BY <2>1, <2>2, <2>3 DEF Abs!Lifetime
  <2> QED BY <2>2, <2>3, <2>4 DEF Stable
<1> QED BY <1>1, <1>2, <1>3, <1>4, <1>5

-----------------------------------------------------------------------------
(***************************************************************************)
(* Every step keeps the invariant, is a step of AbstractBuffer, and moves  *)
(* no block that it may not move.                                          *)
(***************************************************************************)

Step(K) == Inv(K)' /\ Frame(K) /\ Abs!Next /\ Stable

\* A call on a live buffer is the abstract call of the same name.
LEMMA UseStep ==
  ASSUME NEW K, NEW c, Inv(K)' /\ call' = c /\ Stable /\ Frame(K), Abs!Use(c)
  PROVE  Step(K)
BY DEF Step, Abs!Next

\* A factory call is the abstract call of the same name.
LEMMA CreateStep ==
  ASSUME NEW K, NEW c, Inv(K)' /\ call' = c /\ Stable /\ Frame(K), Abs!Create(c)
  PROVE  Step(K)
BY DEF Step, Abs!Next

\* The calls that change bytes in place.
LEMMA InPlaceStep ==
  ASSUME NEW K, Inv(K), NEW x \in Obj, x \in K
  PROVE  /\ \A i \in Size, v \in Byte : Set(x, i, v) => Step(K)
         /\ \A v \in Byte : Fill(x, v) => Step(K)
         /\ Clear(x) => Step(K)
         /\ SecureClear(x) => Step(K)
         /\ \A i \in Size, s \in Source : Write(x, i, s) => Step(K)
<1>1. ASSUME NEW i \in Size, NEW v \in Byte, Set(x, i, v) PROVE Step(K)
  <2>1. PICK c : c = <<"set", x, i, v>>
    OBVIOUS
  <2>2. /\ Inv(K)' /\ call' = c /\ x \in alive /\ Stable /\ Frame(K)
        /\ Abs!Becomes(x, Abs!Overwrite(Held[x], i, <<v>>), Abs!Index(i < Len(Held[x])))
    BY <1>1, <2>1, SetActs, ActsStep
  <2>3. Abs!Use(c)
    BY <2>1, <2>2 DEF Abs!Use, Held
  <2> QED BY <2>2, <2>3, UseStep
<1>2. ASSUME NEW v \in Byte, Fill(x, v) PROVE Step(K)
  <2>1. PICK c : c = <<"fill", x, v>>
    OBVIOUS
  <2>2. /\ Inv(K)' /\ call' = c /\ x \in alive /\ Stable /\ Frame(K)
        /\ Abs!Becomes(x, Abs!Repeat(v, Len(Held[x])), {"ok"})
    BY <1>2, <2>1, FillActs, ActsStep
  <2>3. Abs!Use(c)
    BY <2>1, <2>2 DEF Abs!Use, Held
  <2> QED BY <2>2, <2>3, UseStep
<1>3. ASSUME Clear(x) PROVE Step(K)
  <2>1. PICK c : c = <<"clear", x>>
    OBVIOUS
  <2>2. Inv(K)' /\ call' = c /\ x \in alive /\ Stable /\ Frame(K) /\ Abs!Becomes(x, <<>>, {"ok"})
    BY <1>3, <2>1, ClearActs, ActsStep
  <2>3. Abs!Use(c)
    BY <2>1, <2>2 DEF Abs!Use
  <2> QED BY <2>2, <2>3, UseStep
<1>4. ASSUME SecureClear(x) PROVE Step(K)
  <2>1. PICK c : c = <<"secure_clear", x>>
    OBVIOUS
  <2>2. Inv(K)' /\ call' = c /\ x \in alive /\ Stable /\ Frame(K) /\ Abs!Becomes(x, <<>>, {"ok"})
    BY <1>4, <2>1, SecureClearActs, ActsStep
  <2>3. Abs!Use(c)
    BY <2>1, <2>2 DEF Abs!Use
  <2> QED BY <2>2, <2>3, UseStep
<1>5. ASSUME NEW i \in Size, NEW s \in Source, Write(x, i, s) PROVE Step(K)
  <2>1. PICK c : c = <<"write", x, i, s>>
    OBVIOUS
  <2>2. /\ Inv(K)' /\ call' = c /\ x \in alive /\ Stable /\ Frame(K)
        /\ Abs!Becomes(x, Abs!Overwrite(Held[x], i, Abs!Value(s)),
                       IF s.len = 0 THEN {"ok"}
                       ELSE IF s.of = Null THEN {"null_pointer"}
                       ELSE Abs!Range(i, s.len, Len(Held[x])))
    BY <1>5, <2>1, WriteActs, ActsStep
  <2>3. Abs!Use(c)
    BY <2>1, <2>2 DEF Abs!Use, Held
  <2> QED BY <2>2, <2>3, UseStep
<1> QED BY <1>1, <1>2, <1>3, <1>4, <1>5

\* The calls that may allocate.
LEMMA GrowingStep ==
  ASSUME NEW K, Inv(K), NEW x \in Obj, x \in K
  PROVE  /\ \A n \in Size : Reserve(x, n) => Step(K)
         /\ \A n \in Size, v \in Byte : Resize(x, n, v) => Step(K)
         /\ \A v \in Byte : AppendByte(x, v) => Step(K)
         /\ \A s \in Source : AppendBytes(x, s) => Step(K)
<1>1. ASSUME NEW n \in Size, Reserve(x, n) PROVE Step(K)
  <2>1. PICK c : c = <<"reserve", x, n>>
    OBVIOUS
  <2>2. Inv(K)' /\ call' = c /\ x \in alive /\ Stable /\ Frame(K) /\ Abs!Becomes(x, Held[x], Abs!Room(n))
    BY <1>1, <2>1, ReserveActs, ActsStep
  <2>3. Abs!Use(c)
    BY <2>1, <2>2 DEF Abs!Use, Held
  <2> QED BY <2>2, <2>3, UseStep
<1>2. ASSUME NEW n \in Size, NEW v \in Byte, Resize(x, n, v) PROVE Step(K)
  <2>1. PICK c : c = <<"resize", x, n, v>>
    OBVIOUS
  <2>2. /\ Inv(K)' /\ call' = c /\ x \in alive /\ Stable /\ Frame(K)
        /\ Abs!Becomes(x, Abs!Part(Held[x], 0, Abs!Smaller(n, Len(Held[x]))) \o Abs!Repeat(v, n - Len(Held[x])),
                       IF n <= Len(Held[x]) THEN {"ok"} ELSE Abs!Room(n))
    BY <1>2, <2>1, ResizeActs, ActsStep
  <2>3. Abs!Use(c)
    BY <2>1, <2>2 DEF Abs!Use, Held
  <2> QED BY <2>2, <2>3, UseStep
<1>3. ASSUME NEW v \in Byte, AppendByte(x, v) PROVE Step(K)
  <2>1. PICK c : c = <<"append_byte", x, v>>
    OBVIOUS
  <2>2. /\ Inv(K)' /\ call' = c /\ x \in alive /\ Stable /\ Frame(K)
        /\ Abs!Becomes(x, Append(Held[x], v), Abs!Room(Len(Held[x]) + 1))
    BY <1>3, <2>1, AppendByteActs, ActsStep
  <2>3. Abs!Use(c)
    BY <2>1, <2>2 DEF Abs!Use, Held
  <2> QED BY <2>2, <2>3, UseStep
<1>4. ASSUME NEW s \in Source, AppendBytes(x, s) PROVE Step(K)
  <2>1. PICK c : c = <<"append", x, s>>
    OBVIOUS
  <2>2. /\ Inv(K)' /\ call' = c /\ x \in alive /\ Stable /\ Frame(K)
        /\ Abs!Becomes(x, Held[x] \o Abs!Value(s), Abs!Take(s, Len(Held[x]) + s.len))
    BY <1>4, <2>1, AppendBytesActs, ActsStep
  <2>3. Abs!Use(c)
    BY <2>1, <2>2 DEF Abs!Use, Held
  <2> QED BY <2>2, <2>3, UseStep
<1> QED BY <1>1, <1>2, <1>3, <1>4

\* The calls that only read.
LEMMA ReadersStep ==
  ASSUME NEW K, Inv(K), NEW x \in Obj, x \in K
  PROVE  /\ \A i \in Size : At(x, i) => Step(K)
         /\ \A n, len \in Size, out \in BOOLEAN : Read(x, n, out, len) => Step(K)
<1>1. ASSUME NEW i \in Size, At(x, i) PROVE Step(K)
  <2>1. PICK c : c = <<"at", x, i>>
    OBVIOUS
  <2>2. /\ Inv(K)' /\ call' = c /\ x \in alive /\ Stable /\ Frame(K)
        /\ Abs!Yields(<<Held[x][i + 1]>>, Abs!Index(i < Len(Held[x])))
    BY <1>1, <2>1, AtHands, HandsStep
  <2>3. Abs!Use(c)
    BY <2>1, <2>2 DEF Abs!Use, Held
  <2> QED BY <2>2, <2>3, UseStep
<1>2. ASSUME NEW n \in Size, NEW len \in Size, NEW out \in BOOLEAN, Read(x, n, out, len) PROVE Step(K)
  <2>1. PICK c : c = <<"read", x, n, out, len>>
    OBVIOUS
  <2>2. /\ Inv(K)' /\ call' = c /\ x \in alive /\ Stable /\ Frame(K)
        /\ Abs!Yields(Abs!Part(Held[x], n, Abs!Smaller(len, Len(Held[x]) - n)),
                      IF n > Len(Held[x]) THEN {"out_of_range"}
                      ELSE IF len > 0 /\ ~out THEN {"null_pointer"} ELSE {"ok"})
    BY <1>2, <2>1, ReadHands, HandsStep
  <2>3. Abs!Use(c)
    BY <2>1, <2>2 DEF Abs!Use, Held
  <2> QED BY <2>2, <2>3, UseStep
<1> QED BY <1>1, <1>2

\* The factories.
LEMMA FactoryStep ==
  ASSUME NEW K, Inv(K), NEW x \in Obj, x \in K
  PROVE  /\ \A n \in Size : WithCapacity(x, n) => Step(K)
         /\ \A s \in Source : FromBytes(x, s) => Step(K)
         /\ \A y \in Obj \cap K : Clone(x, y) => Step(K)
<1>1. ASSUME NEW n \in Size, WithCapacity(x, n) PROVE Step(K)
  <2>1. PICK c : c = <<"with_capacity", x, n>>
    OBVIOUS
  <2>2. /\ Inv(K)' /\ call' = c /\ x \notin alive /\ Stable /\ Frame(K)
        /\ Abs!Becomes(x, <<>>, IF n = 0 THEN {"ok"} ELSE Abs!Room(n))
    BY <1>1, <2>1, WithCapacityMakes, MakesStep
  <2>3. Abs!Create(c)
    BY <2>1, <2>2 DEF Abs!Create
  <2> QED BY <2>2, <2>3, CreateStep
<1>2. ASSUME NEW s \in Source, FromBytes(x, s) PROVE Step(K)
  <2>1. PICK c : c = <<"from_bytes", x, s>>
    OBVIOUS
  <2>2. /\ Inv(K)' /\ call' = c /\ x \notin alive /\ Stable /\ Frame(K)
        /\ Abs!Becomes(x, Abs!Value(s), Abs!Take(s, s.len))
    BY <1>2, <2>1, FromBytesMakes, MakesStep
  <2>3. Abs!Create(c)
    BY <2>1, <2>2 DEF Abs!Create
  <2> QED BY <2>2, <2>3, CreateStep
<1>3. ASSUME NEW y \in Obj \cap K, Clone(x, y) PROVE Step(K)
  <2>1. PICK c : c = <<"clone", x, y>>
    OBVIOUS
  <2>2. /\ Inv(K)' /\ call' = c /\ x \notin alive /\ Stable /\ Frame(K)
        /\ Abs!Becomes(x, Held[y], IF Held[y] = <<>> THEN {"ok"} ELSE Abs!Room(Len(Held[y])))
    BY <1>3, <2>1, CloneMakes, MakesStep
  <2>3. Abs!Create(c)
    BY <2>1, <2>2 DEF Abs!Create, Held
  <2> QED BY <2>2, <2>3, CreateStep
<1> QED BY <1>1, <1>2, <1>3

\* Every step of a buffer program.
LEMMA NextStep ==
  ASSUME Inv(Obj), Next
  PROVE  Step(Obj)
<1>1. CASE LifetimeNext
  <2>1. PICK x \in Obj, y \in Obj :
          Construct(x) \/ Destroy(x) \/ MoveConstruct(x, y) \/ MoveAssign(x, y)
    BY <1>1 DEF LifetimeNext
  <2> QED BY <2>1, LifetimeStep DEF Step, Abs!Next
<1>2. ASSUME NEW x \in Obj, Clear(x) \/ SecureClear(x) PROVE Step(Obj)
  BY <1>2, InPlaceStep
<1>3. ASSUME NEW x \in Obj, NEW y \in Obj, Clone(x, y) PROVE Step(Obj)
  BY <1>3, FactoryStep
<1>4. ASSUME NEW x \in Obj, NEW n \in Size, WithCapacity(x, n) \/ Reserve(x, n) \/ At(x, n) PROVE Step(Obj)
  BY <1>4, FactoryStep, GrowingStep, ReadersStep
<1>5. ASSUME NEW x \in Obj, NEW v \in Byte, AppendByte(x, v) \/ Fill(x, v) PROVE Step(Obj)
  BY <1>5, GrowingStep, InPlaceStep
<1>6. ASSUME NEW x \in Obj, NEW n \in Size, NEW v \in Byte, Set(x, n, v) \/ Resize(x, n, v) PROVE Step(Obj)
  BY <1>6, InPlaceStep, GrowingStep
<1>7. ASSUME NEW x \in Obj, NEW s \in Source, FromBytes(x, s) \/ AppendBytes(x, s) PROVE Step(Obj)
  BY <1>7, FactoryStep, GrowingStep
<1>8. ASSUME NEW x \in Obj, NEW n \in Size, NEW s \in Source, Write(x, n, s) PROVE Step(Obj)
  BY <1>8, InPlaceStep
<1>9. ASSUME NEW x \in Obj, NEW n \in Size, NEW len \in Size, NEW out \in BOOLEAN,
             Read(x, n, out, len)
      PROVE  Step(Obj)
  BY <1>9, ReadersStep
<1> QED BY <1>1, <1>2, <1>3, <1>4, <1>5, <1>6, <1>7, <1>8, <1>9 DEF Next

-----------------------------------------------------------------------------
(***************************************************************************)
(* What is left in a buffer's block past its last byte.                    *)
(***************************************************************************)

LEMMA ReserveKeeps ==
  ASSUME NEW h, NEW b, Tidy(h, b), NEW n \in Size, NEW o \in reserve(h, b, n)
  PROVE  Keeps(h, b, o) /\ o.buf.size = b.size
<1>0. b.cap \in Nat /\ n \in Nat /\ MAX_ALLOC_BYTES \in Nat
  BY SizeAssumption DEF Tidy, Header
<1>1. CASE \E code : o = Outcome(code, h, b, FALSE)
  BY <1>1, SameKeeps DEF Outcome
<1>2. ASSUME ~(n <= b.cap), ~(n > MAX_ALLOC_BYTES), NEW p \in Room(h, b.data),
             o = Outcome("ok", realloc(h, b.data, p, n), [data |-> p, size |-> b.size, cap |-> n], FALSE)
      PROVE  Keeps(h, b, o) /\ o.buf.size = b.size
  <2>1. o.heap = realloc(h, b.data, p, n) /\ o.buf = [data |-> p, size |-> b.size, cap |-> n]
    BY <1>2 DEF Outcome
  <2>2. n \in 0 .. MAX_ALLOC_BYTES /\ b.cap # n
    BY <1>0, <1>2
  <2> QED BY <2>1, <2>2, ReallocKeeps
<1>3. \/ \E code : o = Outcome(code, h, b, FALSE)
      \/ /\ ~(n <= b.cap) /\ ~(n > MAX_ALLOC_BYTES)
         /\ \E p \in Room(h, b.data) :
              o = Outcome("ok", realloc(h, b.data, p, n), [data |-> p, size |-> b.size, cap |-> n], FALSE)
  BY DEF reserve
<1> QED BY <1>1, <1>2, <1>3

LEMMA GrowKeeps ==
  ASSUME NEW h, NEW b, Tidy(h, b), NEW n \in Size, NEW o \in grow_to_at_least(h, b, n)
  PROVE  Keeps(h, b, o) /\ o.buf.size = b.size
<1>1. CASE n <= b.cap
  <2>1. o = Outcome("ok", h, b, FALSE)
    BY <1>1 DEF grow_to_at_least
  <2> QED BY <2>1, SameKeeps DEF Outcome
<1>2. CASE ~(n <= b.cap)
  <2>1. PICK w : w = next_capacity(b.cap, n)
    OBVIOUS
  <2>2. w \in Size
    BY <2>1, NextCapacityBounds DEF Tidy, Header
  <2>3. PICK t : t = IF w < n THEN n ELSE w
    OBVIOUS
  <2>4. t \in Size /\ o \in reserve(h, b, t)
    BY <1>2, <2>1, <2>2, <2>3 DEF grow_to_at_least
  <2> QED BY <2>4, ReserveKeeps
<1> QED BY <1>1, <1>2

\* copy_in_possibly_aliased, followed by the new size.
LEMMA CopyInKeeps ==
  ASSUME NEW h, NEW b, Tidy(h, b), NEW to \in Size, NEW p \in Block \cup {Null}, NEW off \in Nat, NEW n \in Size,
         NEW m \in Size, m = to + n, b.size <= m, NEW o \in copy_in_possibly_aliased(h, b, to, p, off, n),
         NEW u, u = IF o.code = "ok" THEN Outcome("ok", o.heap, [o.buf EXCEPT !.size = m], o.bad) ELSE o
  PROVE  Keeps(h, b, u)
<1> DEFINE src(g) == IF pointer_in_range(p, off, b.data, b.cap) THEN g.buf.data ELSE p
           Copied(g) == Outcome("ok", memmove(g.heap, g.buf.data, to, src(g), off, n), g.buf,
                                ~ (Inside(g.heap, src(g), off, n) /\ Inside(g.heap, g.buf.data, to, n)))
<1>1. checked_add(to, n) = m /\ checked_add(to, n) # Nullopt /\ to \in Nat /\ n \in Nat
  BY CheckedAddExact, SizeAssumption
<1>2. PICK g \in grow_to_at_least(h, b, m) : o = IF g.code = "ok" THEN Copied(g) ELSE g
  BY <1>1 DEF copy_in_possibly_aliased
<1>3. Keeps(h, b, g) /\ g.buf.size = b.size /\ g.buf \in Header
  BY <1>2, GrowKeeps DEF Keeps, Tidy
<1>4. CASE g.code # "ok"
  BY <1>2, <1>3, <1>4
<1>5. CASE g.code = "ok"
  <2>1. PICK q : q = src(g)
    OBVIOUS
  <2>2. q \in Block \cup {Null}
    BY <1>3, <2>1 DEF Header
  <2>3. o.code = "ok" /\ o.heap = memmove(g.heap, g.buf.data, to, q, off, n) /\ o.buf = g.buf
    BY <1>2, <1>5, <2>1 DEF Outcome
  <2>4. u.heap = memmove(g.heap, g.buf.data, to, q, off, n)
        /\ u.buf = [data |-> g.buf.data, size |-> m, cap |-> g.buf.cap]
    BY <1>3, <2>3, SizeField DEF Outcome
  <2>5. g.buf.size <= m /\ to + n <= m
    BY <1>1, <1>3
  <2> QED BY <1>1, <1>3, <2>2, <2>4, <2>5, MemmoveKeeps
<1> QED BY <1>4, <1>5

LEMMA WithCapacityKeeps ==
  ASSUME NEW h \in [Block -> Chunk], NEW n \in Size, NEW o \in with_capacity(h, n)
  PROVE  Keeps(h, Empty, o) /\ o.buf.size = 0
<1>0. Tidy(h, Empty) /\ Empty.size = 0 /\ Empty.cap = 0 /\ Empty.data = Null /\ n \in Nat
  BY EmptyTidy, SizeAssumption
<1>1. CASE \E code : o = Outcome(code, h, Empty, FALSE)
  BY <1>0, <1>1, SameKeeps DEF Outcome
<1>2. ASSUME n # 0, ~(n > MAX_ALLOC_BYTES), NEW p \in Room(h, Null),
             o = Outcome("ok", malloc(h, p, n), [data |-> p, size |-> 0, cap |-> n], FALSE)
      PROVE  Keeps(h, Empty, o) /\ o.buf.size = 0
  <2>1. malloc(h, p, n) = realloc(h, Null, p, n)
    BY DEF malloc, realloc, free, Load, Freed
  <2>2. /\ o.heap = realloc(h, Empty.data, p, n) /\ o.buf = [data |-> p, size |-> Empty.size, cap |-> n]
        /\ o.buf.size = 0 /\ p \in Room(h, Empty.data)
    BY <1>0, <1>2, <2>1 DEF Outcome
  <2>3. n \in 0 .. MAX_ALLOC_BYTES /\ Empty.cap # n
    BY <1>0, <1>2, SizeAssumption
  <2> QED BY <1>0, <2>2, <2>3, ReallocKeeps
<1>3. \/ \E code : o = Outcome(code, h, Empty, FALSE)
      \/ /\ n # 0 /\ ~(n > MAX_ALLOC_BYTES)
         /\ \E p \in Room(h, Null) : o = Outcome("ok", malloc(h, p, n), [data |-> p, size |-> 0, cap |-> n], FALSE)
  BY DEF with_capacity
<1> QED BY <1>1, <1>2, <1>3

LEMMA FromBytesKeeps ==
  ASSUME NEW h \in [Block -> Chunk], NEW q \in Block \cup {Null}, NEW off \in Nat, NEW n \in Size,
         NEW o \in from_bytes(h, q, off, n)
  PROVE  Keeps(h, Empty, o)
<1>0. Tidy(h, Empty) /\ 0 \in Size /\ n \in Nat
  BY EmptyTidy, SizeAssumption
<1>1. CASE n = 0
  <2>1. PICK z \in Size : z = 0
    BY <1>0
  <2>2. o \in with_capacity(h, z)
    BY <1>1, <2>1 DEF from_bytes
  <2> QED BY <2>2, WithCapacityKeeps
<1>2. CASE n # 0 /\ q = Null
  <2>1. o = Outcome("null_pointer", h, Empty, FALSE)
    BY <1>2 DEF from_bytes
  <2> QED BY <1>0, <2>1, SameKeeps DEF Outcome
<1>3. CASE n # 0 /\ q # Null
  <2> DEFINE Filled(g) == Outcome("ok", memmove(g.heap, g.buf.data, 0, q, off, n),
                                  [g.buf EXCEPT !.size = n], ~ Inside(h, q, off, n))
  <2>1. PICK g \in with_capacity(h, n) : o = IF g.code = "ok" THEN Filled(g) ELSE g
    BY <1>3 DEF from_bytes
  <2>2. Keeps(h, Empty, g) /\ g.buf.size = 0 /\ g.buf \in Header
    BY <2>1, WithCapacityKeeps DEF Keeps, Tidy
  <2>3. CASE g.code # "ok"
    BY <2>1, <2>2, <2>3
  <2>4. CASE g.code = "ok"
    <3>1. PICK to \in Nat : to = 0
      OBVIOUS
    <3>2. /\ o.heap = memmove(g.heap, g.buf.data, to, q, off, n)
          /\ o.buf = [data |-> g.buf.data, size |-> n, cap |-> g.buf.cap]
      BY <2>1, <2>2, <2>4, <3>1, SizeField DEF Outcome
    <3>3. g.buf.size <= n /\ to + n <= n
      BY <1>0, <2>2, <3>1
    <3> QED BY <1>0, <2>2, <3>2, <3>3, MemmoveKeeps
  <2> QED BY <2>3, <2>4
<1> QED BY <1>1, <1>2, <1>3

\* The factories.
LEMMA CapacityKept ==
  ASSUME NEW K, Inv(K), AllBlank, NEW x \in Obj, NEW n \in Size, WithCapacity(x, n)
  PROVE  Kept(x)
<1>1. heap \in [Block -> Chunk] /\ (x \notin alive => obj[x] = Empty)
  BY DEF Inv, GoodHeap
<1>2. PICK c, o : o \in with_capacity(heap, n) /\ Creates(c, x, o)
  BY DEF WithCapacity
<1>3. Keeps(heap, Empty, o)
  BY <1>1, <1>2, WithCapacityKeeps
<1> QED BY <1>1, <1>2, <1>3, AnswerKept DEF Creates

LEMMA BytesKept ==
  ASSUME NEW K, Inv(K), AllBlank, NEW x \in Obj, NEW s \in Source, FromBytes(x, s)
  PROVE  Kept(x)
<1>1. heap \in [Block -> Chunk] /\ (x \notin alive => obj[x] = Empty)
  BY DEF Inv, GoodHeap
<1>2. PICK q, off, m : q = target(s) /\ off = s.off /\ m = s.len
  OBVIOUS
<1>3. PICK c, o : o \in from_bytes(heap, q, off, m) /\ Creates(c, x, o)
  BY <1>2 DEF FromBytes
<1>4. Keeps(heap, Empty, o)
  BY <1>1, <1>2, <1>3, SourceExtent, FromBytesKeeps
<1> QED BY <1>1, <1>3, <1>4, AnswerKept DEF Creates

LEMMA SecureClearKept ==
  ASSUME NEW K, Inv(K), AllBlank, NEW x \in Obj, SecureClear(x)
  PROVE  Kept(x)
<1>1. PICK b, p, k : b = obj[x] /\ p = b.data /\ k = b.size
  OBVIOUS
<1>2. Tidy(heap, b) /\ k \in Nat /\ p \in Block \cup {Null} /\ b \in Header /\ heap \in [Block -> Chunk]
      /\ Blank(heap, p, k)
  BY <1>1, ObjectTidy DEF Tidy
<1>3. PICK m : m = 0
  OBVIOUS
<1>4. m \in Size /\ m \in Nat
  BY <1>3, SizeAssumption
<1>5. PICK o : o = Outcome("ok", secure_zero(heap, p, k), [b EXCEPT !.size = m], k > 0 /\ ~ Inside(heap, p, 0, k))
  OBVIOUS
<1>6. Answer(<<"secure_clear", x>>, x, o)
  BY <1>1, <1>3, <1>5 DEF SecureClear, Ends
<1>7. Trims(heap, secure_zero(heap, p, k), p, m)
  BY <1>2, <1>3, ZeroTrims
<1>8. PICK g : g = Outcome("ok", heap, b, FALSE)
  OBVIOUS
<1>9. g.heap = heap /\ g.buf = b /\ Keeps(heap, b, g)
  BY <1>2, <1>8, SameKeeps DEF Outcome
<1>10. o.heap = secure_zero(heap, p, k) /\ o.buf = [data |-> b.data, size |-> m, cap |-> b.cap]
  BY <1>2, <1>5, SizeField DEF Outcome
<1>11. Keeps(heap, b, o)
  BY <1>1, <1>4, <1>7, <1>9, <1>10, ThenTrims
<1> QED BY <1>1, <1>6, <1>11, AnswerKept

LEMMA AppendByteKept ==
  ASSUME NEW K, Inv(K), AllBlank, NEW x \in Obj, NEW v \in Byte, AppendByte(x, v)
  PROVE  Kept(x)
<1>1. PICK b, m, k : b = obj[x] /\ m = checked_add(b.size, 1) /\ k = 1
  OBVIOUS
<1>2. Tidy(heap, b) /\ b.size \in Nat /\ b.size \in Size /\ k \in Nat /\ k \in Size
  <2>1. k \in Nat /\ k \in Size
    BY <1>1, SizeAssumption
  <2> QED BY <1>1, <2>1, ObjectTidy
<1>3. m = IF b.size + 1 \in Size THEN b.size + 1 ELSE Nullopt
  BY <1>1, <1>2, CheckedAddExact
<1> DEFINE Put(g) == Outcome("ok", memset(g.heap, g.buf.data, b.size, v, k), [g.buf EXCEPT !.size = m],
                             ~ Inside(g.heap, g.buf.data, b.size, k))
<1>4. PICK g \in (IF m = Nullopt THEN {Outcome("overflow", heap, b, FALSE)} ELSE grow_to_at_least(heap, b, m)) :
        Answer(<<"append_byte", x, v>>, x, IF g.code = "ok" THEN Put(g) ELSE g)
  BY <1>1 DEF AppendByte, Ends
<1>5. CASE m = Nullopt
  <2>1. g.heap = heap /\ g.buf = b /\ g.code = "overflow"
    BY <1>4, <1>5 DEF Outcome
  <2>2. Keeps(heap, b, g) /\ g.code # "ok"
    BY <1>2, <2>1, SameKeeps
  <2> QED BY <1>1, <1>4, <2>2, AnswerKept
<1>6. CASE m # Nullopt
  <2>1. m = b.size + 1 /\ m \in Size /\ m \in Nat
    BY <1>2, <1>3, <1>6
  <2>2. Keeps(heap, b, g) /\ g.buf.size = b.size /\ g.buf \in Header
    BY <1>2, <1>4, <1>6, <2>1, GrowKeeps DEF Keeps, Tidy
  <2>3. CASE g.code # "ok"
    BY <1>1, <1>4, <2>2, <2>3, AnswerKept
  <2>4. CASE g.code = "ok"
    <3>1. PICK u : u = Put(g)
      OBVIOUS
    <3>2. u.heap = memset(g.heap, g.buf.data, b.size, v, k)
          /\ u.buf = [data |-> g.buf.data, size |-> m, cap |-> g.buf.cap]
      BY <2>2, <3>1, SizeField DEF Outcome
    <3>3. \A a \in Nat : a >= m => IF a \in b.size .. b.size + k - 1 THEN v = 0 ELSE a >= g.buf.size
      BY <1>1, <1>2, <2>1, <2>2
    <3>4. Keeps(heap, b, u)
      BY <1>2, <2>1, <2>2, <3>2, <3>3, MemsetKeeps
    <3> QED BY <1>1, <1>4, <2>4, <3>1, <3>4, AnswerKept
  <2> QED BY <2>3, <2>4
<1> QED BY <1>5, <1>6

LEMMA AppendBytesKept ==
  ASSUME NEW K, Inv(K), AllBlank, NEW x \in Obj, NEW s \in Source, AppendBytes(x, s)
  PROVE  Kept(x)
<1>1. PICK b, p, off, n, m : /\ b = obj[x] /\ p = target(s) /\ off = s.off /\ n = s.len
                             /\ m = checked_add(b.size, n)
  OBVIOUS
<1>2. /\ Tidy(heap, b) /\ b.size \in Nat /\ b.size \in Size
      /\ p \in Block \cup {Null} /\ off \in Nat /\ n \in Size /\ n \in Nat
  BY <1>1, ObjectTidy, SourceExtent
<1>3. m = IF b.size + n \in Size THEN b.size + n ELSE Nullopt
  BY <1>1, <1>2, CheckedAddExact
<1>4. PICK u : /\ Answer(<<"append", x, s>>, x, u)
               /\ \/ \E code : u = Outcome(code, heap, b, FALSE)
                  \/ /\ m # Nullopt
                     /\ \E o \in copy_in_possibly_aliased(heap, b, b.size, p, off, n) :
                          u = IF o.code = "ok" THEN Outcome("ok", o.heap, [o.buf EXCEPT !.size = m], o.bad) ELSE o
  BY <1>1 DEF AppendBytes, Ends
<1>5. CASE \E code : u = Outcome(code, heap, b, FALSE)
  <2>1. Keeps(heap, b, u)
    BY <1>2, <1>5, SameKeeps DEF Outcome
  <2> QED BY <1>1, <1>4, <2>1, AnswerKept
<1>6. ASSUME m # Nullopt, NEW o \in copy_in_possibly_aliased(heap, b, b.size, p, off, n),
             u = IF o.code = "ok" THEN Outcome("ok", o.heap, [o.buf EXCEPT !.size = m], o.bad) ELSE o
      PROVE  Kept(x)
  <2>1. m = b.size + n /\ m \in Size /\ b.size <= m
    BY <1>2, <1>3, <1>6
  <2>2. PICK to \in Size : to = b.size
    BY <1>2
  <2>3. Keeps(heap, b, u)
    BY <1>2, <1>6, <2>1, <2>2, CopyInKeeps
  <2> QED BY <1>1, <1>4, <2>3, AnswerKept
<1> QED BY <1>4, <1>5, <1>6

LEMMA WriteKept ==
  ASSUME NEW K, Inv(K), AllBlank, NEW x \in Obj, NEW at \in Size, NEW s \in Source, Write(x, at, s)
  PROVE  Kept(x)
<1>1. PICK b, p, off, n : b = obj[x] /\ p = target(s) /\ off = s.off /\ n = s.len
  OBVIOUS
<1>2. /\ Tidy(heap, b) /\ b.size \in Nat /\ b.size \in Size /\ b \in Header
      /\ p \in Block \cup {Null} /\ off \in Nat /\ n \in Size /\ n \in Nat /\ at \in Nat
      /\ b = [data |-> b.data, size |-> b.size, cap |-> b.cap]
  BY <1>1, ObjectTidy, SourceExtent, SizeAssumption DEF Tidy
<1>3. range_in_bounds(at, n, b.size) => at + n <= b.size
  BY <1>2, CheckedAddExact DEF range_in_bounds
<1>4. PICK u : /\ Answer(<<"write", x, at, s>>, x, u)
               /\ \/ \E code : u = Outcome(code, heap, b, FALSE)
                  \/ /\ range_in_bounds(at, n, b.size)
                     /\ \E bad : u = Outcome("ok", memmove(heap, b.data, at, p, off, n), b, bad)
  BY <1>1 DEF Write, Ends
<1>5. CASE \E code : u = Outcome(code, heap, b, FALSE)
  <2>1. Keeps(heap, b, u)
    BY <1>2, <1>5, SameKeeps DEF Outcome
  <2> QED BY <1>1, <1>4, <2>1, AnswerKept
<1>6. ASSUME range_in_bounds(at, n, b.size),
             \E bad : u = Outcome("ok", memmove(heap, b.data, at, p, off, n), b, bad)
      PROVE  Kept(x)
  <2>1. PICK g : g = Outcome("ok", heap, b, FALSE)
    OBVIOUS
  <2>2. g.heap = heap /\ g.buf = b /\ Keeps(heap, b, g)
    BY <1>2, <2>1, SameKeeps DEF Outcome
  <2>3. u.heap = memmove(g.heap, g.buf.data, at, p, off, n)
        /\ u.buf = [data |-> g.buf.data, size |-> b.size, cap |-> g.buf.cap]
    BY <1>2, <1>6, <2>2 DEF Outcome
  <2>4. g.buf.size <= b.size /\ at + n <= b.size
    BY <1>2, <1>3, <1>6, <2>2
  <2>5. PICK m \in Size : m = b.size
    BY <1>2
  <2>6. Keeps(heap, b, u)
    BY <1>2, <2>2, <2>3, <2>4, <2>5, MemmoveKeeps
  <2> QED BY <1>1, <1>4, <2>6, AnswerKept
<1> QED BY <1>4, <1>5, <1>6

\* resize that does not shrink.
LEMMA ResizeKept ==
  ASSUME NEW K, Inv(K), AllBlank, NEW x \in Obj, NEW n \in Size, NEW v \in Byte, obj[x].size <= n, Resize(x, n, v)
  PROVE  Kept(x)
<1>1. PICK b : b = obj[x]
  OBVIOUS
<1>2. Tidy(heap, b) /\ b.size \in Nat /\ b.size \in Size /\ n \in Nat /\ b.size <= n
  <2>1. n \in Nat
    BY SizeAssumption
  <2> QED BY <1>1, <2>1, ObjectTidy
<1> DEFINE Sized(o) ==
      Outcome("ok",
              IF n > b.size THEN memset(o.heap, o.buf.data, b.size, v, n - b.size) ELSE o.heap,
              [o.buf EXCEPT !.size = n],
              n > b.size /\ ~ Inside(o.heap, o.buf.data, b.size, n - b.size))
<1>3. PICK g \in (IF n > MAX_ALLOC_BYTES THEN {Outcome("capacity_exceeded", heap, b, FALSE)}
                  ELSE grow_to_at_least(heap, b, n)) :
        Answer(<<"resize", x, n, v>>, x, IF g.code = "ok" THEN Sized(g) ELSE g)
  BY <1>1 DEF Resize, Ends
<1>4. Keeps(heap, b, g) /\ g.buf.size = b.size /\ g.buf \in Header
  <2>1. CASE n > MAX_ALLOC_BYTES
    <3>1. g.heap = heap /\ g.buf = b
      BY <1>3, <2>1 DEF Outcome
    <3> QED BY <1>2, <3>1, SameKeeps DEF Tidy
  <2>2. CASE ~(n > MAX_ALLOC_BYTES)
    BY <1>2, <1>3, <2>2, GrowKeeps DEF Keeps, Tidy
  <2> QED BY <2>1, <2>2
<1>5. CASE g.code # "ok"
  BY <1>1, <1>3, <1>4, <1>5, AnswerKept
<1>6. CASE g.code = "ok"
  <2>1. PICK u, k : u = Sized(g) /\ k = n - b.size
    OBVIOUS
  <2>2. k \in Nat /\ b.size + k = n
    BY <1>2, <2>1
  <2>3. u.buf = [data |-> g.buf.data, size |-> n, cap |-> g.buf.cap]
    BY <1>4, <2>1, SizeField DEF Outcome
  <2>4. Keeps(heap, b, u)
    <3>1. CASE n > b.size
      <4>1. u.heap = memset(g.heap, g.buf.data, b.size, v, k)
        BY <2>1, <3>1 DEF Outcome
      <4>2. \A a \in Nat : a >= n => IF a \in b.size .. b.size + k - 1 THEN v = 0 ELSE a >= g.buf.size
        BY <1>2, <1>4, <2>2
      <4> QED BY <1>2, <1>4, <2>2, <2>3, <4>1, <4>2, MemsetKeeps
    <3>2. CASE ~(n > b.size)
      <4>1. u.heap = g.heap
        BY <2>1, <3>2 DEF Outcome
      <4>2. n = g.buf.size
        BY <1>2, <1>4, <3>2
      <4>3. Trims(g.heap, g.heap, g.buf.data, n)
        BY <1>4, <4>2 DEF Keeps, Tidy, Trims
      <4> QED BY <1>4, <2>3, <4>1, <4>3, ThenTrims
    <3> QED BY <3>1, <3>2
  <2> QED BY <1>1, <1>3, <1>6, <2>1, <2>4, AnswerKept
<1> QED BY <1>5, <1>6

LEMMA ReserveKept ==
  ASSUME NEW K, Inv(K), AllBlank, NEW x \in Obj, NEW n \in Size, Reserve(x, n)
  PROVE  Kept(x)
<1>1. PICK b : b = obj[x]
  OBVIOUS
<1>2. PICK o \in reserve(heap, b, n) : Answer(<<"reserve", x, n>>, x, o)
  BY <1>1 DEF Reserve, Ends
<1>3. Keeps(heap, b, o)
  BY <1>1, <1>2, ObjectTidy, ReserveKeeps
<1> QED BY <1>1, <1>2, <1>3, AnswerKept

LEMMA ReadKept ==
  ASSUME NEW K, Inv(K), AllBlank, NEW x \in Obj, NEW at, NEW out, NEW len, Read(x, at, out, len)
  PROVE  Kept(x)
<1>1. \E c, code, v, bad : Looks(c, code, v, bad)
  BY DEF Read
<1> QED BY <1>1, LooksKept

-----------------------------------------------------------------------------
(***************************************************************************)
(* What follows for every behaviour.                                       *)
(***************************************************************************)

\* The invariant holds in every reachable state.
THEOREM InvHolds ==
  Spec => []Inv(Obj)
<1>1. Init => Inv(Obj)
  BY InitInv
<1>2. Inv(Obj) /\ [Next]_vars => Inv(Obj)'
  <2>1. Inv(Obj) /\ UNCHANGED vars => Inv(Obj)'
    BY DEF vars, Inv, GoodHeap, Sound, SoundAs, Live
  <2>2. Inv(Obj) /\ Next => Inv(Obj)'
    BY NextStep DEF Step
  <2> QED BY <2>1, <2>2
<1> QED BY <1>1, <1>2, PTL DEF Spec

\* Heap, headers and flags keep their types in every buffer program.
THEOREM TypeCorrect ==
  Spec => []TypeOK
BY InvHolds, InvImplies, PTL

\* BUFFER_AUDIT never fires and verify() never fails.
THEOREM AlwaysConsistent ==
  Spec => []Consistent
<1>1. Inv(Obj) => Consistent
  <2> SUFFICES ASSUME Inv(Obj), NEW x \in alive PROVE Audit(x) /\ verify(obj[x])
    BY DEF Consistent
  <2>1. Sound(heap, obj[x]) /\ GoodHeap(heap)
    BY DEF Inv
  <2>2. obj[x].size <= obj[x].cap /\ obj[x].size \in Nat /\ (obj[x].data = Null <=> obj[x].cap = 0)
        /\ (obj[x].data = Null => obj[x].size = 0)
    BY <2>1, SoundBounds DEF Sound, SoundAs
  <2> QED BY <2>2 DEF Audit, verify
<1> QED BY <1>1, InvHolds, PTL

\* Every block but the caller's belongs to exactly one buffer: no leak, no
\* double free, no sharing, whatever is moved, destroyed or refused.
THEOREM AlwaysOwned ==
  Spec => []Ownership
BY InvHolds, InvImplies, PTL

\* No byte below size() is ever unwritten memory.
THEOREM AlwaysInitialised ==
  Spec => []Initialised
BY InvHolds, InvImplies, PTL

\* No buffer operation ever reads or writes outside a live block.
THEOREM NeverFaults ==
  Spec => []NoFault
BY InvHolds, InvImplies, PTL

\* Every buffer behaves as the byte sequence of AbstractBuffer: each call has
\* exactly the abstract effect, an aliased source included, or is refused
\* with a code its arguments justify and changes nothing.
THEOREM BufferRefines ==
  Spec => Implements
<1>1. Init => Abs!Init
  <2> SUFFICES ASSUME Init PROVE Abs!Init
    OBVIOUS
  <2>1. Inv(Obj) /\ \A x \in Obj : obj[x].size = 0
    BY InitInv DEF Init, Empty
  <2>2. \A x \in Obj : Contents(x) = <<>>
    <3> SUFFICES ASSUME NEW x \in Obj PROVE Contents(x) = <<>>
      OBVIOUS
    <3>1. PICK b : b = obj[x]
      OBVIOUS
    <3>2. Bytes(heap, b) = <<>> /\ Contents(x) = Bytes(heap, b)
      BY <2>1, <3>1, EmptyBytes DEF Bytes, Contents
    <3> QED BY <3>2
  <2>3. [x \in Obj |-> Contents(x)] = [x \in Obj |-> <<>>]
    BY <2>2
  <2> QED BY <2>3 DEF Init, Abs!Init
<1>2. Inv(Obj) /\ [Next]_vars => [Abs!Next]_(Abs!avars)
  <2>1. Inv(Obj) /\ Next => Abs!Next
    BY NextStep DEF Step
  <2>2. UNCHANGED vars => UNCHANGED Abs!avars
    <3> SUFFICES ASSUME UNCHANGED vars PROVE UNCHANGED Abs!avars
      OBVIOUS
    <3>1. heap' = heap /\ obj' = obj /\ alive' = alive /\ call' = call /\ ret' = ret
      BY DEF vars
    <3>2. Held' = Held
      BY <3>1, UnchangedHeld
    <3> QED BY <3>1, <3>2 DEF Abs!avars, Held
  <2> QED BY <2>1, <2>2
<1> QED BY <1>1, <1>2, InvHolds, PTL DEF Spec, Implements, Abs!Spec

\* A pointer from data() survives every call that does not outgrow the
\* capacity, and every refused call, reserve and moves apart.
THEOREM DataStays ==
  Spec => DataStable
<1>1. Inv(Obj) /\ [Next]_vars =>
        [\A x \in alive \cap alive' :
           \/ call'[1] \in {"reserve", "move_construct", "move_assign"} /\ ret'.code = "ok"
           \/ obj'[x].size > obj[x].cap
           \/ obj'[x].data = obj[x].data /\ obj'[x].cap = obj[x].cap]_vars
  BY NextStep DEF Step, Stable
<1> QED BY <1>1, InvHolds, PTL DEF Spec, DataStable
=============================================================================
