-------------------------- MODULE ContainerProofs --------------------------
(***************************************************************************)
(* What the proofs about oe::buffer and oe::string have in common, for     *)
(* every number of objects, heap blocks, byte values and every setting of  *)
(* the limits.  An operation works on one object; what it owes to the      *)
(* others is the frame condition Local, proved once for each helper, from  *)
(* which the invariant of the whole program follows.                       *)
(***************************************************************************)
EXTENDS Container, SequenceTheorems, TLAPS

USE DEF Size, Nullopt

\* The heap is well formed and the caller's own memory is untouched.
GoodHeap(h) ==
  /\ h \in [Block -> Chunk]
  /\ h[Caller] = [len |-> MAX_ALLOC_BYTES, cell |-> CallerBytes]

\* One object: its fields agree with each other and with the block it owns,
\* n bytes longer than its capacity, and the bytes below its size have been
\* written.
SoundAs(n, h, b) ==
  /\ b \in Header
  /\ b.size <= b.cap
  /\ b.data = Null <=> b.cap = 0
  /\ b.data # Null =>
       /\ b.data \in Block \ {Caller}
       /\ h[b.data].len = b.cap + n
       /\ \A a \in Addr : a < b.size => h[b.data].cell[a] # Undef

\* One object of the kind that this module is about.
Sound(h, b) == SoundAs(Slack, h, b)

\* An operation on b ended with outcome o: b is sound, no other live block
\* changed, and b owns a block that nobody else owns and has lost none.
Local(h, b, o) ==
  /\ GoodHeap(o.heap)
  /\ Sound(o.heap, o.buf)
  /\ o.bad = FALSE
  /\ \A p \in Block : Live(h, p) /\ p # b.data => o.heap[p] = h[p]
  /\ o.buf.data = b.data \/ o.buf.data = Null \/ ~ Live(h, o.buf.data)
  /\ \A p \in Block : Live(o.heap, p) => p = o.buf.data \/ (Live(h, p) /\ p # b.data)

\* An operation went well and touched nothing out of bounds.
Ok(h, b) == Outcome("ok", h, b, FALSE)

\* The inductive invariant of a program whose objects of this kind are K; the
\* others, if there are any, are containers of the other kind.
Inv(K) ==
  /\ GoodHeap(heap)
  /\ obj \in [Obj -> Header]
  /\ alive \subseteq Obj
  /\ fault = FALSE
  /\ \A x \in Obj \cap K : Sound(heap, obj[x])
  /\ \A x \in Obj \ K : SoundAs(1 - Slack, heap, obj[x])
  /\ \A x \in Obj \ alive : obj[x] = Empty
  /\ \A x, y \in Obj : x # y /\ obj[x].data # Null => obj[x].data # obj[y].data
  /\ \A p \in Block \ {Caller} : Live(heap, p) => \E x \in Obj : obj[x].data = p

-----------------------------------------------------------------------------
(***************************************************************************)
(* Size arithmetic.                                                        *)
(***************************************************************************)

\* checked_add is exact: the sum if it is a size_t, nullopt otherwise.
LEMMA CheckedAddExact ==
  ASSUME NEW a \in Size, NEW b \in Size
  PROVE  checked_add(a, b) = IF a + b \in Size THEN a + b ELSE Nullopt
BY SizeAssumption DEF checked_add, Wrap

\* checked_mul is exact.
LEMMA CheckedMulExact ==
  ASSUME NEW a \in Size, NEW b \in Size
  PROVE  checked_mul(a, b) = IF a * b \in Size THEN a * b ELSE Nullopt
<1>1. CASE a = 0 \/ b = 0
  BY <1>1, SizeAssumption DEF checked_mul
<1>2. CASE a > 0 /\ b > 0
  <2>1. a > SIZE_MAX \div b <=> a * b > SIZE_MAX
    BY <1>2, SizeAssumption
  <2>2. a * b \in Nat
    BY SizeAssumption
  <2> QED BY <1>2, <2>1, <2>2, SizeAssumption DEF checked_mul, Wrap
<1> QED BY <1>1, <1>2, SizeAssumption

\* Growth never asks for less than is needed, nor for more than the cap
\* allows unless the need itself exceeds it.
LEMMA NextCapacityBounds ==
  ASSUME NEW current \in Size, NEW needed \in Size
  PROVE  /\ next_capacity(current, needed) \in Size
         /\ next_capacity(current, needed) >= needed
         /\ needed <= MAX_ALLOC_BYTES => next_capacity(current, needed) <= MAX_ALLOC_BYTES
<1> DEFINE grown == IF current < kMinGrowth THEN kMinGrowth ELSE current
<1>1. grown \in Size /\ 2 \in Nat
  BY SizeAssumption
<1>2. checked_mul(grown, 2) = Nullopt \/ checked_mul(grown, 2) \in Nat
  BY <1>1, SizeAssumption DEF checked_mul, Wrap
<1> QED BY <1>1, <1>2, SizeAssumption DEF next_capacity

-----------------------------------------------------------------------------
(***************************************************************************)
(* Memory.                                                                 *)
(***************************************************************************)

\* Whatever is loaded, from a block or through a null pointer, is a cell.
LEMMA LoadType ==
  ASSUME NEW h \in [Block -> Chunk], NEW p \in Block \cup {Null}, NEW a \in Nat
  PROVE  Load(h, p, a) \in Cell
BY SizeAssumption, MemoryAssumption DEF Load, Cell, Chunk, Addr

\* A sound buffer without a block is empty, one with a block owns a live one.
LEMMA SoundBounds ==
  ASSUME NEW h, GoodHeap(h), NEW b, Sound(h, b)
  PROVE  /\ b.data \in Block \cup {Null} /\ b.size \in Nat /\ b.cap \in Nat
         /\ b.size <= b.cap /\ b.cap <= MAX_ALLOC_BYTES
         /\ b.data = Null => b.size = 0 /\ b.cap = 0
         /\ b.data # Null => Live(h, b.data) /\ b.cap > 0 /\ b.cap + Slack <= MAX_ALLOC_BYTES
         /\ Slack \in Nat
<1>1. b.data \in Block \cup {Null} /\ b.size \in Nat /\ b.cap \in Nat
  BY SizeAssumption DEF Sound, SoundAs, Header
<1>2. b.data # Null => h[b.data].len \in 0 .. MAX_ALLOC_BYTES
  BY <1>1 DEF GoodHeap, Chunk
<1> QED BY <1>1, <1>2, SizeAssumption, ContainerAssumption DEF Sound, SoundAs, Live

\* Moving or growing the block of a sound buffer keeps it sound.
LEMMA ReallocLocal ==
  ASSUME NEW h, GoodHeap(h), NEW b, Sound(h, b),
         NEW n \in Nat, b.cap < n, NEW len, len = n + Slack, len <= MAX_ALLOC_BYTES,
         NEW p \in Room(h, b.data)
  PROVE  Local(h, b, Outcome("ok", realloc(h, b.data, p, len),
                             [data |-> p, size |-> b.size, cap |-> n], FALSE))
<1> DEFINE g == realloc(h, b.data, p, len)
           c == [data |-> p, size |-> b.size, cap |-> n]
           cells == [a \in Addr |-> IF a < len THEN Load(h, b.data, a) ELSE Undef]
<1>0. len \in 1 .. MAX_ALLOC_BYTES /\ n <= MAX_ALLOC_BYTES /\ b.cap \in Nat
  BY SoundBounds, SizeAssumption, ContainerAssumption
<1>1. p \in Block /\ p # Caller /\ (p = b.data \/ ~ Live(h, p))
  BY SizeAssumption, MemoryAssumption DEF Room, Live, GoodHeap, Sound, SoundAs
<1>2. b \in Header /\ h \in [Block -> Chunk]
  BY DEF Sound, SoundAs, GoodHeap
<1>3. b.data \in Block \cup {Null}
  BY <1>2 DEF Header
<1>4. cells \in [Addr -> Cell]
  BY <1>2, <1>3, LoadType, SizeAssumption DEF Addr, Cell
<1>5. Freed \in Chunk
  BY SizeAssumption DEF Freed, Chunk, Cell
<1>6. free(h, b.data) \in [Block -> Chunk]
  BY <1>2, <1>3, <1>5 DEF free
<1>7. g = [free(h, b.data) EXCEPT ![p] = [len |-> len, cell |-> cells]]
  BY DEF realloc
<1>8. [len |-> len, cell |-> cells] \in Chunk
  BY <1>0, <1>4, SizeAssumption DEF Chunk
<1>9. g \in [Block -> Chunk]
  BY <1>6, <1>7, <1>8, <1>1
<1>10. g[p] = [len |-> len, cell |-> cells]
  BY <1>7, <1>6, <1>1
<1>11. \A q \in Block : q # p /\ q # b.data => g[q] = h[q]
  BY <1>7, <1>6, <1>1, <1>2 DEF free
<1>12. \A q \in Block : q # p /\ q = b.data => g[q] = Freed
  BY <1>7, <1>6, <1>1, <1>2, <1>3, MemoryAssumption DEF free
<1>13. b.data # Caller
  BY MemoryAssumption DEF Sound, SoundAs
<1>14. GoodHeap(g)
  BY <1>9, <1>11, <1>1, <1>13, MemoryAssumption DEF GoodHeap
<1>15. c \in Header /\ c.data = p /\ c.size = b.size /\ c.cap = n
  BY <1>0, <1>1, <1>2, SizeAssumption DEF Header
<1>16. \A a \in Addr : a < b.size => cells[a] # Undef
  <2> SUFFICES ASSUME NEW a \in Addr, a < b.size PROVE cells[a] # Undef
    OBVIOUS
  <2>1. a < len /\ b.cap # 0 /\ a < b.cap + Slack
    BY <1>0, SoundBounds, SizeAssumption DEF Addr
  <2>2. b.data # Null /\ h[b.data].len = b.cap + Slack
    BY <2>1 DEF Sound, SoundAs
  <2>3. cells[a] = h[b.data].cell[a]
    BY <2>1, <2>2 DEF Load
  <2> QED BY <2>2, <2>3 DEF Sound, SoundAs
<1>17. Sound(g, c)
  <2>1. c.size <= c.cap
    BY <1>15, <1>2, SizeAssumption DEF Sound, SoundAs, Header
  <2>2. c.data # Null /\ c.cap # 0
    BY <1>15, <1>0, <1>1, MemoryAssumption
  <2> QED BY <1>1, <1>10, <1>15, <1>16, <2>1, <2>2 DEF Sound, SoundAs
<1>18. \A q \in Block : Live(h, q) /\ q # b.data => g[q] = h[q]
  BY <1>1, <1>11
<1>19. \A q \in Block : Live(g, q) => q = p \/ (Live(h, q) /\ q # b.data)
  BY <1>11, <1>12 DEF Live, Freed
<1> QED BY <1>14, <1>17, <1>18, <1>19, <1>1, <1>15 DEF Local, Outcome

\* The empty buffer is sound in every heap.
LEMMA EmptySound ==
  ASSUME NEW h
  PROVE  Sound(h, Empty) /\ SoundAs(1 - Slack, h, Empty)
BY SizeAssumption DEF Sound, SoundAs, Empty, Header

\* Doing nothing is local.
LEMMA SameLocal ==
  ASSUME NEW h, GoodHeap(h), NEW b, Sound(h, b), NEW code
  PROVE  Local(h, b, Outcome(code, h, b, FALSE))
<1>1. \A p \in Block : Live(h, p) => p = b.data \/ (Live(h, p) /\ p # b.data)
  OBVIOUS
<1> QED BY <1>1 DEF Local, Outcome

\* Two local steps in a row are one.
LEMMA LocalTransitive ==
  ASSUME NEW h, GoodHeap(h), NEW b, Sound(h, b),
         NEW o, Local(h, b, o), NEW u, Local(o.heap, o.buf, u)
  PROVE  Local(h, b, u)
<1>1. \A p \in Block : Live(h, p) /\ p # b.data =>
        o.heap[p] = h[p] /\ Live(o.heap, p) /\ p # o.buf.data
  BY MemoryAssumption DEF Local, Live
<1>2. \A p \in Block : Live(h, p) /\ p # b.data => u.heap[p] = h[p]
  BY <1>1 DEF Local
<1>3. u.buf.data \in Block \cup {Null}
  BY DEF Local, Sound, SoundAs, Header
<1>4. u.buf.data = b.data \/ u.buf.data = Null \/ ~ Live(h, u.buf.data)
  BY <1>1, <1>3 DEF Local
<1>5. \A p \in Block : Live(u.heap, p) => p = u.buf.data \/ (Live(h, p) /\ p # b.data)
  BY DEF Local
<1>6. GoodHeap(u.heap) /\ Sound(u.heap, u.buf) /\ u.bad = FALSE
  BY DEF Local
<1> QED BY <1>2, <1>4, <1>5, <1>6 DEF Local

\* Changing only the size field.
LEMMA SizeField ==
  ASSUME NEW b \in Header, NEW n
  PROVE  [b EXCEPT !.size = n] = [data |-> b.data, size |-> n, cap |-> b.cap]
BY DEF Header

\* Storing written cells in a buffer's own block, and adjusting its size.
LEMMA StoreLocal ==
  ASSUME NEW h, GoodHeap(h), NEW b, Sound(h, b), b.data # Null,
         NEW k \in [Addr -> Cell], NEW m \in Nat, m <= b.cap,
         \A a \in Addr : a < m => k[a] # Undef, NEW code
  PROVE  Local(h, b, Outcome(code, Store(h, b.data, k),
                             [data |-> b.data, size |-> m, cap |-> b.cap], FALSE))
<1> DEFINE g == Store(h, b.data, k)
           c == [data |-> b.data, size |-> m, cap |-> b.cap]
<1>1. b.data \in Block \ {Caller} /\ h[b.data].len = b.cap + Slack /\ h \in [Block -> Chunk]
  BY DEF Sound, SoundAs, GoodHeap
<1>2. h[b.data] \in Chunk
  BY <1>1
<1>3. [h[b.data] EXCEPT !.cell = k] = [len |-> b.cap + Slack, cell |-> k]
  BY <1>1, <1>2 DEF Chunk
<1>4. g = [h EXCEPT ![b.data] = [len |-> b.cap + Slack, cell |-> k]]
  BY <1>3, <1>1 DEF Store
<1>5. [len |-> b.cap + Slack, cell |-> k] \in Chunk
  BY <1>1, <1>2 DEF Chunk
<1>6. g \in [Block -> Chunk] /\ g[b.data] = [len |-> b.cap + Slack, cell |-> k]
  BY <1>1, <1>4, <1>5
<1>7. \A q \in Block : q # b.data => g[q] = h[q]
  BY <1>1, <1>4
<1>8. GoodHeap(g)
  BY <1>1, <1>6, <1>7, MemoryAssumption DEF GoodHeap
<1>9. c \in Header
  BY SoundBounds, SizeAssumption DEF Header
<1>10. Sound(g, c)
  BY <1>1, <1>6, <1>9 DEF Sound, SoundAs
<1>11. \A q \in Block : Live(g, q) => q = b.data \/ (Live(h, q) /\ q # b.data)
  BY <1>7 DEF Live
<1> QED BY <1>7, <1>8, <1>10, <1>11 DEF Local, Outcome

\* Changing only the size, to no more than it was.
LEMMA ShrinkLocal ==
  ASSUME NEW h, GoodHeap(h), NEW b, Sound(h, b), NEW m \in Nat, m <= b.size, NEW code
  PROVE  Local(h, b, Outcome(code, h, [data |-> b.data, size |-> m, cap |-> b.cap], FALSE))
<1> DEFINE c == [data |-> b.data, size |-> m, cap |-> b.cap]
<1>1. c \in Header
  BY SoundBounds, SizeAssumption DEF Header
<1>2. Sound(h, c)
  BY <1>1, SoundBounds DEF Sound, SoundAs, Addr
<1> QED BY <1>2 DEF Local, Outcome

\* memset inside the capacity, from the old size or below it.
LEMMA MemsetLocal ==
  ASSUME NEW h, GoodHeap(h), NEW b, Sound(h, b), b.data # Null,
         NEW to \in Nat, NEW n \in Nat, NEW v \in Byte, NEW m \in Nat, NEW code,
         to <= b.size, m <= b.cap, m <= b.size \/ m <= to + n
  PROVE  Local(h, b, Outcome(code, memset(h, b.data, to, v, n),
                             [data |-> b.data, size |-> m, cap |-> b.cap], FALSE))
<1> DEFINE k == [a \in Addr |-> IF a \in to .. to + n - 1 THEN v ELSE Load(h, b.data, a)]
<1>1. h \in [Block -> Chunk] /\ b.data \in Block \cup {Null} /\ \A a \in Addr : a \in Nat
  BY SoundBounds, SizeAssumption DEF GoodHeap, Addr
<1>2. k \in [Addr -> Cell]
  BY <1>1, LoadType DEF Cell
<1>3. \A a \in Addr : a < m => k[a] # Undef
  <2> SUFFICES ASSUME NEW a \in Addr, a < m, a \notin to .. to + n - 1 PROVE Load(h, b.data, a) # Undef
    BY MemoryAssumption
  <2>1. a \in Nat /\ a < b.size /\ a < b.cap + Slack
    BY <1>1, SoundBounds
  <2> QED BY <2>1 DEF Sound, SoundAs, Load
<1>4. memset(h, b.data, to, v, n) = Store(h, b.data, k)
  BY DEF memset
<1> QED BY <1>2, <1>3, <1>4, StoreLocal

\* A source the caller may read: a live block, and only written bytes.
Written(h, q, off, n) ==
  /\ q \in Block /\ off \in Nat /\ n \in Nat \ {0}
  /\ off + n <= h[q].len
  /\ \A a \in Addr : off <= a /\ a < off + n => h[q].cell[a] # Undef

\* memmove of written bytes into the capacity, from the old size or below it.
LEMMA MemmoveLocal ==
  ASSUME NEW h, GoodHeap(h), NEW b, Sound(h, b), b.data # Null,
         NEW to \in Nat, NEW n, NEW q, NEW off, Written(h, q, off, n), NEW m \in Nat, NEW code,
         to <= b.size, m <= b.cap, m <= b.size \/ m <= to + n
  PROVE  Local(h, b, Outcome(code, memmove(h, b.data, to, q, off, n),
                             [data |-> b.data, size |-> m, cap |-> b.cap], FALSE))
<1> DEFINE k == [a \in Addr |-> IF a \in to .. to + n - 1 THEN Load(h, q, off + (a - to))
                                ELSE Load(h, b.data, a)]
<1>0. /\ q \in Block /\ off \in Nat /\ n \in Nat /\ off + n <= h[q].len
      /\ \A a \in Addr : off <= a /\ a < off + n => h[q].cell[a] # Undef
  BY DEF Written
<1>1. h \in [Block -> Chunk] /\ b.data \in Block \cup {Null} /\ \A a \in Addr : a \in Nat
  BY SoundBounds, SizeAssumption DEF GoodHeap, Addr
<1>2. \A a \in Nat : a \in to .. to + n - 1 => off + (a - to) \in Nat
  BY <1>0
<1>3. k \in [Addr -> Cell]
  BY <1>0, <1>1, <1>2, LoadType
<1>4. \A a \in Addr : a < m => k[a] # Undef
  <2> SUFFICES ASSUME NEW a \in Addr, a < m PROVE k[a] # Undef
    OBVIOUS
  <2>1. CASE a \in to .. to + n - 1
    <3> DEFINE e == off + (a - to)
    <3>1. e \in Nat /\ off <= e /\ e < off + n
      BY <1>0, <1>1, <2>1
    <3>2. h[q].len \in 0 .. MAX_ALLOC_BYTES
      BY <1>0, <1>1 DEF Chunk
    <3>3. e < h[q].len /\ e \in Addr
      BY <1>0, <3>1, <3>2, SizeAssumption DEF Addr
    <3>4. Load(h, q, e) = h[q].cell[e]
      BY <1>0, <3>3, MemoryAssumption DEF Load
    <3> QED BY <1>0, <2>1, <3>1, <3>3, <3>4
  <2>2. CASE a \notin to .. to + n - 1
    <3>1. a \in Nat /\ a < b.size /\ a < b.cap + Slack
      BY <1>0, <1>1, <2>2, SoundBounds
    <3>2. Load(h, b.data, a) # Undef
      BY <3>1 DEF Sound, SoundAs, Load
    <3> QED BY <2>2, <3>2
  <2> QED BY <2>1, <2>2
<1>5. memmove(h, b.data, to, q, off, n) = Store(h, b.data, k)
  BY DEF memmove
<1> QED BY <1>3, <1>4, <1>5, StoreLocal

\* A source is still there, with the same bytes, after a local step on
\* another buffer.
LEMMA WrittenFrame ==
  ASSUME NEW h, GoodHeap(h), NEW b, NEW o, Local(h, b, o),
         NEW q, NEW off, NEW n, Written(h, q, off, n), q # b.data
  PROVE  Written(o.heap, q, off, n) /\ Inside(o.heap, q, off, n)
<1>1. h[q].len \in Nat
  BY SizeAssumption DEF Written, GoodHeap, Chunk
<1>2. Live(h, q)
  BY <1>1 DEF Live, Written
<1>3. o.heap[q] = h[q]
  BY <1>2 DEF Local, Written
<1>4. q # Null
  BY MemoryAssumption DEF Written
<1> QED BY <1>3, <1>4 DEF Written, Inside

\* Loading one of the written cells gives no Undef.
LEMMA WrittenLoad ==
  ASSUME NEW h, GoodHeap(h), NEW q, NEW off, NEW n, Written(h, q, off, n),
         NEW a \in Nat, off <= a, a < off + n
  PROVE  Load(h, q, a) # Undef
<1>1. /\ q \in Block /\ off \in Nat /\ n \in Nat /\ off + n <= h[q].len
      /\ \A e \in Addr : off <= e /\ e < off + n => h[q].cell[e] # Undef
  BY DEF Written
<1>2. h[q].len \in 0 .. MAX_ALLOC_BYTES
  BY <1>1 DEF GoodHeap, Chunk
<1>3. a < h[q].len /\ a \in Addr /\ q # Null
  BY <1>1, <1>2, SizeAssumption, MemoryAssumption DEF Addr
<1> QED BY <1>1, <1>3 DEF Load

\* Freeing what a buffer owns is local, and leaves it empty.
LEMMA FreeLocal ==
  ASSUME NEW h, GoodHeap(h), NEW b, Sound(h, b)
  PROVE  Local(h, b, Outcome("ok", free(h, b.data), Empty, FALSE))
<1> DEFINE g == free(h, b.data)
<1>1. Freed \in Chunk /\ Freed.len = 0 /\ h \in [Block -> Chunk]
  BY SizeAssumption DEF Freed, Chunk, Cell, GoodHeap
<1>2. /\ g \in [Block -> Chunk]
      /\ \A p \in Block : p # b.data => g[p] = h[p]
      /\ b.data \in Block => g[b.data] = Freed
  BY <1>1, MemoryAssumption DEF free
<1>3. b.data # Caller
  BY MemoryAssumption DEF Sound, SoundAs
<1>4. GoodHeap(g)
  BY <1>2, <1>3, MemoryAssumption DEF GoodHeap
<1>5. \A p \in Block : Live(g, p) => Live(h, p) /\ p # b.data
  BY <1>1, <1>2 DEF Live
<1>6. Sound(g, Empty) /\ Empty.data = Null
  BY EmptySound DEF Empty
<1> QED BY <1>2, <1>4, <1>5, <1>6 DEF Local, Outcome

-----------------------------------------------------------------------------
(***************************************************************************)
(* What the memory functions do to each cell.                              *)
(***************************************************************************)

\* Only the cells of block p differ between two heaps.
SameBut(h, g, p) ==
  /\ GoodHeap(g)
  /\ g[p].len = h[p].len
  /\ \A r \in Block : r # p => g[r] = h[r]

\* A store changes the cells of one block, and no other block.
LEMMA StoreCells ==
  ASSUME NEW h, GoodHeap(h), NEW p \in Block \ {Caller}, NEW k \in [Addr -> Cell]
  PROVE  /\ SameBut(h, Store(h, p, k), p)
         /\ \A a \in Nat : a < h[p].len => Load(Store(h, p, k), p, a) = k[a]
         /\ \A a \in Nat : ~(a < h[p].len) => Load(Store(h, p, k), p, a) = Load(h, p, a)
<1> DEFINE g == Store(h, p, k)
<1>1. p # Null /\ h \in [Block -> Chunk] /\ h[p] \in Chunk
  BY MemoryAssumption DEF GoodHeap
<1>2. [h[p] EXCEPT !.cell = k] \in Chunk /\ [h[p] EXCEPT !.cell = k].len = h[p].len
      /\ [h[p] EXCEPT !.cell = k].cell = k
  BY <1>1 DEF Chunk
<1>3. g = [h EXCEPT ![p] = [h[p] EXCEPT !.cell = k]]
  BY <1>1 DEF Store
<1>4. /\ g \in [Block -> Chunk] /\ g[p].len = h[p].len /\ g[p].cell = k
      /\ \A r \in Block : r # p => g[r] = h[r]
  BY <1>1, <1>2, <1>3
<1>5. GoodHeap(g)
  BY <1>4, MemoryAssumption DEF GoodHeap
<1> QED BY <1>1, <1>4, <1>5 DEF SameBut, Load

\* memset of n cells inside a block.
LEMMA MemsetCells ==
  ASSUME NEW h, GoodHeap(h), NEW p \in Block \ {Caller}, NEW to \in Nat, NEW v \in Byte, NEW n \in Nat,
         Inside(h, p, to, n)
  PROVE  /\ SameBut(h, memset(h, p, to, v, n), p)
         /\ \A a \in Nat : a \in to .. to + n - 1 => Load(memset(h, p, to, v, n), p, a) = v
         /\ \A a \in Nat : a \notin to .. to + n - 1 => Load(memset(h, p, to, v, n), p, a) = Load(h, p, a)
<1> DEFINE k == [a \in Addr |-> IF a \in to .. to + n - 1 THEN v ELSE Load(h, p, a)]
<1>1. h \in [Block -> Chunk] /\ h[p].len \in 0 .. MAX_ALLOC_BYTES /\ \A a \in Addr : a \in Nat
  BY SizeAssumption DEF GoodHeap, Chunk, Addr
<1>2. k \in [Addr -> Cell]
  BY <1>1, LoadType DEF Cell
<1>3. memset(h, p, to, v, n) = Store(h, p, k)
  BY DEF memset
<1>4. \A a \in Nat : a < h[p].len => a \in Addr
  BY <1>1, SizeAssumption DEF Addr
<1>5. \A a \in Nat : a \in to .. to + n - 1 => a < h[p].len
  BY <1>1 DEF Inside
<1> DEFINE g == Store(h, p, k)
<1>6. /\ SameBut(h, g, p)
      /\ \A a \in Nat : a < h[p].len => Load(g, p, a) = k[a]
      /\ \A a \in Nat : ~(a < h[p].len) => Load(g, p, a) = Load(h, p, a)
  BY <1>2, StoreCells
<1> HIDE DEF g
<1> QED BY <1>3, <1>4, <1>5, <1>6 DEF g

\* memmove of n cells from one block into another, or within one.
LEMMA MemmoveCells ==
  ASSUME NEW h, GoodHeap(h), NEW p \in Block \ {Caller}, NEW to \in Nat, NEW n \in Nat,
         NEW q \in Block, NEW off \in Nat, Inside(h, p, to, n)
  PROVE  /\ SameBut(h, memmove(h, p, to, q, off, n), p)
         /\ \A a \in Nat : a \in to .. to + n - 1 =>
              Load(memmove(h, p, to, q, off, n), p, a) = Load(h, q, off + (a - to))
         /\ \A a \in Nat : a \notin to .. to + n - 1 =>
              Load(memmove(h, p, to, q, off, n), p, a) = Load(h, p, a)
<1> DEFINE k == [a \in Addr |-> IF a \in to .. to + n - 1 THEN Load(h, q, off + (a - to))
                                ELSE Load(h, p, a)]
<1>1. h \in [Block -> Chunk] /\ h[p].len \in 0 .. MAX_ALLOC_BYTES /\ \A a \in Addr : a \in Nat
  BY SizeAssumption DEF GoodHeap, Chunk, Addr
<1>2. k \in [Addr -> Cell]
  <2>1. \A a \in Nat : a \in to .. to + n - 1 => off + (a - to) \in Nat
    OBVIOUS
  <2> QED BY <1>1, <2>1, LoadType
<1>3. memmove(h, p, to, q, off, n) = Store(h, p, k)
  BY DEF memmove
<1>4. \A a \in Nat : a < h[p].len => a \in Addr
  BY <1>1, SizeAssumption DEF Addr
<1>5. \A a \in Nat : a \in to .. to + n - 1 => a < h[p].len
  BY <1>1 DEF Inside
<1> DEFINE g == Store(h, p, k)
<1>6. /\ SameBut(h, g, p)
      /\ \A a \in Nat : a < h[p].len => Load(g, p, a) = k[a]
      /\ \A a \in Nat : ~(a < h[p].len) => Load(g, p, a) = Load(h, p, a)
  BY <1>2, StoreCells
<1> HIDE DEF g
<1> QED BY <1>3, <1>4, <1>5, <1>6 DEF g

\* realloc keeps every cell that the new block has room for.
LEMMA ReallocCells ==
  ASSUME NEW h, NEW q \in Block \cup {Null}, NEW p \in Block, h \in [Block -> Chunk],
         NEW n \in 0 .. MAX_ALLOC_BYTES
  PROVE  \A a \in Nat : a < n => Load(realloc(h, q, p, n), p, a) = Load(h, q, a)
<1> DEFINE k == [a \in Addr |-> IF a < n THEN Load(h, q, a) ELSE Undef]
<1>1. free(h, q) \in [Block -> Chunk]
  <2>1. Freed \in Chunk
    BY SizeAssumption DEF Freed, Chunk, Cell
  <2> QED BY <2>1 DEF free
<1>2. realloc(h, q, p, n)[p] = [len |-> n, cell |-> k]
  BY <1>1 DEF realloc
<1>3. \A a \in Nat : a < n => a \in Addr
  BY SizeAssumption DEF Addr
<1> QED BY <1>2, <1>3, MemoryAssumption DEF Load

\* An object whose block alone changed, and whose cells below its new size
\* are written, has been worked on locally.
LEMMA WriteLocal ==
  ASSUME NEW h, GoodHeap(h), NEW b, Sound(h, b), b.data # Null, NEW g, SameBut(h, g, b.data),
         NEW m \in Nat, m <= b.cap, \A a \in Nat : a < m => Load(g, b.data, a) # Undef, NEW code
  PROVE  Local(h, b, Outcome(code, g, [data |-> b.data, size |-> m, cap |-> b.cap], FALSE))
<1> DEFINE c == [data |-> b.data, size |-> m, cap |-> b.cap]
<1>1. b.data \in Block \ {Caller} /\ g[b.data].len = b.cap + Slack /\ GoodHeap(g)
      /\ \A r \in Block : r # b.data => g[r] = h[r]
  BY DEF Sound, SoundAs, SameBut
<1>2. c \in Header
  BY SoundBounds, SizeAssumption DEF Header
<1>3. \A a \in Addr : a < m => g[b.data].cell[a] # Undef
  <2> SUFFICES ASSUME NEW a \in Addr, a < m PROVE g[b.data].cell[a] # Undef
    OBVIOUS
  <2>1. a \in Nat /\ a < b.cap + Slack
    BY SoundBounds, SizeAssumption DEF Addr
  <2> QED BY <1>1, <2>1 DEF Load
<1>4. Sound(g, c)
  BY <1>1, <1>2, <1>3 DEF Sound, SoundAs
<1>5. \A q \in Block : Live(g, q) => q = b.data \/ (Live(h, q) /\ q # b.data)
  BY <1>1 DEF Live
<1> QED BY <1>1, <1>4, <1>5 DEF Local, Outcome

\* The cells of a sound object below its size are written.
LEMMA SoundCells ==
  ASSUME NEW h, GoodHeap(h), NEW b, Sound(h, b)
  PROVE  \A a \in Nat : a < b.size => Load(h, b.data, a) # Undef /\ a \in Addr
<1> SUFFICES ASSUME NEW a \in Nat, a < b.size PROVE Load(h, b.data, a) # Undef /\ a \in Addr
  OBVIOUS
<1>1. b.data # Null /\ a < b.cap + Slack /\ a \in Addr
  BY SoundBounds, SizeAssumption DEF Addr
<1> QED BY <1>1 DEF Sound, SoundAs, Load

-----------------------------------------------------------------------------
(***************************************************************************)
(* From one object to the whole program.                                   *)
(***************************************************************************)

\* An object of either kind: its fields agree, its block, if any, is a live one
\* that no other object has, and the bytes below its size are written.
LEMMA AnyObject ==
  ASSUME NEW K, Inv(K), NEW x \in Obj
  PROVE  /\ GoodHeap(heap) /\ obj[x] \in Header
         /\ obj[x].data \in Block \cup {Null} /\ obj[x].size \in Nat /\ obj[x].cap \in Nat
         /\ obj[x].size <= obj[x].cap /\ obj[x].cap <= MAX_ALLOC_BYTES
         /\ obj[x].data = Null => obj[x].size = 0
         /\ obj[x].data # Null =>
              /\ obj[x].data \in Block \ {Caller} /\ Live(heap, obj[x].data)
              /\ obj[x].cap <= heap[obj[x].data].len
              /\ \A y \in Obj : obj[y].data = obj[x].data => y = x
              /\ \A a \in Addr : a < obj[x].size => heap[obj[x].data].cell[a] # Undef
<1>1. PICK b : b = obj[x]
  OBVIOUS
<1>2. PICK n \in {0, 1} : SoundAs(n, heap, b)
  <2>1. Slack \in {0, 1} /\ 1 - Slack \in {0, 1}
    BY ContainerAssumption
  <2> QED BY <1>1, <2>1 DEF Inv, Sound
<1>3. GoodHeap(heap) /\ b \in Header
  BY <1>2 DEF Inv, SoundAs
<1>4. b.data \in Block \cup {Null} /\ b.size \in Nat /\ b.cap \in Nat /\ b.size <= b.cap
  BY <1>2, SizeAssumption DEF SoundAs, Header
<1>5. b.data = Null => b.size = 0 /\ b.cap = 0
  BY <1>2, <1>4 DEF SoundAs
<1>6. ASSUME b.data # Null
      PROVE  /\ b.data \in Block \ {Caller} /\ Live(heap, b.data)
             /\ b.cap <= heap[b.data].len /\ b.cap <= MAX_ALLOC_BYTES
             /\ \A a \in Addr : a < b.size => heap[b.data].cell[a] # Undef
  <2>1. /\ b.data \in Block \ {Caller} /\ heap[b.data].len = b.cap + n /\ b.cap # 0
        /\ \A a \in Addr : a < b.size => heap[b.data].cell[a] # Undef
    BY <1>2, <1>6 DEF SoundAs
  <2>2. heap[b.data].len \in 0 .. MAX_ALLOC_BYTES
    BY <1>3, <2>1 DEF GoodHeap, Chunk
  <2> QED BY <1>4, <2>1, <2>2, SizeAssumption DEF Live
<1>7. b.data # Null => \A y \in Obj : obj[y].data = b.data => y = x
  BY <1>1 DEF Inv
<1>8. b.cap <= MAX_ALLOC_BYTES
  BY <1>5, <1>6, SizeAssumption
<1> QED BY <1>1, <1>3, <1>4, <1>5, <1>6, <1>7, <1>8

\* What another step leaves of an object of the other kind.
LEMMA ForeignFrame ==
  ASSUME NEW n, NEW h, NEW b, SoundAs(n, h, b), NEW g, b.data # Null => g[b.data] = h[b.data]
  PROVE  SoundAs(n, g, b)
BY DEF SoundAs

\* A call that works locally on one object keeps the invariant.
LEMMA AnswerInv ==
  ASSUME NEW K, Inv(K), NEW x \in Obj, x \in K, NEW c, NEW o, Local(heap, obj[x], o), Answer(c, x, o),
         alive' \subseteq Obj, alive \ {x} \subseteq alive', x \notin alive' => o.buf = Empty
  PROVE  Inv(K)'
<1>1. /\ heap' = o.heap /\ obj' = [obj EXCEPT ![x] = o.buf] /\ o.buf \in Header
      /\ obj' \in [Obj -> Header]
      /\ obj'[x] = o.buf
      /\ \A y \in Obj : y # x => obj'[y] = obj[y]
  BY DEF Answer, Inv, Local, Sound, SoundAs
<1>2. fault' = FALSE
  BY DEF Answer, Inv, Local
<1>3. GoodHeap(heap)'
  BY <1>1 DEF Local, GoodHeap
<1>4. ASSUME NEW y \in Obj, y # x, obj[y].data # Null
      PROVE  /\ Live(heap, obj[y].data) /\ obj[y].data \in Block
             /\ obj[y].data # obj[x].data /\ obj[y].data # o.buf.data
             /\ heap'[obj[y].data] = heap[obj[y].data]
  <2>1. Live(heap, obj[y].data) /\ obj[y].data \in Block
    BY <1>4, AnyObject
  <2>2. obj[y].data # obj[x].data
    BY <1>4 DEF Inv
  <2>3. obj[y].data # o.buf.data
    BY <1>4, <2>1, <2>2 DEF Local
  <2>4. heap'[obj[y].data] = heap[obj[y].data]
    BY <1>1, <2>1, <2>2 DEF Local
  <2> QED BY <2>1, <2>2, <2>3, <2>4
<1>5. ASSUME NEW y \in Obj
      PROVE  /\ y \in K => Sound(heap', obj'[y])
             /\ y \notin K => SoundAs(1 - Slack, heap', obj'[y])
  <2>1. CASE y = x
    BY <1>1, <2>1 DEF Local
  <2>2. CASE y # x
    <3>1. obj'[y] = obj[y] /\ (y \in K => Sound(heap, obj[y])) /\ (y \notin K => SoundAs(1 - Slack, heap, obj[y]))
      BY <1>1, <2>2 DEF Inv
    <3>2. obj[y].data # Null => heap'[obj[y].data] = heap[obj[y].data]
      BY <1>4, <2>2
    <3> QED BY <3>1, <3>2, ForeignFrame DEF Sound
  <2> QED BY <2>1, <2>2
<1>6. \A y \in Obj \ alive' : obj'[y] = Empty
  BY <1>1 DEF Inv
<1>7. \A y, z \in Obj : y # z /\ obj'[y].data # Null => obj'[y].data # obj'[z].data
  <2> SUFFICES ASSUME NEW y \in Obj, NEW z \in Obj, y # z, obj'[y].data # Null, obj'[z].data # Null
               PROVE  obj'[y].data # obj'[z].data
    OBVIOUS
  <2>1. CASE y = x
    BY <1>1, <1>4, <2>1
  <2>2. CASE z = x
    BY <1>1, <1>4, <2>2
  <2>3. CASE y # x /\ z # x
    BY <1>1, <2>3 DEF Inv
  <2> QED BY <2>1, <2>2, <2>3
<1>8. \A p \in Block \ {Caller} : Live(heap', p) => \E y \in Obj : obj'[y].data = p
  <2> SUFFICES ASSUME NEW p \in Block \ {Caller}, Live(heap', p)
               PROVE  \E y \in Obj : obj'[y].data = p
    OBVIOUS
  <2>1. p = o.buf.data \/ (Live(heap, p) /\ p # obj[x].data)
    BY <1>1 DEF Local
  <2>2. CASE p = o.buf.data
    BY <1>1, <2>2
  <2>3. CASE Live(heap, p) /\ p # obj[x].data
    <3>1. PICK y \in Obj : obj[y].data = p
      BY <2>3 DEF Inv
    <3> QED BY <1>1, <2>3, <3>1
  <2> QED BY <2>1, <2>2, <2>3
<1> QED BY <1>1, <1>2, <1>3, <1>5, <1>6, <1>7, <1>8 DEF Inv, Live

\* A factory call keeps the invariant.
LEMMA CreatesInv ==
  ASSUME NEW K, Inv(K), NEW x \in Obj, x \in K, NEW c, NEW o, Local(heap, Empty, o),
         o.code # "ok" => o.buf = Empty, Creates(c, x, o)
  PROVE  Inv(K)'
<1>1. obj[x] = Empty
  BY DEF Inv, Creates
<1>2. Local(heap, obj[x], o) /\ Answer(c, x, o)
  BY <1>1 DEF Creates
<1>3. alive' \subseteq Obj /\ alive \ {x} \subseteq alive' /\ (x \notin alive' => o.buf = Empty)
  BY DEF Inv, Creates
<1> QED BY <1>2, <1>3, AnswerInv

\* So does a call on a live object.
LEMMA EndsInv ==
  ASSUME NEW K, Inv(K), NEW x \in Obj, x \in K, x \in alive, NEW c, NEW o, Local(heap, obj[x], o), Ends(c, x, o)
  PROVE  Inv(K)'
<1>1. Answer(c, x, o) /\ alive' = alive
  BY DEF Ends
<1>2. alive' \subseteq Obj /\ alive \ {x} \subseteq alive' /\ x \in alive'
  BY <1>1 DEF Inv
<1> QED BY <1>1, <1>2, AnswerInv

\* And a call that only reads, within bounds.
LEMMA LooksInv ==
  ASSUME NEW K, Inv(K), NEW c, NEW code, NEW val, Looks(c, code, val, FALSE)
  PROVE  Inv(K)'
<1>1. heap' = heap /\ obj' = obj /\ alive' = alive /\ fault' = FALSE
  BY DEF Inv, Looks
<1> QED BY <1>1 DEF Inv, GoodHeap, Sound, SoundAs, Live

\* The bytes of a source that the caller may read are there and written.
LEMMA ReadableWritten ==
  ASSUME NEW K, Inv(K), NEW s \in Source, Readable(s, 0), s.len # 0
  PROVE  /\ Written(heap, target(s), s.off, s.len)
         /\ \A x \in Obj : target(s) = obj[x].data => s.off + s.len <= obj[x].size
<1>1. s.off \in Nat /\ s.len \in Nat \ {0} /\ s.of \in Obj \cup {Caller, Null}
  BY SizeAssumption DEF Source
<1>2. CASE s.of = Caller /\ s.off + s.len <= MAX_ALLOC_BYTES
  <2>1. target(s) = Caller
    BY <1>2, ContainerAssumption, MemoryAssumption DEF target
  <2>2. Written(heap, Caller, s.off, s.len)
    BY <1>1, <1>2, MemoryAssumption, ContainerAssumption DEF Written, Inv, GoodHeap
  <2>3. \A x \in Obj : obj[x].data # Caller
    BY AnyObject, MemoryAssumption
  <2> QED BY <2>1, <2>2, <2>3
<1>3. CASE s.of \in alive /\ s.off + s.len <= obj[s.of].size
  <2> DEFINE b == obj[s.of]
  <2>1. s.of \in Obj /\ target(s) = b.data
    BY <1>3 DEF target, Inv
  <2>2. b.size \in Nat /\ b.cap \in Nat /\ b.size <= b.cap /\ b.cap <= MAX_ALLOC_BYTES
    BY <2>1, AnyObject
  <2>3. b.data # Null
    BY <1>1, <1>3, <2>1, <2>2, AnyObject
  <2>4. /\ b.data \in Block /\ b.cap <= heap[b.data].len /\ heap[b.data].len \in Nat
        /\ \A a \in Addr : a < b.size => heap[b.data].cell[a] # Undef
        /\ \A x \in Obj : b.data = obj[x].data => x = s.of
    <3>1. /\ b.data \in Block /\ b.cap <= heap[b.data].len
          /\ \A a \in Addr : a < b.size => heap[b.data].cell[a] # Undef
      BY <2>1, <2>3, AnyObject
    <3>2. \A x \in Obj : b.data = obj[x].data => x = s.of
      BY <2>1, <2>3 DEF Inv
    <3>3. heap[b.data].len \in Nat
      BY <3>1, SizeAssumption DEF Inv, GoodHeap, Chunk
    <3> QED BY <3>1, <3>2, <3>3
  <2>5. \A a \in Addr : s.off <= a /\ a < s.off + s.len => heap[b.data].cell[a] # Undef
    BY <1>1, <1>3, <2>2, <2>4, SizeAssumption DEF Addr
  <2>6. Written(heap, b.data, s.off, s.len)
    BY <1>1, <1>3, <2>2, <2>4, <2>5 DEF Written
  <2> QED BY <1>3, <2>1, <2>4, <2>6
<1>4. s.of \in alive => obj[s.of].size \in Nat
  BY SizeAssumption DEF Inv, Header
<1> QED BY <1>1, <1>2, <1>3, <1>4 DEF Readable

\* No object, no block but the caller's.
LEMMA InitInv ==
  ASSUME NEW K, Init
  PROVE  Inv(K)
<1>1. Freed \in Chunk /\ Freed.len = 0
  BY SizeAssumption DEF Freed, Chunk, Cell
<1>2. [len |-> MAX_ALLOC_BYTES, cell |-> CallerBytes] \in Chunk
  BY SizeAssumption, ContainerAssumption DEF Chunk, Cell
<1>3. /\ heap \in [Block -> Chunk]
      /\ heap[Caller] = [len |-> MAX_ALLOC_BYTES, cell |-> CallerBytes]
      /\ \A p \in Block \ {Caller} : heap[p] = Freed
  BY <1>1, <1>2, MemoryAssumption DEF Init
<1>4. /\ \A x \in Obj : obj[x] = Empty
      /\ obj \in [Obj -> Header]
  BY SizeAssumption DEF Init, Empty, Header
<1>5. \A x \in Obj : Sound(heap, obj[x]) /\ SoundAs(1 - Slack, heap, obj[x]) /\ obj[x].data = Null
  BY <1>4, EmptySound DEF Empty
<1>6. alive \subseteq Obj /\ fault = FALSE
  BY DEF Init
<1>7. \A p \in Block \ {Caller} : ~ Live(heap, p)
  BY <1>1, <1>3 DEF Live
<1> QED BY <1>3, <1>4, <1>5, <1>6, <1>7 DEF Inv, GoodHeap

\* Handing y's block over to x, after x's own has been freed.
LEMMA MoveInv ==
  ASSUME NEW K, Inv(K), NEW x \in Obj, NEW y \in Obj, x \in K, y \in K, x # y, y \in alive,
         heap' = free(heap, obj[x].data), obj' = [obj EXCEPT ![x] = obj[y], ![y] = Empty],
         alive' = alive \cup {x}, fault' = fault
  PROVE  Inv(K)'
<1> DEFINE o == Outcome("ok", free(heap, obj[x].data), Empty, FALSE)
<1>1. Local(heap, obj[x], o)
  BY FreeLocal DEF Inv
<1>2. /\ GoodHeap(heap') /\ heap' = o.heap
      /\ \A p \in Block : Live(heap, p) /\ p # obj[x].data => heap'[p] = heap[p]
      /\ \A p \in Block : Live(heap', p) => Live(heap, p) /\ p # obj[x].data
  <2>1. \A p \in Block : p # Null
    BY MemoryAssumption
  <2> QED BY <1>1, <2>1 DEF Local, Outcome, Empty
<1>3. /\ obj' \in [Obj -> Header] /\ obj'[x] = obj[y] /\ obj'[y] = Empty
      /\ \A z \in Obj \ {x, y} : obj'[z] = obj[z]
  BY SizeAssumption DEF Inv, Empty, Header
<1>4. ASSUME NEW z \in Obj, z # x
      PROVE  /\ z \in K => Sound(heap', obj[z])
             /\ z \notin K => SoundAs(1 - Slack, heap', obj[z])
  <2>1. (z \in K => Sound(heap, obj[z])) /\ (z \notin K => SoundAs(1 - Slack, heap, obj[z]))
    BY DEF Inv
  <2>2. obj[z].data # Null =>
          Live(heap, obj[z].data) /\ obj[z].data \in Block /\ obj[z].data # obj[x].data
    BY <1>4, AnyObject
  <2>3. obj[z].data # Null => heap'[obj[z].data] = heap[obj[z].data]
    BY <1>2, <2>2
  <2> QED BY <2>1, <2>3, ForeignFrame DEF Sound
<1>5. \A z \in Obj : /\ z \in K => Sound(heap', obj'[z])
                     /\ z \notin K => SoundAs(1 - Slack, heap', obj'[z])
  BY <1>3, <1>4, EmptySound
<1>6. \A z \in Obj \ alive' : obj'[z] = Empty
  BY <1>3 DEF Inv
<1>7. \A z, w \in Obj : z # w /\ obj'[z].data # Null => obj'[z].data # obj'[w].data
  BY <1>3 DEF Inv, Empty
<1>8. \A p \in Block \ {Caller} : Live(heap', p) => \E z \in Obj : obj'[z].data = p
  <2> SUFFICES ASSUME NEW p \in Block \ {Caller}, Live(heap', p)
               PROVE  \E z \in Obj : obj'[z].data = p
    OBVIOUS
  <2>1. PICK z \in Obj : obj[z].data = p /\ z # x
    BY <1>2 DEF Inv
  <2> QED BY <1>3, <2>1
<1>9. alive' \subseteq Obj /\ fault' = FALSE
  BY DEF Inv
<1>10. (\A p \in Block \ {Caller} : Live(heap, p) => \E z \in Obj : obj[z].data = p)'
  BY <1>8 DEF Live
<1>11. (\A z, w \in Obj : z # w /\ obj[z].data # Null => obj[z].data # obj[w].data)'
  BY <1>7
<1>12. fault' = FALSE /\ GoodHeap(heap)'
  BY <1>2, <1>9 DEF Inv, GoodHeap
<1>13. \A z \in Obj \cap K : Sound(heap', obj'[z])
  BY <1>5
<1>14. \A z \in Obj \ K : SoundAs(1 - Slack, heap', obj'[z])
  BY <1>5
<1> QED BY <1>3, <1>6, <1>9, <1>10, <1>11, <1>12, <1>13, <1>14 DEF Inv

\* Construction, destruction and moves keep the invariant.
LEMMA LifetimeInv ==
  ASSUME NEW K, Inv(K), NEW x \in Obj, NEW y \in Obj, x \in K, y \in K,
         Construct(x) \/ Destroy(x) \/ MoveConstruct(x, y) \/ MoveAssign(x, y)
  PROVE  Inv(K)'
<1>1. ASSUME Construct(x) PROVE Inv(K)'
  <2>1. heap' = heap /\ obj' = obj /\ alive' = alive \cup {x} /\ fault' = fault
    BY <1>1 DEF Construct
  <2> QED BY <2>1 DEF Inv, GoodHeap, Sound, SoundAs, Live
<1>2. ASSUME Destroy(x) PROVE Inv(K)'
  <2> DEFINE o == Outcome("ok", free(heap, obj[x].data), Empty, FALSE)
  <2>1. Local(heap, obj[x], o) /\ o.buf = Empty
    BY FreeLocal DEF Inv, Outcome
  <2>2. Answer(<<"destroy", x>>, x, o) /\ alive' = alive \ {x}
    BY <1>2 DEF Destroy
  <2>3. alive' \subseteq Obj /\ alive \ {x} \subseteq alive'
    BY <2>2 DEF Inv
  <2> HIDE DEF o
  <2> QED BY <2>1, <2>2, <2>3, AnswerInv
<1>3. ASSUME MoveConstruct(x, y) PROVE Inv(K)'
  <2>1. x # y /\ y \in alive /\ alive' = alive \cup {x} /\ fault' = fault
        /\ obj' = [obj EXCEPT ![x] = obj[y], ![y] = Empty] /\ heap' = heap
    BY <1>3 DEF MoveConstruct
  <2>2. free(heap, obj[x].data) = heap
    BY <1>3 DEF MoveConstruct, Inv, Empty, free
  <2> QED BY <2>1, <2>2, MoveInv
<1>4. ASSUME MoveAssign(x, y) PROVE Inv(K)'
  <2>1. CASE x = y
    BY <1>4, <2>1, LooksInv DEF MoveAssign
  <2>2. CASE x # y
    <3>1. y \in alive /\ alive' = alive \cup {x} /\ fault' = fault
          /\ obj' = [obj EXCEPT ![x] = obj[y], ![y] = Empty] /\ heap' = free(heap, obj[x].data)
      BY <1>4, <2>2 DEF MoveAssign
    <3> QED BY <2>2, <3>1, MoveInv
  <2> QED BY <2>1, <2>2
<1> QED BY <1>1, <1>2, <1>3, <1>4

-----------------------------------------------------------------------------
(***************************************************************************)
(* What the objects hold: Contents, for one object and for all of them.    *)
(***************************************************************************)

\* The bytes that header b holds in heap h.
Bytes(h, b) == [i \in 1 .. b.size |-> Load(h, b.data, i - 1)]

\* The bytes of every object.
Held == [x \in Obj |-> Contents(x)]

\* An object's contents are a sequence of bytes as long as its size.
LEMMA HeldBytes ==
  ASSUME NEW K, Inv(K), NEW x \in Obj
  PROVE  /\ Held[x] = Bytes(heap, obj[x]) /\ Held[x] = Contents(x)
         /\ Held[x] \in Seq(Cell) /\ Len(Held[x]) = obj[x].size /\ obj[x].size \in Nat
         /\ \A i \in 1 .. obj[x].size : Held[x][i] = Load(heap, obj[x].data, i - 1)
<1>2. obj[x].size \in Nat /\ obj[x].data \in Block \cup {Null} /\ heap \in [Block -> Chunk]
  BY AnyObject DEF GoodHeap
<1>3. Held[x] = Bytes(heap, obj[x]) /\ Held[x] = Contents(x)
  BY DEF Held, Contents, Bytes
<1> DEFINE n == obj[x].size
<1>4. ASSUME NEW i \in 1 .. n PROVE Load(heap, obj[x].data, i - 1) \in Cell
  <2>1. PICK a \in Nat : a = i - 1
    BY <1>2
  <2> QED BY <1>2, <2>1, LoadType
<1> QED BY <1>2, <1>3, <1>4 DEF Bytes

\* A call that works locally on x leaves the other objects and their bytes alone.
LEMMA AnswerFrame ==
  ASSUME NEW K, Inv(K), NEW x \in Obj, NEW c, NEW o, Local(heap, obj[x], o), Answer(c, x, o)
  PROVE  /\ heap' = o.heap /\ obj'[x] = o.buf
         /\ \A y \in Obj : y # x =>
              obj'[y] = obj[y] /\ \A a : Load(heap', obj'[y].data, a) = Load(heap, obj[y].data, a)
<1>1. /\ heap' = o.heap /\ obj'[x] = o.buf
      /\ \A y \in Obj : y # x => obj'[y] = obj[y]
  BY DEF Answer, Inv
<1>2. ASSUME NEW y \in Obj, y # x, NEW a PROVE Load(heap', obj'[y].data, a) = Load(heap, obj[y].data, a)
  <2>1. obj[y].data # Null => heap'[obj[y].data] = heap[obj[y].data]
    <3> SUFFICES ASSUME obj[y].data # Null PROVE heap'[obj[y].data] = heap[obj[y].data]
      OBVIOUS
    <3>1. Live(heap, obj[y].data) /\ obj[y].data \in Block
      BY AnyObject
    <3>2. obj[y].data # obj[x].data
      BY <1>2 DEF Inv
    <3> QED BY <1>1, <3>1, <3>2 DEF Local
  <2>2. obj'[y] = obj[y]
    BY <1>1, <1>2
  <2> QED BY <2>1, <2>2 DEF Load
<1> QED BY <1>1, <1>2

\* It changes the bytes of x alone.
LEMMA AnswerHeld ==
  ASSUME NEW K, Inv(K), NEW x \in Obj, NEW c, NEW o, Local(heap, obj[x], o), Answer(c, x, o)
  PROVE  Held' = [Held EXCEPT ![x] = Bytes(o.heap, o.buf)]
<1>1. /\ heap' = o.heap /\ obj'[x] = o.buf
      /\ \A y \in Obj : y # x =>
           obj'[y] = obj[y] /\ \A a : Load(heap', obj'[y].data, a) = Load(heap, obj[y].data, a)
  BY AnswerFrame
<1>2. ASSUME NEW y \in Obj, y # x PROVE Contents(y)' = Contents(y)
  <2>1. obj'[y] = obj[y] /\ \A a : Load(heap', obj'[y].data, a) = Load(heap, obj[y].data, a)
    BY <1>1, <1>2
  <2> QED BY <2>1 DEF Contents
<1>3. Contents(x)' = Bytes(o.heap, o.buf)
  BY <1>1 DEF Contents, Bytes
<1> QED BY <1>2, <1>3 DEF Held

\* The empty object holds nothing.
LEMMA EmptyBytes ==
  ASSUME NEW h, NEW b, b.size = 0
  PROVE  Bytes(h, b) = <<>>
<1>1. Bytes(h, b) \in Seq(Cell) /\ Len(Bytes(h, b)) = 0
  BY DEF Bytes
<1> QED BY <1>1

\* Heap and headers determine what is held.
LEMMA UnchangedHeld ==
  ASSUME heap' = heap, obj' = obj
  PROVE  Held' = Held
<1>1. \A x \in Obj : Contents(x)' = Contents(x)
  BY DEF Contents, Load
<1> QED BY <1>1 DEF Held

\* After a move, the bytes are where they were.
LEMMA MoveFrame ==
  ASSUME NEW K, Inv(K), NEW x \in Obj, NEW y \in Obj, x # y,
         heap' = free(heap, obj[x].data), obj' = [obj EXCEPT ![x] = obj[y], ![y] = Empty]
  PROVE  /\ obj'[x] = obj[y] /\ obj'[y] = Empty
         /\ \A z \in Obj \ {x, y} : obj'[z] = obj[z]
         /\ \A z \in Obj \ {x} : \A a : Load(heap', obj[z].data, a) = Load(heap, obj[z].data, a)
<1>1. ASSUME NEW z \in Obj, z # x, NEW a PROVE Load(heap', obj[z].data, a) = Load(heap, obj[z].data, a)
  <2>1. obj[z].data # Null => obj[z].data # obj[x].data /\ obj[z].data \in Block
    BY <1>1, AnyObject
  <2>2. obj[z].data # Null => heap'[obj[z].data] = heap[obj[z].data]
    BY <2>1 DEF free, Inv, GoodHeap
  <2> QED BY <2>2 DEF Load
<1>2. /\ obj'[x] = obj[y] /\ obj'[y] = Empty
      /\ \A z \in Obj \ {x, y} : obj'[z] = obj[z]
  BY DEF Inv
<1> QED BY <1>1, <1>2

\* Handing y's block to x hands over its bytes.
LEMMA MoveHeld ==
  ASSUME NEW K, Inv(K), NEW x \in Obj, NEW y \in Obj, x # y,
         heap' = free(heap, obj[x].data), obj' = [obj EXCEPT ![x] = obj[y], ![y] = Empty]
  PROVE  Held' = [Held EXCEPT ![x] = Held[y], ![y] = <<>>]
<1>2. /\ obj'[x] = obj[y] /\ obj'[y] = Empty
      /\ \A z \in Obj \ {x, y} : obj'[z] = obj[z]
  BY MoveFrame
<1>3. \A z \in Obj \ {x} : \A a : Load(heap', obj[z].data, a) = Load(heap, obj[z].data, a)
  BY MoveFrame
<1>4. Contents(x)' = Contents(y)
  <2>1. \A a : Load(heap', obj'[x].data, a) = Load(heap, obj[y].data, a)
    BY <1>2, <1>3
  <2> QED BY <1>2, <2>1 DEF Contents
<1>5. Contents(y)' = <<>>
  <2>1. Contents(y)' = Bytes(heap', obj'[y])
    BY DEF Contents, Bytes
  <2>2. obj'[y].size = 0
    BY <1>2 DEF Empty
  <2> QED BY <2>1, <2>2, EmptyBytes
<1>6. ASSUME NEW z \in Obj \ {x, y} PROVE Contents(z)' = Contents(z)
  <2>1. \A a : Load(heap', obj'[z].data, a) = Load(heap, obj[z].data, a)
    BY <1>2, <1>3
  <2> QED BY <1>2, <2>1 DEF Contents
<1> QED BY <1>4, <1>5, <1>6 DEF Held

\* The sequence w is p followed by r.
LEMMA ConcatIs ==
  ASSUME NEW S, NEW p \in Seq(S), NEW r \in Seq(S), NEW w \in Seq(S),
         Len(w) = Len(p) + Len(r),
         \A i \in 1 .. Len(p) : w[i] = p[i],
         \A i \in 1 .. Len(r) : w[Len(p) + i] = r[i]
  PROVE  w = p \o r
<1>1. p \o r \in Seq(S) /\ Len(p \o r) = Len(w)
  BY ConcatProperties
<1>2. ASSUME NEW i \in 1 .. Len(w) PROVE w[i] = (p \o r)[i]
  <2>1. CASE i <= Len(p)
    BY <2>1, ConcatProperties
  <2>2. CASE i > Len(p)
    <3>1. PICK j \in 1 .. Len(r) : i = Len(p) + j
      <4>1. i - Len(p) \in 1 .. Len(r) /\ i = Len(p) + (i - Len(p))
        BY <2>2
      <4> QED BY <4>1
    <3>2. (p \o r)[i] = r[j]
      BY <2>2, <3>1, ConcatProperties
    <3> QED BY <3>1, <3>2
  <2> QED BY <2>1, <2>2
<1> QED BY <1>1, <1>2, SeqEqual

\* A function on 1 .. n is a sequence of length n.
LEMMA FunSeq ==
  ASSUME NEW S, NEW n \in Nat, NEW q \in [1 .. n -> S]
  PROVE  q \in Seq(S) /\ Len(q) = n
<1>1. q \in Seq(S)
  BY SeqDef
<1>2. DOMAIN q = 1 .. Len(q) /\ DOMAIN q = 1 .. n /\ Len(q) \in Nat
  BY <1>1
<1> QED BY <1>1, <1>2

\* A header whose cells are the elements of q holds q.
LEMMA BytesAre ==
  ASSUME NEW h, NEW b, b.size \in Nat, NEW S, NEW q \in Seq(S), Len(q) = b.size,
         \A i \in 1 .. b.size : Load(h, b.data, i - 1) = q[i]
  PROVE  Bytes(h, b) = q
<1>1. \A i \in 1 .. b.size : q[i] \in S
  OBVIOUS
<1>2. PICK w : w = Bytes(h, b)
  OBVIOUS
<1>3. w \in Seq(S) /\ Len(w) = b.size /\ \A i \in 1 .. b.size : w[i] = q[i]
  BY <1>1, <1>2 DEF Bytes
<1> QED BY <1>2, <1>3, SeqEqual

\* Headers with the same size and the same cells hold the same.
LEMMA SameBytes ==
  ASSUME NEW h, NEW b, NEW g, NEW c, b.size \in Nat, c.size = b.size,
         \A a \in Nat : a < b.size => Load(g, c.data, a) = Load(h, b.data, a)
  PROVE  Bytes(g, c) = Bytes(h, b)
<1>1. ASSUME NEW i \in 1 .. b.size PROVE Load(g, c.data, i - 1) = Load(h, b.data, i - 1)
  <2>1. PICK a \in Nat : a = i - 1 /\ a < b.size
    OBVIOUS
  <2> QED BY <2>1
<1> QED BY <1>1 DEF Bytes

\* An object that kept its cells and got those of w after them holds both.
LEMMA ConcatCells ==
  ASSUME NEW K, Inv(K), NEW x \in Obj, NEW h, NEW b, NEW w \in Seq(Cell), b.size = obj[x].size + Len(w),
         \A a \in Nat : a < obj[x].size => Load(h, b.data, a) = Load(heap, obj[x].data, a),
         \A a, i \in Nat : i < Len(w) /\ a = obj[x].size + i => Load(h, b.data, a) = w[i + 1]
  PROVE  Bytes(h, b) = Held[x] \o w
<1>1. PICK n \in Nat : n = obj[x].size
  BY HeldBytes
<1>2. PICK p \in Seq(Cell) : p = Held[x] /\ Len(p) = n
  BY <1>1, HeldBytes
<1>3. PICK m \in Nat : m = Len(w)
  OBVIOUS
<1>4. \A i \in 1 .. n : p[i] = Load(heap, obj[x].data, i - 1)
  BY <1>1, <1>2, HeldBytes
<1>5. PICK z : z = p \o w
  OBVIOUS
<1>6. /\ z \in Seq(Cell) /\ Len(z) = n + m
      /\ \A i \in 1 .. n + m : z[i] = IF i <= n THEN p[i] ELSE w[i - n]
  BY <1>2, <1>3, <1>5, ConcatProperties
<1>7. ASSUME NEW i \in 1 .. b.size PROVE Load(h, b.data, i - 1) = z[i]
  <2>0. i \in 1 .. n + m
    BY <1>1, <1>3
  <2>1. PICK a \in Nat : a = i - 1
    BY <2>0
  <2>2. CASE i <= n
    <3>1. a < n
      BY <2>1, <2>2
    <3>2. Load(h, b.data, a) = Load(heap, obj[x].data, a)
      BY <1>1, <3>1
    <3> QED BY <1>4, <1>6, <2>0, <2>1, <2>2, <3>2
  <2>3. CASE ~(i <= n)
    <3>1. PICK j \in Nat : j = a - n
      BY <2>1, <2>3
    <3>2. j < m /\ a = n + j /\ j + 1 = i - n
      BY <2>0, <2>1, <3>1
    <3>3. Load(h, b.data, a) = w[j + 1]
      BY <1>1, <1>3, <3>2
    <3> QED BY <1>6, <2>0, <2>1, <2>3, <3>2, <3>3
  <2> QED BY <2>2, <2>3
<1>8. b.size \in Nat /\ Len(z) = b.size
  BY <1>1, <1>3, <1>6
<1>9. Bytes(h, b) = z
  BY <1>6, <1>7, <1>8, BytesAre
<1> QED BY <1>2, <1>5, <1>9

\* The bytes that a source the caller may read stands for are in memory
\* where the source points.
LEMMA SourceCells ==
  ASSUME NEW K, Inv(K), NEW s \in Source, Readable(s, 0), s.len # 0,
         NEW w, w = (IF s.of = Caller THEN [i \in 1 .. s.len |-> CallerBytes[s.off + i - 1]]
                     ELSE [i \in 1 .. s.len |-> Held[s.of][s.off + i]])
  PROVE  /\ w \in Seq(Cell) /\ Len(w) = s.len /\ s.of # Null
         /\ \A i, e \in Nat : i < s.len /\ e = s.off + i => w[i + 1] = Load(heap, target(s), e)
<1>1. s.off \in Nat /\ s.len \in Nat \ {0}
  BY SizeAssumption DEF Source
<1>2. CASE s.of = Caller
  <2>1. target(s) = Caller /\ s.off + s.len <= MAX_ALLOC_BYTES
    BY <1>2, ContainerAssumption, MemoryAssumption DEF target, Readable, Inv
  <2>2. heap[Caller] = [len |-> MAX_ALLOC_BYTES, cell |-> CallerBytes]
    BY DEF Inv, GoodHeap
  <2>3. Caller # Null
    BY MemoryAssumption
  <2>4. ASSUME NEW e \in Nat, e < s.off + s.len
        PROVE  Load(heap, Caller, e) = CallerBytes[e] /\ CallerBytes[e] \in Cell
    <3>1. e < MAX_ALLOC_BYTES /\ e \in Addr
      BY <1>1, <2>1, <2>4, SizeAssumption DEF Addr
    <3> QED BY <2>2, <2>3, <3>1, ContainerAssumption DEF Load, Cell
  <2>5. w = [i \in 1 .. s.len |-> CallerBytes[s.off + i - 1]]
    BY <1>2
  <2>6. ASSUME NEW i \in Nat, NEW e \in Nat, i < s.len, e = s.off + i
        PROVE  w[i + 1] = Load(heap, Caller, e)
    <3>1. PICK j : j = i + 1
      OBVIOUS
    <3>2. j \in 1 .. s.len /\ s.off + j - 1 = e /\ e < s.off + s.len
      BY <1>1, <2>6, <3>1
    <3>3. w[j] = CallerBytes[e]
      BY <2>5, <3>2
    <3> QED BY <2>4, <2>6, <3>1, <3>2, <3>3
  <2>7. ASSUME NEW i \in 1 .. s.len PROVE CallerBytes[s.off + i - 1] \in Cell
    <3>1. PICK e : e = s.off + i - 1
      OBVIOUS
    <3>2. e \in Nat /\ e < s.off + s.len
      BY <1>1, <3>1
    <3>3. CallerBytes[e] \in Cell
      BY <2>4, <3>2
    <3> QED BY <3>1, <3>3
  <2>8. w \in Seq(Cell) /\ Len(w) = s.len
    <3>1. PICK n \in Nat : n = s.len
      BY <1>1
    <3>2. w = [i \in 1 .. n |-> CallerBytes[s.off + i - 1]] /\ \A i \in 1 .. n : CallerBytes[s.off + i - 1] \in Cell
      BY <2>5, <2>7, <3>1
    <3>3. w \in [1 .. n -> Cell]
      BY <3>2
    <3>4. w \in Seq(Cell) /\ Len(w) = n
      BY <3>3, FunSeq, Zenon
    <3> QED BY <3>1, <3>4
  <2> QED BY <1>2, <2>1, <2>3, <2>6, <2>8
<1>3. CASE s.of # Caller
  <2>1. s.of \in alive /\ s.of \in Obj
    BY <1>3 DEF Readable, Inv
  <2>2. PICK y \in Obj : y = s.of
    BY <2>1
  <2>3. /\ Held[y] \in Seq(Cell) /\ Len(Held[y]) = obj[y].size /\ obj[y].size \in Nat
        /\ \A i \in 1 .. obj[y].size : Held[y][i] = Load(heap, obj[y].data, i - 1)
    BY HeldBytes
  <2>4. s.off + s.len <= obj[y].size /\ target(s) = obj[y].data
    BY <1>1, <1>3, <2>1, <2>2, <2>3 DEF Readable, target
  <2>5. w = [i \in 1 .. s.len |-> Held[y][s.off + i]]
    BY <1>3, <2>2
  <2>6. PICK u : u = Held[y]
    OBVIOUS
  <2>7. ASSUME NEW i \in 1 .. s.len PROVE u[s.off + i] \in Cell
    <3>1. s.off + i \in 1 .. obj[y].size
      BY <1>1, <2>3, <2>4
    <3> QED BY <2>3, <2>6, <3>1
  <2>8. w \in Seq(Cell) /\ Len(w) = s.len
    <3>1. PICK n \in Nat : n = s.len
      BY <1>1
    <3>2. w = [i \in 1 .. n |-> u[s.off + i]] /\ \A i \in 1 .. n : u[s.off + i] \in Cell
      BY <2>5, <2>6, <2>7, <3>1
    <3>3. w \in [1 .. n -> Cell]
      BY <3>2
    <3>4. w \in Seq(Cell) /\ Len(w) = n
      BY <3>3, FunSeq, Zenon
    <3> QED BY <3>1, <3>4
  <2>9. ASSUME NEW i \in Nat, NEW e \in Nat, i < s.len, e = s.off + i
        PROVE  w[i + 1] = Load(heap, obj[y].data, e)
    <3>1. PICK j : j = s.off + (i + 1)
      OBVIOUS
    <3>2. i + 1 \in 1 .. s.len /\ j \in 1 .. obj[y].size /\ j - 1 = e
      BY <1>1, <2>3, <2>4, <2>9, <3>1
    <3>3. w[i + 1] = Held[y][j]
      BY <2>5, <3>1, <3>2
    <3> QED BY <2>3, <3>2, <3>3
  <2>10. s.of # Null
    BY <2>1, ContainerAssumption
  <2> QED BY <2>4, <2>8, <2>9, <2>10
<1> QED BY <1>2, <1>3

-----------------------------------------------------------------------------
(***************************************************************************)
(* What a call does, in terms of what the objects hold: the form in which  *)
(* the abstract specifications state it.                                   *)
(***************************************************************************)

\* x holds q afterwards, or the call is refused with one of the codes.
Turns(x, q, codes) ==
  \/ /\ "ok" \in codes
     /\ ret' = [code |-> "ok", val |-> <<>>]
     /\ Held' = [Held EXCEPT ![x] = q]
     /\ alive' = alive \cup {x}
  \/ /\ ret'.code \in codes \ {"ok"}
     /\ ret'.val = <<>>
     /\ Held' = Held /\ alive' = alive

\* The call hands out v, or is refused with one of the codes.
Tells(v, codes) ==
  \/ "ok" \in codes /\ ret' = [code |-> "ok", val |-> v] /\ Held' = Held /\ alive' = alive
  \/ /\ ret'.code \in codes \ {"ok"}
     /\ ret'.val = <<>>
     /\ Held' = Held /\ alive' = alive

\* Outcome o, of work on header b, is sound, leaves q if it is a success and
\* everything alone if it is not.
Leaves(b, q, codes, o) ==
  /\ Local(heap, b, o)
  /\ o.code \in codes
  /\ o.code = "ok" => Bytes(o.heap, o.buf) = q
  /\ o.code # "ok" => o.heap = heap /\ o.buf = b

\* A call on a live object that ends so.
LEMMA EndsTurns ==
  ASSUME NEW K, Inv(K), NEW x \in Obj, x \in K, x \in alive, NEW c, NEW o, Ends(c, x, o),
         NEW q, NEW codes, Leaves(obj[x], q, codes, o)
  PROVE  Inv(K)' /\ call' = c /\ Turns(x, q, codes) /\ obj' = [obj EXCEPT ![x] = o.buf]
         /\ ret'.code = o.code
<1>1. Local(heap, obj[x], o) /\ o.code \in codes
  BY DEF Leaves
<1>2. Inv(K)'
  BY <1>1, EndsInv
<1>3. Answer(c, x, o) /\ alive' = alive
  BY DEF Ends
<1>4. heap' = o.heap /\ obj' = [obj EXCEPT ![x] = o.buf] /\ call' = c
      /\ ret' = [code |-> o.code, val |-> <<>>]
  BY <1>3 DEF Answer, Returns
<1>5. Held' = [Held EXCEPT ![x] = Bytes(o.heap, o.buf)]
  BY <1>1, <1>3, AnswerHeld
<1>6. CASE o.code = "ok"
  <2>1. Held' = [Held EXCEPT ![x] = q]
    BY <1>5, <1>6 DEF Leaves
  <2>2. alive' = alive \cup {x}
    BY <1>3
  <2> QED BY <1>1, <1>2, <1>4, <1>6, <2>1, <2>2 DEF Turns
<1>7. CASE o.code # "ok"
  <2>1. heap' = heap /\ obj' = obj
    <3>1. obj = [obj EXCEPT ![x] = obj[x]]
      BY DEF Inv
    <3> QED BY <1>4, <1>7, <3>1 DEF Leaves
  <2>2. Held' = Held
    BY <2>1, UnchangedHeld
  <2> QED BY <1>1, <1>2, <1>3, <1>4, <1>7, <2>2 DEF Turns
<1> QED BY <1>6, <1>7

\* A factory call that ends so.
LEMMA CreatesTurns ==
  ASSUME NEW K, Inv(K), NEW x \in Obj, x \in K, NEW c, NEW o, Creates(c, x, o),
         NEW q, NEW codes, Leaves(Empty, q, codes, o)
  PROVE  Inv(K)' /\ call' = c /\ Turns(x, q, codes) /\ obj' = [obj EXCEPT ![x] = o.buf]
<1>1. Local(heap, Empty, o) /\ o.code \in codes /\ (o.code # "ok" => o.buf = Empty)
  BY DEF Leaves
<1>2. Inv(K)'
  BY <1>1, CreatesInv
<1>3. Answer(c, x, o) /\ alive' = (IF o.code = "ok" THEN alive \cup {x} ELSE alive) /\ obj[x] = Empty
  BY DEF Creates, Inv
<1>4. heap' = o.heap /\ obj' = [obj EXCEPT ![x] = o.buf] /\ call' = c
      /\ ret' = [code |-> o.code, val |-> <<>>]
  BY <1>3 DEF Answer, Returns
<1>5. Held' = [Held EXCEPT ![x] = Bytes(o.heap, o.buf)]
  BY <1>1, <1>3, AnswerHeld
<1>6. CASE o.code = "ok"
  <2>1. Held' = [Held EXCEPT ![x] = q]
    BY <1>5, <1>6 DEF Leaves
  <2> QED BY <1>1, <1>2, <1>3, <1>4, <1>6, <2>1 DEF Turns
<1>7. CASE o.code # "ok"
  <2>1. heap' = heap /\ obj' = obj
    <3>1. obj = [obj EXCEPT ![x] = obj[x]]
      BY DEF Inv
    <3> QED BY <1>3, <1>4, <1>7, <3>1 DEF Leaves
  <2>2. Held' = Held
    BY <2>1, UnchangedHeld
  <2> QED BY <1>1, <1>2, <1>3, <1>4, <1>7, <2>2 DEF Turns
<1> QED BY <1>6, <1>7

\* A call that only reads, within bounds.
LEMMA LooksTells ==
  ASSUME NEW K, Inv(K), NEW c, NEW code, NEW val, Looks(c, code, val, FALSE), NEW v, NEW codes, code \in codes,
         code = "ok" => val = v, code # "ok" => val = <<>>
  PROVE  Inv(K)' /\ call' = c /\ Tells(v, codes) /\ obj' = obj
<1>1. Inv(K)'
  BY LooksInv
<1>2. heap' = heap /\ obj' = obj /\ alive' = alive /\ call' = c /\ ret' = [code |-> code, val |-> val]
  BY DEF Looks, Returns
<1>3. Held' = Held
  BY <1>2, UnchangedHeld
<1> QED BY <1>1, <1>2, <1>3 DEF Tells

\* A container that a factory call made and freed again, because nobody could
\* take it: nothing has happened.
LEMMA DroppedStep ==
  ASSUME NEW K, Inv(K), NEW x \in Obj, x \in K, NEW c, NEW u, Local(heap, Empty, u),
         Creates(c, x, Outcome("out_of_memory", free(u.heap, u.buf.data), Empty, u.bad))
  PROVE  /\ Inv(K)' /\ Held' = Held /\ alive' = alive /\ x \notin alive
         /\ call' = c /\ ret' = [code |-> "out_of_memory", val |-> <<>>]
         /\ \A y \in Obj : obj'[y] = obj[y] /\ \A a : Load(heap', obj[y].data, a) = Load(heap, obj[y].data, a)
<1>1. PICK v, o, code : /\ v = Outcome("ok", free(u.heap, u.buf.data), Empty, FALSE) /\ code = "out_of_memory"
                        /\ o = Outcome(code, free(u.heap, u.buf.data), Empty, u.bad)
  OBVIOUS
<1>2. o.code = code /\ code # "ok" /\ o.buf = Empty /\ o.heap = v.heap /\ o.bad = v.bad /\ o.buf = v.buf
  BY <1>1 DEF Outcome, Local
<1>3. Local(heap, Empty, o)
  <2>1. GoodHeap(heap) /\ Sound(heap, Empty) /\ GoodHeap(u.heap) /\ Sound(u.heap, u.buf)
    BY EmptySound DEF Inv, Local
  <2>2. Local(u.heap, u.buf, v)
    BY <1>1, <2>1, FreeLocal
  <2>3. Local(heap, Empty, v)
    BY <2>1, <2>2, LocalTransitive
  <2> QED BY <1>2, <2>3 DEF Local
<1>4. Creates(c, x, o)
  BY <1>1
<1>5. Inv(K)'
  BY <1>2, <1>3, <1>4, CreatesInv
<1>6. /\ x \notin alive /\ obj[x] = Empty /\ Answer(c, x, o) /\ alive' = alive
      /\ call' = c /\ ret' = [code |-> code, val |-> <<>>]
  BY <1>2, <1>4 DEF Creates, Answer, Returns, Inv
<1>7. Local(heap, obj[x], o)
  BY <1>3, <1>6
<1>8. /\ heap' = o.heap /\ obj'[x] = o.buf
      /\ \A y \in Obj : y # x =>
           obj'[y] = obj[y] /\ \A a : Load(heap', obj'[y].data, a) = Load(heap, obj[y].data, a)
  BY <1>6, <1>7, AnswerFrame
<1>9. ASSUME NEW y \in Obj
      PROVE  obj'[y] = obj[y] /\ \A a : Load(heap', obj[y].data, a) = Load(heap, obj[y].data, a)
  <2>1. CASE y = x
    BY <1>2, <1>6, <1>8, <2>1 DEF Load, Empty
  <2>2. CASE y # x
    BY <1>8, <2>2
  <2> QED BY <2>1, <2>2
<1>10. Held' = Held
  <2>1. \A y \in Obj : Contents(y)' = Contents(y)
    BY <1>9 DEF Contents
  <2> QED BY <2>1 DEF Held
<1> QED BY <1>1, <1>5, <1>6, <1>9, <1>10

-----------------------------------------------------------------------------
(***************************************************************************)
(* What is left in a block past the bytes that its object holds.           *)
(***************************************************************************)

\* From offset n on, nothing in block p was ever stored there but zeros.
Blank(h, p, n) == p # Null => \A a \in Addr : a >= n => h[p].cell[a] \in {0, Undef}

\* Every object's block is blank past the object's last byte.
AllBlank == \A x \in Obj : Blank(heap, obj[x].data, obj[x].size)

\* One object of which that is true.
Tidy(h, b) == h \in [Block -> Chunk] /\ b \in Header /\ Blank(h, b.data, b.size)

\* Heap g is h, but for the cells of block p, which are blank from m on.
Trims(h, g, p, m) ==
  /\ g \in [Block -> Chunk] /\ Blank(g, p, m)
  /\ \A q \in Block : q # p => g[q] = h[q]

\* An operation on b leaves a tidy object, and a new block only for a new
\* capacity.
Keeps(h, b, o) ==
  /\ Tidy(o.heap, o.buf)
  /\ o.buf.cap = b.cap => o.buf.data = b.data
  /\ \A p \in Block : p # b.data /\ p # o.buf.data => o.heap[p] = h[p]

\* Such an operation on object x is what a step did.
Kept(x) == \E o : Keeps(heap, obj[x], o) /\ heap' = o.heap /\ obj' = [obj EXCEPT ![x] = o.buf]

\* Storing cells that are blank from m on.
LEMMA StoreTrims ==
  ASSUME NEW h \in [Block -> Chunk], NEW p \in Block \cup {Null}, NEW k \in [Addr -> Cell], NEW m,
         \A a \in Addr : a >= m => k[a] \in {0, Undef}
  PROVE  Trims(h, Store(h, p, k), p, m)
<1>1. CASE p = Null
  BY <1>1 DEF Store, Trims, Blank
<1>2. CASE p # Null
  <2>1. h[p] \in Chunk
    BY <1>2
  <2>2. [h[p] EXCEPT !.cell = k] \in Chunk /\ [h[p] EXCEPT !.cell = k].cell = k
    BY <2>1 DEF Chunk
  <2>3. Store(h, p, k) = [h EXCEPT ![p] = [h[p] EXCEPT !.cell = k]]
    BY <1>2 DEF Store
  <2>4. /\ Store(h, p, k) \in [Block -> Chunk] /\ Store(h, p, k)[p].cell = k
        /\ \A q \in Block : q # p => Store(h, p, k)[q] = h[q]
    BY <1>2, <2>2, <2>3
  <2> QED BY <2>4 DEF Trims, Blank
<1> QED BY <1>1, <1>2

\* What is loaded from the blank part of a block.
LEMMA BlankLoad ==
  ASSUME NEW h, NEW p, NEW n, Blank(h, p, n), NEW a \in Addr, a >= n
  PROVE  Load(h, p, a) \in {0, Undef}
BY DEF Blank, Load

\* Setting n cells to v: whatever is set past m is set to zero.
LEMMA MemsetTrims ==
  ASSUME NEW h \in [Block -> Chunk], NEW p \in Block \cup {Null}, NEW k \in Nat, Blank(h, p, k),
         NEW to \in Nat, NEW n \in Nat, NEW v \in Byte, NEW m \in Nat,
         \A a \in Nat : a >= m => IF a \in to .. to + n - 1 THEN v = 0 ELSE a >= k
  PROVE  Trims(h, memset(h, p, to, v, n), p, m)
<1> DEFINE c == [a \in Addr |-> IF a \in to .. to + n - 1 THEN v ELSE Load(h, p, a)]
<1>1. \A a \in Addr : a \in Nat
  BY SizeAssumption DEF Addr
<1>2. c \in [Addr -> Cell]
  BY <1>1, LoadType DEF Cell
<1>3. ASSUME NEW a \in Addr, a >= m PROVE c[a] \in {0, Undef}
  BY <1>1, <1>3, BlankLoad
<1>4. memset(h, p, to, v, n) = Store(h, p, c)
  BY DEF memset
<1> HIDE DEF c
<1> QED BY <1>2, <1>3, <1>4, StoreTrims

\* Moving cells in: they end before m.
LEMMA MemmoveTrims ==
  ASSUME NEW h \in [Block -> Chunk], NEW p \in Block \cup {Null}, NEW k \in Nat, Blank(h, p, k),
         NEW to \in Nat, NEW n \in Nat, NEW q \in Block \cup {Null}, NEW from \in Nat,
         NEW m \in Nat, k <= m, to + n <= m
  PROVE  Trims(h, memmove(h, p, to, q, from, n), p, m)
<1> DEFINE c == [a \in Addr |-> IF a \in to .. to + n - 1 THEN Load(h, q, from + (a - to)) ELSE Load(h, p, a)]
<1>1. \A a \in Addr : a \in Nat
  BY SizeAssumption DEF Addr
<1>2. \A a \in Nat : a \in to .. to + n - 1 => from + (a - to) \in Nat
  OBVIOUS
<1>3. c \in [Addr -> Cell]
  BY <1>1, <1>2, LoadType
<1>4. ASSUME NEW a \in Addr, a >= m PROVE c[a] \in {0, Undef}
  <2>1. a \notin to .. to + n - 1 /\ a >= k
    BY <1>1, <1>4
  <2> QED BY <2>1, BlankLoad
<1>5. memmove(h, p, to, q, from, n) = Store(h, p, c)
  BY DEF memmove
<1> HIDE DEF c
<1> QED BY <1>3, <1>4, <1>5, StoreTrims

\* An object that is left as it is.
LEMMA SameKeeps ==
  ASSUME NEW h, NEW b, Tidy(h, b), NEW o, o.heap = h, o.buf = b
  PROVE  Keeps(h, b, o)
BY DEF Keeps

\* Growing takes the blank part along, and adds nothing that was stored.
LEMMA ReallocKeeps ==
  ASSUME NEW h, NEW b, Tidy(h, b), NEW n \in Size, b.cap # n, NEW len \in 0 .. MAX_ALLOC_BYTES,
         NEW p \in Room(h, b.data), NEW o, o.heap = realloc(h, b.data, p, len),
         o.buf = [data |-> p, size |-> b.size, cap |-> n]
  PROVE  Keeps(h, b, o)
<1>1. PICK q, g : q = b.data /\ g = realloc(h, q, p, len)
  OBVIOUS
<1>2. PICK c : c = [a \in Addr |-> IF a < len THEN Load(h, q, a) ELSE Undef]
  OBVIOUS
<1>3. h \in [Block -> Chunk] /\ b \in Header /\ q \in Block \cup {Null} /\ Blank(h, q, b.size) /\ p \in Block
  BY <1>1 DEF Tidy, Header, Room
<1>4. c \in [Addr -> Cell]
  <2>1. \A a \in Addr : a \in Nat
    BY SizeAssumption DEF Addr
  <2> QED BY <1>2, <1>3, <2>1, LoadType DEF Cell
<1>5. free(h, q) \in [Block -> Chunk] /\ \A r \in Block : r # q => free(h, q)[r] = h[r]
  <2>1. Freed \in Chunk
    BY SizeAssumption DEF Freed, Chunk, Cell
  <2> QED BY <1>3, <2>1 DEF free
<1>6. [len |-> len, cell |-> c] \in Chunk
  BY <1>4 DEF Chunk
<1>7. g = [free(h, q) EXCEPT ![p] = [len |-> len, cell |-> c]]
  BY <1>1, <1>2 DEF realloc
<1>8. g \in [Block -> Chunk] /\ g[p].cell = c /\ \A r \in Block : r # p /\ r # q => g[r] = h[r]
  BY <1>3, <1>5, <1>6, <1>7
<1>9. \A a \in Addr : a >= b.size => c[a] \in {0, Undef}
  BY <1>2, <1>3, BlankLoad
<1>10. PICK d : d = [data |-> p, size |-> b.size, cap |-> n]
  OBVIOUS
<1>11. d \in Header /\ d.data = p /\ d.size = b.size /\ d.cap = n
  BY <1>3, <1>10 DEF Header
<1>12. Tidy(g, d)
  BY <1>8, <1>9, <1>11 DEF Tidy, Blank
<1> QED BY <1>1, <1>8, <1>10, <1>11, <1>12 DEF Keeps

\* A step that went on to store in the object's block, or to set its size.
LEMMA ThenTrims ==
  ASSUME NEW h, NEW b, NEW o, Keeps(h, b, o), NEW m \in Size,
         NEW t, Trims(o.heap, t, o.buf.data, m),
         NEW u, u.heap = t, u.buf = [data |-> o.buf.data, size |-> m, cap |-> o.buf.cap]
  PROVE  Keeps(h, b, u)
<1>1. PICK d : d = [data |-> o.buf.data, size |-> m, cap |-> o.buf.cap]
  OBVIOUS
<1>2. d \in Header /\ d.data = o.buf.data /\ d.size = m /\ d.cap = o.buf.cap
  BY <1>1 DEF Keeps, Tidy, Header
<1>3. Tidy(t, d)
  BY <1>2 DEF Tidy, Trims
<1> QED BY <1>1, <1>2, <1>3 DEF Keeps, Trims

\* A step that went on to set or to move cells.
LEMMA MemsetKeeps ==
  ASSUME NEW h, NEW b, NEW o, Keeps(h, b, o), NEW to \in Nat, NEW n \in Nat, NEW v \in Byte, NEW m \in Size,
         \A a \in Nat : a >= m => IF a \in to .. to + n - 1 THEN v = 0 ELSE a >= o.buf.size,
         NEW u, u.heap = memset(o.heap, o.buf.data, to, v, n),
         u.buf = [data |-> o.buf.data, size |-> m, cap |-> o.buf.cap]
  PROVE  Keeps(h, b, u)
<1>1. PICK p, k : p = o.buf.data /\ k = o.buf.size
  OBVIOUS
<1>2. o.heap \in [Block -> Chunk] /\ p \in Block \cup {Null} /\ k \in Nat /\ Blank(o.heap, p, k) /\ m \in Nat
  BY <1>1, SizeAssumption DEF Keeps, Tidy, Header
<1>3. Trims(o.heap, memset(o.heap, p, to, v, n), p, m)
  BY <1>1, <1>2, MemsetTrims
<1> QED BY <1>1, <1>3, ThenTrims

LEMMA MemmoveKeeps ==
  ASSUME NEW h, NEW b, NEW o, Keeps(h, b, o), NEW to \in Nat, NEW n \in Nat, NEW q \in Block \cup {Null},
         NEW from \in Nat, NEW m \in Size, o.buf.size <= m, to + n <= m,
         NEW u, u.heap = memmove(o.heap, o.buf.data, to, q, from, n),
         u.buf = [data |-> o.buf.data, size |-> m, cap |-> o.buf.cap]
  PROVE  Keeps(h, b, u)
<1>1. PICK p, k : p = o.buf.data /\ k = o.buf.size
  OBVIOUS
<1>2. o.heap \in [Block -> Chunk] /\ p \in Block \cup {Null} /\ k \in Nat /\ Blank(o.heap, p, k) /\ m \in Nat
  BY <1>1, SizeAssumption DEF Keeps, Tidy, Header
<1>3. k <= m
  BY <1>1
<1>4. Trims(o.heap, memmove(o.heap, p, to, q, from, n), p, m)
  BY <1>2, <1>3, MemmoveTrims
<1> QED BY <1>1, <1>4, ThenTrims

\* The block and the extent of a source.
LEMMA SourceExtent ==
  ASSUME NEW K, Inv(K), NEW s \in Source
  PROVE  target(s) \in Block \cup {Null} /\ s.off \in Nat /\ s.len \in Size /\ s.len \in Nat
<1>1. s.of \in Obj \cup {Caller, Null} /\ s.off \in Nat /\ s.len \in Size /\ s.len \in Nat
  BY SizeAssumption DEF Source
<1>2. s.of \in Obj => obj[s.of].data \in Block \cup {Null}
  BY AnyObject
<1> QED BY <1>1, <1>2, MemoryAssumption DEF target

\* Every object is tidy when the program's blocks are blank.
LEMMA ObjectTidy ==
  ASSUME NEW K, Inv(K), AllBlank, NEW x \in Obj
  PROVE  /\ Tidy(heap, obj[x])
         /\ obj[x].size \in Size /\ obj[x].size \in Nat /\ obj[x].data \in Block \cup {Null}
         /\ obj[x] = [data |-> obj[x].data, size |-> obj[x].size, cap |-> obj[x].cap]
         /\ x \notin alive => obj[x] = Empty
<1>1. Tidy(heap, obj[x]) /\ (x \notin alive => obj[x] = Empty)
  BY DEF Inv, GoodHeap, AllBlank, Tidy
<1> QED BY <1>1, SizeAssumption DEF Tidy, Header

\* The empty object is tidy in every heap.
LEMMA EmptyTidy ==
  ASSUME NEW h \in [Block -> Chunk]
  PROVE  Tidy(h, Empty) /\ Empty.size = 0 /\ Empty.cap = 0 /\ Empty.data = Null
BY SizeAssumption DEF Tidy, Blank, Empty, Header

\* Zeroing the bytes an object holds leaves its whole block blank.
LEMMA ZeroTrims ==
  ASSUME NEW h \in [Block -> Chunk], NEW p \in Block \cup {Null}, NEW k \in Nat, Blank(h, p, k), NEW m, m = 0
  PROVE  Trims(h, secure_zero(h, p, k), p, m)
<1>1. CASE p = Null \/ k = 0
  BY <1>1 DEF secure_zero, Trims, Blank
<1>2. CASE ~(p = Null \/ k = 0)
  <2>1. secure_zero(h, p, k) = memset(h, p, m, m, k)
    BY <1>2 DEF secure_zero
  <2>2. \A a \in Nat : a >= m => IF a \in m .. m + k - 1 THEN m = 0 ELSE a >= k
    OBVIOUS
  <2>3. m \in Byte /\ m \in Nat
    BY MemoryAssumption
  <2> QED BY <2>1, <2>2, <2>3, MemsetTrims
<1> QED BY <1>1, <1>2

\* A sound object owns a live block.
LEMMA SoundLive ==
  ASSUME NEW h, GoodHeap(h), NEW n \in {0, 1}, NEW b, SoundAs(n, h, b), b.data # Null
  PROVE  Live(h, b.data) /\ b.data \in Block
<1>1. b.cap \in Nat /\ b.cap # 0 /\ h[b.data].len = b.cap + n /\ b.data \in Block
  BY SizeAssumption DEF SoundAs, Header
<1> QED BY <1>1 DEF Live

\* Every object of a program in which the invariant holds owns a live block.
LEMMA OwnedLive ==
  ASSUME NEW K, Inv(K)
  PROVE  \A x \in Obj : obj[x].data # Null => Live(heap, obj[x].data) /\ obj[x].data \in Block
BY AnyObject

\* So it does after a step that keeps the invariant.
LEMMA OwnedLiveNext ==
  ASSUME NEW K, Inv(K)'
  PROVE  \A x \in Obj : obj'[x].data # Null => Live(heap', obj'[x].data) /\ obj'[x].data \in Block
<1> SUFFICES ASSUME NEW x \in Obj, obj'[x].data # Null
             PROVE  Live(heap', obj'[x].data) /\ obj'[x].data \in Block
  OBVIOUS
<1>1. GoodHeap(heap')
  BY DEF Inv, GoodHeap
<1>2. SoundAs(Slack, heap', obj'[x]) \/ SoundAs(1 - Slack, heap', obj'[x])
  BY DEF Inv, Sound, SoundAs
<1>3. PICK n \in {0, 1} : SoundAs(n, heap', obj'[x])
  <2>1. Slack \in {0, 1} /\ 1 - Slack \in {0, 1}
    BY ContainerAssumption
  <2> QED BY <1>2, <2>1
<1> QED BY <1>1, <1>3, SoundLive

\* A step on one object that leaves it tidy leaves all of them blank.
LEMMA KeptBlank ==
  ASSUME NEW K, Inv(K), Inv(K)', AllBlank, NEW x \in Obj, Kept(x)
  PROVE  AllBlank'
<1>1. PICK o : Keeps(heap, obj[x], o) /\ heap' = o.heap /\ obj' = [obj EXCEPT ![x] = o.buf]
  BY DEF Kept
<1>2. obj'[x] = o.buf /\ \A y \in Obj : y # x => obj'[y] = obj[y]
  BY <1>1 DEF Inv
<1>3. ASSUME NEW y \in Obj PROVE Blank(heap', obj'[y].data, obj'[y].size)
  <2>1. CASE y = x
    BY <1>1, <1>2, <2>1 DEF Keeps, Tidy
  <2>2. CASE y # x /\ obj[y].data = Null
    BY <1>2, <2>2 DEF Blank
  <2>3. CASE y # x /\ obj[y].data # Null
    <3>1. obj[y].data # obj[x].data
      BY <2>3 DEF Inv
    <3>2. obj'[y].data # obj'[x].data
      BY <1>2, <2>3 DEF Inv
    <3>3. obj[y].data \in Block
      BY <2>3, OwnedLive
    <3>4. heap'[obj[y].data] = heap[obj[y].data]
      BY <1>1, <1>2, <2>3, <3>1, <3>2, <3>3 DEF Keeps
    <3> QED BY <1>2, <2>3, <3>4 DEF AllBlank, Blank
  <2> QED BY <2>1, <2>2, <2>3
<1> QED BY <1>3 DEF AllBlank, Blank

\* If such a step gives up a block, then that of the object, for a larger one;
\* and if there was nothing in it, all of it is blank.
LEMMA KeptFreed ==
  ASSUME NEW K, Inv(K), Inv(K)', AllBlank, NEW x \in Obj, Kept(x),
         obj[x].size = 0 \/ obj'[x].cap = obj[x].cap,
         NEW q \in Block, Live(heap, q), ~ Live(heap', q)
  PROVE  Blank(heap, q, 0)
<1>1. PICK o : Keeps(heap, obj[x], o) /\ heap' = o.heap /\ obj' = [obj EXCEPT ![x] = o.buf]
  BY DEF Kept
<1>2. obj'[x] = o.buf /\ \A y \in Obj : y # x => obj'[y] = obj[y]
  BY <1>1 DEF Inv
<1>3. q # Caller
  BY DEF Inv, GoodHeap, Live
<1>4. PICK y \in Obj : obj[y].data = q
  BY <1>3 DEF Inv
<1>5. q # Null
  BY MemoryAssumption
<1>6. obj'[y].data # q
  BY <1>5, OwnedLiveNext
<1>7. y = x /\ obj'[x].data # obj[x].data
  BY <1>2, <1>4, <1>6
<1>8. obj[x].size = 0
  BY <1>1, <1>2, <1>7 DEF Keeps
<1> QED BY <1>4, <1>7, <1>8 DEF AllBlank

\* A step that only frees block p and hands the objects around.
LEMMA HandedBlank ==
  ASSUME NEW K, Inv(K), AllBlank, NEW p, \A q \in Block : q # p => heap'[q] = heap[q],
         \A x \in Obj : \/ obj'[x].data = Null
                        \/ \E y \in Obj : obj'[x] = obj[y] /\ obj[y].data # p
  PROVE  AllBlank'
<1>1. ASSUME NEW x \in Obj PROVE Blank(heap', obj'[x].data, obj'[x].size)
  <2>1. CASE obj'[x].data = Null
    BY <2>1 DEF Blank
  <2>2. CASE obj'[x].data # Null
    <3>1. PICK y \in Obj : obj'[x] = obj[y] /\ obj[y].data # p
      BY <2>2
    <3>2. obj[y].data \in Block /\ heap'[obj[y].data] = heap[obj[y].data]
      BY <2>2, <3>1, OwnedLive
    <3> QED BY <3>1, <3>2 DEF AllBlank, Blank
  <2> QED BY <2>1, <2>2
<1> QED BY <1>1 DEF AllBlank, Blank

\* Trimming a block that is then freed changes nothing else.
LEMMA TrimsFree ==
  ASSUME NEW h \in [Block -> Chunk], NEW p \in Block \cup {Null}, NEW m, NEW g, Trims(h, g, p, m)
  PROVE  free(g, p) = free(h, p)
<1>1. g \in [Block -> Chunk] /\ \A q \in Block : q # p => g[q] = h[q]
  BY DEF Trims
<1>2. CASE p = Null
  <2>1. \A q \in Block : g[q] = h[q]
    BY <1>1, <1>2, MemoryAssumption
  <2> QED BY <1>1, <1>2, <2>1 DEF free
<1>3. CASE p # Null
  BY <1>1, <1>3 DEF free
<1> QED BY <1>2, <1>3

\* Only the block that is freed stops being live.
LEMMA FreesOne ==
  ASSUME NEW h \in [Block -> Chunk], NEW p, NEW q \in Block, Live(h, q), ~ Live(free(h, p), q)
  PROVE  q = p
BY DEF free, Live

\* A call that ends with such an outcome, and one that only looks.
LEMMA AnswerKept ==
  ASSUME NEW x, NEW c, NEW o, Answer(c, x, o), Keeps(heap, obj[x], o)
  PROVE  Kept(x)
BY DEF Answer, Kept

LEMMA LooksKept ==
  ASSUME NEW K, Inv(K), AllBlank, NEW x \in Obj, NEW c, NEW code, NEW v, NEW bad, Looks(c, code, v, bad)
  PROVE  Kept(x)
<1>1. PICK o : o = Outcome("ok", heap, obj[x], FALSE)
  OBVIOUS
<1>2. o.heap = heap /\ o.buf = obj[x]
  BY <1>1 DEF Outcome
<1>3. Tidy(heap, obj[x]) /\ obj' = [obj EXCEPT ![x] = o.buf] /\ heap' = o.heap
  BY <1>2 DEF Inv, GoodHeap, AllBlank, Tidy, Looks
<1> QED BY <1>2, <1>3, SameKeeps DEF Kept

-----------------------------------------------------------------------------
(***************************************************************************)
(* The properties of every container follow from the invariant.            *)
(***************************************************************************)

\* Types, ownership, initialised contents and no stray access.
LEMMA InvImplies ==
  ASSUME Inv(Obj)
  PROVE  TypeOK /\ Ownership /\ Initialised /\ NoFault
<1>1. ASSUME NEW x \in Obj, obj[x].data # Null
      PROVE  x \in alive /\ obj[x].data # Caller /\ heap[obj[x].data].len = obj[x].cap + Slack
  BY <1>1 DEF Inv, Sound, SoundAs, Empty
<1>2. ASSUME NEW x \in Obj, NEW i \in 1 .. obj[x].size PROVE Contents(x)[i] # Undef
  <2>1. Sound(heap, obj[x]) /\ GoodHeap(heap)
    BY DEF Inv
  <2>2. obj[x].size \in Nat /\ obj[x].cap \in Nat /\ obj[x].size <= obj[x].cap
        /\ obj[x].cap <= MAX_ALLOC_BYTES /\ Slack \in Nat
    BY <2>1, SoundBounds
  <2>3. obj[x].data # Null /\ heap[obj[x].data].len = obj[x].cap + Slack
    BY <2>1, <2>2 DEF Sound, SoundAs
  <2>4. i - 1 \in Addr /\ i - 1 < obj[x].size
    BY <2>2, SizeAssumption DEF Addr
  <2>5. Contents(x)[i] = heap[obj[x].data].cell[i - 1]
    BY <2>2, <2>3, <2>4 DEF Contents, Load
  <2> QED BY <2>1, <2>3, <2>4, <2>5 DEF Sound, SoundAs
<1>3. Ownership
  BY <1>1 DEF Inv, Ownership
<1>4. TypeOK /\ NoFault
  BY DEF Inv, GoodHeap, TypeOK, NoFault
<1> QED BY <1>2, <1>3, <1>4 DEF Initialised
=============================================================================
