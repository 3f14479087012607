------------------------------- MODULE Memory -------------------------------
(***************************************************************************)
(* The C heap and the <cstring> functions, external to the repository, as  *)
(* far as onedge's containers use them.                                    *)
(*                                                                         *)
(* A heap maps every block to its length and its cells; a block of length  *)
(* zero is not allocated (the containers never ask for zero bytes).  A     *)
(* cell that was never written holds Undef, and so does everything read    *)
(* outside a live block: reading memory one does not own yields an         *)
(* arbitrary value.  One block, Caller, is memory of the code that calls   *)
(* the library; no container ever owns it.                                 *)
(***************************************************************************)
EXTENDS CheckedMath

CONSTANTS
  Block,   \* identities of heap blocks
  Caller,  \* the block that is the caller's own memory
  Null,    \* the null pointer
  Byte,    \* the values of a byte
  Undef    \* the value of a cell never written

ASSUME MemoryAssumption ==
  /\ Caller \in Block
  /\ Null \notin Block
  /\ 0 \in Byte
  /\ Undef \notin Byte

Cell  == Byte \cup {Undef}
Addr  == 0 .. MAX_ALLOC_BYTES - 1
Chunk == [len : 0 .. MAX_ALLOC_BYTES, cell : [Addr -> Cell]]
Freed == [len |-> 0, cell |-> [a \in Addr |-> Undef]]

Live(h, p) == h[p].len > 0

\* Cells off .. off + n - 1 lie inside block p.
Inside(h, p, off, n) == p # Null /\ off + n <= h[p].len

\* What a load of cell off of block p gives.
Load(h, p, off) ==
  IF p # Null /\ off < h[p].len THEN h[p].cell[off] ELSE Undef

free(h, p) == IF p = Null THEN h ELSE [h EXCEPT ![p] = Freed]

\* The blocks an allocation may come from; realloc may also grow in place.
Room(h, old) == {p \in Block : p = old \/ ~Live(h, p)}

malloc(h, p, n) == [h EXCEPT ![p] = [len |-> n, cell |-> Freed.cell]]

\* realloc of old (possibly Null) to n bytes that ends up at block p.
realloc(h, old, p, n) ==
  [free(h, old) EXCEPT ![p] =
     [len |-> n, cell |-> [a \in Addr |-> IF a < n THEN Load(h, old, a) ELSE Undef]]]

\* Block p of h gets the cells c.  A store through a null pointer, which the
\* operations report, changes nothing here.
Store(h, p, c) == IF p = Null THEN h ELSE [h EXCEPT ![p].cell = c]

\* memmove of n cells from (q, from) to (p, to); memcpy where nothing overlaps.
memmove(h, p, to, q, from, n) ==
  Store(h, p, [a \in Addr |-> IF a \in to .. to + n - 1 THEN Load(h, q, from + (a - to))
                              ELSE Load(h, p, a)])

memset(h, p, to, v, n) ==
  Store(h, p, [a \in Addr |-> IF a \in to .. to + n - 1 THEN v ELSE Load(h, p, a)])
=============================================================================
