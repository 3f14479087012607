----------------------------- MODULE Container -----------------------------
(***************************************************************************)
(* What oe::buffer and oe::string have in common: objects of three fields  *)
(* data_, size_, cap_ that own a heap block, their lifetime (constructors, *)
(* destructor, moves: buffer.cpp and string.cpp hold the same code), and   *)
(* the pointer-and-length arguments callers pass.                          *)
(*                                                                         *)
(* An argument names memory the caller may read: part of the caller's own  *)
(* block, or part of what some live object holds, the object operated on   *)
(* included (an aliased source).                                           *)
(***************************************************************************)
EXTENDS Memory, Sequences

CONSTANTS
  Obj,          \* the objects of the program, live or not
  CallerBytes,  \* what the caller's own memory holds
  Slack         \* bytes allocated beyond cap_: 0 for buffer, 1 for string

ASSUME ContainerAssumption ==
  /\ Obj \cap (Block \cup {Null}) = {}
  /\ CallerBytes \in [Addr -> Byte]
  /\ Slack \in {0, 1}

VARIABLES
  heap,   \* the C heap
  obj,    \* the fields of each object
  alive,  \* the objects constructed and not yet destroyed
  fault,  \* some access went outside a live block
  call,   \* history: the last call, with its arguments
  ret     \* history: what that call returned, error code and value

vars == <<heap, obj, alive, fault, call, ret>>

Header == [data : Block \cup {Null}, size : Size, cap : Size]
Empty  == [data |-> Null, size |-> 0, cap |-> 0]

\* A (pointer, length) argument: len bytes from offset off of the object,
\* of the caller's block, or of nothing (a null pointer).
Source == [of : Obj \cup {Caller, Null}, off : 0 .. MAX_ALLOC_BYTES, len : Size]

\* The block a source points into at the time of the call.
target(s) == IF s.of \in Obj THEN obj[s.of].data ELSE s.of

\* beyond = 1 admits the terminator a string keeps after its last byte.
Readable(s, beyond) ==
  \/ s.of = Caller /\ s.off + s.len <= MAX_ALLOC_BYTES
  \/ /\ s.of \in alive
     /\ s.off + s.len <= obj[s.of].size + (IF obj[s.of].data = Null THEN 0 ELSE beyond)

\* The arguments a caller may pass: null, memory it may read, or a length
\* too large to be true, which the call has to refuse before it reads.
MayPass(s, beyond, too_long) ==
  \/ s.of = Null /\ s.off = 0
  \/ Readable(s, beyond)
  \/ s.of = Caller /\ s.off = 0 /\ too_long

\* Mutant: compares offsets only, as if all blocks started at one address.
pointer_in_range_offset(p, off, base, len) == base # Null /\ off < len

\* detail::pointer_in_range: does offset off of block p lie in the first
\* len bytes of base?  Different live blocks never overlap.
pointer_in_range(p, off, base, len) == base # Null /\ p = base /\ off < len

\* detail::secure_zero of the n first bytes of block p.
secure_zero(h, p, n) == IF p = Null \/ n = 0 THEN h ELSE memset(h, p, 0, 0, n)

Init ==
  /\ heap = [[p \in Block |-> Freed] EXCEPT
               ![Caller] = [len |-> MAX_ALLOC_BYTES, cell |-> CallerBytes]]
  /\ obj = [x \in Obj |-> Empty]
  /\ alive = {}
  /\ fault = FALSE
  /\ call = <<"none">>
  /\ ret = [code |-> "ok", val |-> <<>>]

Returns(c, code, val) == call' = c /\ ret' = [code |-> code, val |-> val]

\* What an operation did to the heap and to the object it works on, its error
\* code, and whether it touched memory outside a live block.
Outcome(code, h, b, bad) == [code |-> code, heap |-> h, buf |-> b, bad |-> bad]

\* The call c on object x ends with outcome o.
Answer(c, x, o) ==
  /\ heap' = o.heap
  /\ obj' = [obj EXCEPT ![x] = o.buf]
  /\ fault' = (fault \/ o.bad)
  /\ Returns(c, o.code, <<>>)

\* The factory call c ends with outcome o; its result<T> becomes object x.
Creates(c, x, o) ==
  /\ x \notin alive
  /\ Answer(c, x, o)
  /\ alive' = IF o.code = "ok" THEN alive \cup {x} ELSE alive

\* The call c ends with outcome o, on an object that is there before and after.
Ends(c, x, o) == Answer(c, x, o) /\ UNCHANGED alive

\* A call that only reads: it returns val.
Looks(c, code, val, bad) ==
  /\ Returns(c, code, val)
  /\ fault' = (fault \/ bad)
  /\ UNCHANGED <<heap, obj, alive>>

Construct(x) ==
  /\ x \notin alive
  /\ alive' = alive \cup {x}
  /\ Returns(<<"construct", x>>, "ok", <<>>)
  /\ UNCHANGED <<heap, obj, fault>>

Destroy(x) ==
  /\ x \in alive
  /\ Answer(<<"destroy", x>>, x, Outcome("ok", free(heap, obj[x].data), Empty, FALSE))
  /\ alive' = alive \ {x}

\* Mutant: the moved-from object keeps its fields.
MoveConstruct_copies(x, y) ==
  /\ x \notin alive /\ y \in alive
  /\ obj' = [obj EXCEPT ![x] = obj[y]]
  /\ alive' = alive \cup {x}
  /\ Returns(<<"move_construct", x, y>>, "ok", <<>>)
  /\ UNCHANGED <<heap, fault>>

MoveConstruct(x, y) ==
  /\ x \notin alive /\ y \in alive
  /\ obj' = [obj EXCEPT ![x] = obj[y], ![y] = Empty]
  /\ alive' = alive \cup {x}
  /\ Returns(<<"move_construct", x, y>>, "ok", <<>>)
  /\ UNCHANGED <<heap, fault>>

\* Mutant: the target's own block is not freed.
MoveAssign_leaks(x, y) ==
  /\ x \in alive /\ y \in alive
  /\ obj' = IF x = y THEN obj ELSE [obj EXCEPT ![x] = obj[y], ![y] = Empty]
  /\ Returns(<<"move_assign", x, y>>, "ok", <<>>)
  /\ UNCHANGED <<heap, alive, fault>>

\* Mutant: of the moved-from object only data_ is reset.
MoveAssign_half(x, y) ==
  /\ x \in alive /\ y \in alive
  /\ heap' = IF x = y THEN heap ELSE free(heap, obj[x].data)
  /\ obj' = IF x = y THEN obj ELSE [obj EXCEPT ![x] = obj[y], ![y].data = Null]
  /\ Returns(<<"move_assign", x, y>>, "ok", <<>>)
  /\ UNCHANGED <<alive, fault>>

\* Moving an object onto itself changes nothing.
MoveAssign(x, y) ==
  /\ x \in alive /\ y \in alive
  /\ IF x = y
     THEN Looks(<<"move_assign", x, y>>, "ok", <<>>, FALSE)
     ELSE /\ heap' = free(heap, obj[x].data)
          /\ obj' = [obj EXCEPT ![x] = obj[y], ![y] = Empty]
          /\ Returns(<<"move_assign", x, y>>, "ok", <<>>)
          /\ UNCHANGED <<alive, fault>>

LifetimeNext ==
  \E x \in Obj :
    \/ Construct(x)
    \/ Destroy(x)
    \/ \E y \in Obj : MoveConstruct(x, y) \/ MoveAssign(x, y)

\* The bytes an object holds, as a sequence.
Contents(x) == [i \in 1 .. obj[x].size |-> Load(heap, obj[x].data, i - 1)]

-----------------------------------------------------------------------------
(***************************************************************************)
(* Properties of every container.                                          *)
(***************************************************************************)

\* Heap, objects and flags have their types; headers stay inside size_t.
TypeOK ==
  /\ heap \in [Block -> Chunk]
  /\ obj \in [Obj -> Header]
  /\ alive \subseteq Obj
  /\ fault \in BOOLEAN

\* Every block is owned by exactly one object, which knows its true length:
\* no double free, no leak, no two objects sharing storage after a move, a
\* failed realloc or a reused block (data_ and cap_ in buffer.cpp, string.cpp).
Ownership ==
  /\ \A x \in Obj : obj[x].data # Null =>
       /\ x \in alive
       /\ obj[x].data # Caller
       /\ heap[obj[x].data].len = obj[x].cap + Slack
  /\ \A x, y \in Obj : obj[x].data = obj[y].data /\ obj[x].data # Null => x = y
  /\ \A p \in Block \ {Caller} : Live(heap, p) => \E x \in Obj : obj[x].data = p

\* No byte below size() is ever one that nobody wrote: growth, shrinking and
\* refused calls never expose uninitialised or stale-freed memory.
Initialised == \A x \in Obj : \A i \in 1 .. obj[x].size : Contents(x)[i] # Undef

\* No operation reads or writes outside a live block, whatever the sequence
\* of calls and whichever of them fail.
NoFault == ~fault
=============================================================================
