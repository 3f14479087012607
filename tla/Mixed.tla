------------------------------- MODULE Mixed -------------------------------
(***************************************************************************)
(* Buffers and strings of one program, on one heap: the two components as  *)
(* instances over the same variables.  A module built on this one says     *)
(* which of their operations its callers reach, and how.                   *)
(***************************************************************************)
EXTENDS Memory, Sequences

CONSTANTS
  Bufs, Strs,   \* the buffer objects and the string objects
  CallerBytes,  \* as in Container
  Excluded      \* as in OeString

ASSUME MixedAssumption ==
  /\ Bufs \cap Strs = {}
  /\ (Bufs \cup Strs) \cap (Block \cup {Null}) = {}
  /\ CallerBytes \in [Addr -> Byte]
  /\ Excluded \subseteq {"bare_replace", "view_at_capacity", "shifted_terminator", "inner_view"}

VARIABLES heap, obj, alive, fault, call, ret

Obj == Bufs \cup Strs

B == INSTANCE Buffer WITH Slack <- 0
S == INSTANCE OeString WITH Slack <- 1

\* A source inside a buffer ends with the buffer: only a string has one more
\* readable byte, its terminator.
Bounded(s) == s.of \in Bufs => s.off + s.len <= obj[s.of].size

\* Nothing is read or written outside a live block, whatever mixture of calls
\* on buffers and strings comes before, and the next audit of any container
\* passes: also after one kind fed the other or was built and dropped again.
Sound ==
  /\ ~fault
  /\ \A b \in Bufs \cap alive : B!Audit(b)
  /\ \A s \in Strs \cap alive : S!Audit(s)

\* Every block is owned by exactly one live container, which knows its true
\* length: no call, refused ones included, leaks a block or shares it.
Owned ==
  /\ \A x \in Obj : obj[x].data # Null =>
       /\ x \in alive
       /\ heap[obj[x].data].len = obj[x].cap + (IF x \in Strs THEN 1 ELSE 0)
  /\ \A x, y \in Obj : obj[x].data = obj[y].data /\ obj[x].data # Null => x = y
  /\ \A p \in Block \ {Caller} : heap[p].len > 0 => \E x \in Obj : obj[x].data = p
=============================================================================
