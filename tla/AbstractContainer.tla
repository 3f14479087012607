------------------------- MODULE AbstractContainer -------------------------
(***************************************************************************)
(* What oe::buffer and oe::string promise in common, without pointers,     *)
(* blocks or capacities: a live object is a sequence of bytes, and a call  *)
(* either does to it what its name says or returns an error code that the  *)
(* arguments justify and leaves everything alone.  A source that lies      *)
(* inside an object stands for the bytes that object held when the call    *)
(* was made, the object being changed included.                            *)
(*                                                                         *)
(* The environment picks the call (call'), the objects answer it.          *)
(***************************************************************************)
EXTENDS Integers, Sequences

CONSTANTS Obj, Caller, Null, CallerBytes, SIZE_MAX, MAX_ALLOC_BYTES

VARIABLES contents, alive, call, ret

avars == <<contents, alive, call, ret>>

Init ==
  /\ contents = [x \in Obj |-> <<>>]
  /\ alive = {}
  /\ call = <<"none">>
  /\ ret = [code |-> "ok", val |-> <<>>]

\* n bytes of q from offset off.
Part(q, off, n) == [i \in 1 .. n |-> q[off + i]]

\* The bytes a source stands for.
Value(s) ==
  IF s.len = 0 THEN <<>>
  ELSE IF s.of = Caller THEN [i \in 1 .. s.len |-> CallerBytes[s.off + i - 1]]
  ELSE Part(contents[s.of], s.off, s.len)

Smaller(m, n) == IF m < n THEN m ELSE n

\* The code of a call that works on a part: fine, or out of range.
Index(ok) == IF ok THEN {"ok"} ELSE {"out_of_range"}

\* ... and of one that names its part by offset and length.
Range(off, n, size) ==
  IF off + n > SIZE_MAX THEN {"overflow"} ELSE Index(off + n <= size)

Refuses(codes) ==
  /\ ret'.code \in codes \ {"ok"}
  /\ ret'.val = <<>>
  /\ UNCHANGED <<contents, alive>>

\* x holds q afterwards, or the call is refused.
Becomes(x, q, codes) ==
  \/ /\ "ok" \in codes
     /\ ret' = [code |-> "ok", val |-> <<>>]
     /\ contents' = [contents EXCEPT ![x] = q]
     /\ alive' = alive \cup {x}
  \/ Refuses(codes)

\* The call hands out v and changes nothing, or is refused.
Yields(v, codes) ==
  \/ "ok" \in codes /\ ret' = [code |-> "ok", val |-> v] /\ UNCHANGED <<contents, alive>>
  \/ Refuses(codes)

\* x takes over what y held.
Takes(x, y) ==
  /\ contents' = IF x = y THEN contents ELSE [contents EXCEPT ![x] = contents[y], ![y] = <<>>]
  /\ alive' = alive \cup {x}
  /\ ret'.code = "ok"

Lifetime(c) ==
  \/ c[1] = "construct" /\ c[2] \notin alive /\ Becomes(c[2], <<>>, {"ok"})
  \/ /\ c[1] = "destroy" /\ c[2] \in alive
     /\ contents' = [contents EXCEPT ![c[2]] = <<>>]
     /\ alive' = alive \ {c[2]}
  \/ c[1] = "move_construct" /\ c[2] \notin alive /\ Takes(c[2], c[3])
  \/ c[1] = "move_assign" /\ {c[2], c[3]} \subseteq alive /\ Takes(c[2], c[3])
=============================================================================
