------------------------ MODULE AbstractFixedBuffer ------------------------
(***************************************************************************)
(* What oe::fixed_buffer<N> promises: "Same checks as oe::buffer, no heap, *)
(* fixed N."  It is the buffer of AbstractBuffer with N for the allocation *)
(* cap, that can also be copied and never runs out of memory.              *)
(***************************************************************************)
EXTENDS AbstractBuffer

\* Copying, which moving is too: x holds what y holds, and y keeps it.
Copy(c) ==
  /\ c[3] \in alive
  /\ \/ c[1] = "copy_construct" /\ c[2] \notin alive
     \/ c[1] = "copy_assign" /\ c[2] \in alive
  /\ Becomes(c[2], contents[c[3]], {"ok"})

FixedNext == (Next \/ Copy(call')) /\ ret'.code # "out_of_memory"

FixedSpec == Init /\ [][FixedNext]_avars
=============================================================================
