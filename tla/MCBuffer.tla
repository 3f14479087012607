------------------------------ MODULE MCBuffer ------------------------------
(***************************************************************************)
(* Instances of Buffer for TLC.                                            *)
(***************************************************************************)
EXTENDS Buffer, TLC

\* The caller's memory: no two neighbouring cells are alike.
MCCallerBytes == [a \in Addr |-> (a + 1) % 2]

\* States that differ only in the last call are explored once.
MCView == <<heap, obj, alive, fault>>

\* Heap blocks are interchangeable, and so are buffers.
MCSymmetry == Permutations(Block \ {Caller}) \cup Permutations(Obj)
=============================================================================
