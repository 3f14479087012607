------------------------------- MODULE MCCApi -------------------------------
(***************************************************************************)
(* Instances of CApi for TLC.                                              *)
(***************************************************************************)
EXTENDS CApi, TLC

\* The caller's memory: as long as the scan for a NUL may be, and without one.
MCCallerBytes == [a \in 0 .. MAX_ALLOC_BYTES - 1 |-> 1]

\* States that differ only in the last call are explored once.
MCView == <<heap, obj, alive, fault>>

\* Heap blocks are interchangeable.
MCSymmetry == Permutations(Block \ {Caller})
=============================================================================
