------------------------------ MODULE MCSecure ------------------------------
(***************************************************************************)
(* Instances of Secure for TLC.                                            *)
(***************************************************************************)
EXTENDS Secure, TLC

\* The caller's memory: a secret followed by a terminator.
MCCallerBytes == [a \in 0 .. MAX_ALLOC_BYTES - 1 |-> IF a = 1 THEN 0 ELSE 1]

\* States that differ only in the last call are explored once.
MCView == <<heap, obj, alive, fault, residue>>

\* Heap blocks are interchangeable, and so are wrappers of one kind.
MCSymmetry == Permutations(Block \ {Caller}) \cup Permutations(Bufs) \cup Permutations(Strs)
=============================================================================
