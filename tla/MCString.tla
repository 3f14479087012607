------------------------------ MODULE MCString ------------------------------
(***************************************************************************)
(* Instances of OeString for TLC.                                          *)
(***************************************************************************)
EXTENDS OeString, TLC

\* The caller's memory: text with a terminator inside ...
MCTerminated == [a \in Addr |-> IF a = 2 THEN 0 ELSE 1]

\* ... and text without one.
MCUnterminated == [a \in Addr |-> 1]

\* States that differ only in the last call are explored once.
MCView == <<heap, obj, alive, fault>>

\* Heap blocks are interchangeable.
MCSymmetry == Permutations(Block \ {Caller})
=============================================================================
