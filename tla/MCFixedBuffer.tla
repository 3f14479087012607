--------------------------- MODULE MCFixedBuffer ---------------------------
(***************************************************************************)
(* An instance of FixedBuffer for TLC.                                     *)
(***************************************************************************)
EXTENDS FixedBuffer

\* The caller's memory: no two neighbouring bytes are alike.
MCCallerBytes == [i \in Slot |-> (i + 1) % 2]

\* States that differ only in the last call are explored once.
MCView == <<storage, size, alive, high>>
=============================================================================
