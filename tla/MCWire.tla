------------------------------- MODULE MCWire -------------------------------
(***************************************************************************)
(* An instance of Wire for TLC.                                            *)
(***************************************************************************)
EXTENDS Wire

\* The writer is attached to an empty buffer, or to one that holds a byte.
MCPrior == {<<>>, <<1>>}

\* Values with one digit set, which are enough to tell two digits apart.
MCValues == [kind \in Ints |-> {Base ^ i : i \in 0 .. Width[kind] - 1}]

\* States that differ only in the last call are explored once.
MCView == <<bytes, out, written, view, pos, start, fields>>
=============================================================================
