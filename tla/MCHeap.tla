------------------------------- MODULE MCHeap -------------------------------
(* Small heaps for TLC: addresses are scaled down, the 16-byte cells are not. *)
EXTENDS HeapWalk

\* One heap with room for up to four blocks whose end is not aligned, and one
\* so small that aligning its start passed its end.
MCHeapRanges == {<<32, 173>>, <<48, 40>>}
MCRequests == {0, 1, 16, 20, 33, 64, 120}
MCAmounts == {0, 2, 16}
MCJunk == {[status |-> 0, size |-> 0], [status |-> 1, size |-> 16]}
=============================================================================
