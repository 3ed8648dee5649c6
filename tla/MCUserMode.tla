---------------------------- MODULE MCUserMode -----------------------------
(* Stacks of a few frames, and system calls around the edges of the region. *)
EXTENDS UserMode

\* Addresses whose bytes all differ.
MCTssAddress == [k \in 1 .. 8 |-> 16 * k + 1]
MCStubAddress == [v \in Vectors |-> <<v, v + 1, v + 2, v + 3, v + 4, v + 5, v + 6, v + 7>>]

MCBootStack == <<10, 50>>
MCKernelStack == <<60, 90>>
\* The call of user_code.c (8 words inside the region), one with no known
\* number, and buffers that start or end at the region's edges or wrap around.
MCCalls ==
  {<<1, 120, 8>>, <<7, 0, 0>>, <<1, 100, 0>>, <<1, 99, 2>>, <<1, 100, 40>>, <<1, 101, 40>>,
   <<1, 139, 1>>, <<1, 140, 0>>, <<1, 130, 900>>}
=============================================================================
