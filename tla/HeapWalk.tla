------------------------------ MODULE HeapWalk ------------------------------
(***************************************************************************)
(* The loops of malloc.c, calloc.c and free.c as they run: from header to  *)
(* header, by the sizes found in memory.  Module Heap says which block     *)
(* each loop must stop at; here the two are compared in every reachable    *)
(* heap, and the byte counter memory_used is compared with the blocks.     *)
(***************************************************************************)
EXTENDS Heap, FiniteSetsExt

\* The while loop of malloc and calloc: the address it leaves with, either a
\* free block that fits, or where new_alloc puts its header.
WalkForFit(h, n) ==
  LET loc[a \in Nat] ==
        IF a >= h.last_alloc \/ h.mem[a].size = 0 THEN [at |-> a, fits |-> FALSE]
        ELSE IF h.mem[a].status # 1 /\ h.mem[a].size >= n THEN [at |-> a, fits |-> TRUE]
        ELSE loc[BlockEnd(h, a)]
  IN  loc[h.heap_beginning]

\* The while loop of find_before ends only when the next header is the one
\* asked for; OffChain stands for the loop that walked past it.
OffChain == -1
WalkToBefore(h, b) ==
  LET cur[a \in Nat] ==
        IF BlockEnd(h, a) = b THEN a
        ELSE IF BlockEnd(h, a) >= h.last_alloc THEN OffChain
        ELSE cur[BlockEnd(h, a)]
  IN  IF h.heap_beginning = b THEN NULL ELSE cur[h.heap_beginning]

-----------------------------------------------------------------------------
(* Properties *)

\* malloc's walk over memory stops at the lowest free block that fits, or else
\* exactly at last_alloc, where the new header goes; it never takes the
\* zero-size exit in the middle of the chain, which would write a header over
\* a block.  find_before's loop, which has no exit but meeting the block, meets
\* every block of the heap, and stops at the one just before it.
WalksStopRight ==
  /\ heap.heap_beginning # 0 =>
       \A n \in {ALIGN_UP(r) : r \in Requests \ {0}} :
         WalkForFit(heap, n) = IF Fits(heap, n) # {}
                               THEN [at |-> FirstFit(heap, n), fits |-> TRUE]
                               ELSE [at |-> heap.last_alloc, fits |-> FALSE]
  /\ \A b \in heap.hdrs :
       WalkToBefore(heap, b) = IF Before(heap, b) # {} THEN find_before(heap, b) ELSE NULL

\* memory_used counts every used block with its header and nothing else,
\* through splits, merges, reuse and both ways realloc can go.
MemoryUsedExact ==
  heap.memory_used =
    MapThenSumSet(LAMBDA b : SIZEOF_ALLOC + heap.mem[b].size,
                  {b \in heap.hdrs : heap.mem[b].status = 1})
=============================================================================
