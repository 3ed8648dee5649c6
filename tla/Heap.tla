-------------------------------- MODULE Heap --------------------------------
(***************************************************************************)
(* The kernel heap of libc/stdlib: malloc, calloc, realloc and free over   *)
(* one contiguous range of memory.  Every block is an alloc_t header       *)
(* followed by its payload; the blocks tile [heap_beginning, last_alloc).  *)
(*                                                                         *)
(* Memory is a function from 16-byte cells to the alloc_t that the bytes   *)
(* of the cell would be read as, so client data and stale headers can be   *)
(* mistaken for headers exactly where the C code could mistake them.  The  *)
(* field hdrs is a history field: the addresses at which a block header    *)
(* currently stands.  The C code finds them by walking from heap_beginning;*)
(* module HeapWalk states those loops and checks that they agree.          *)
(***************************************************************************)
EXTENDS Integers

CONSTANTS
  HEAP_MIN,       \* lowest address the heap may have
  MAPPED_LIMIT,   \* end of the identity-mapped memory
  INT_MAX,        \* largest int
  SIZE_MAX,       \* largest size_t
  HeapRanges,     \* the <<heap_beginning, heap_end>> memory_init may choose
  Requests,       \* sizes a client asks for
  Amounts,        \* element counts a client passes to calloc
  Junk            \* what a client may leave in a cell, read as an alloc_t

VARIABLES
  heap,           \* the allocator's globals and the memory it manages
  live,           \* pointer held by a client -> bytes it asked for
  stale           \* the pointer freed last, while nothing was allocated since

vars == <<heap, live, stale>>

NULL == 0
ALLOC_ALIGN == 16
SIZEOF_ALLOC == 16

\* ALIGN_UP: the next multiple of ALLOC_ALIGN.
ALIGN_UP(x) == ((x + (ALLOC_ALIGN - 1)) \div ALLOC_ALIGN) * ALLOC_ALIGN

\* What memory_init leaves: an aligned start at or above HEAP_MIN and an end
\* inside the mapped memory (module MemoryInit shows this of the code).
ASSUME HeapConstants ==
  /\ HEAP_MIN \in Nat /\ HEAP_MIN > 0 /\ HEAP_MIN % ALLOC_ALIGN = 0
  /\ MAPPED_LIMIT \in Nat /\ INT_MAX \in Nat /\ SIZE_MAX \in Nat
  /\ HeapRanges \subseteq
       {r \in (HEAP_MIN .. MAPPED_LIMIT) \X (0 .. MAPPED_LIMIT) : r[1] % ALLOC_ALIGN = 0}
  /\ Requests \subseteq Nat /\ Amounts \subseteq Nat
  /\ Junk \subseteq [status : 0 .. 255, size : Nat]

Cells == {a \in HEAP_MIN .. MAPPED_LIMIT : a % ALLOC_ALIGN = 0}

alloc_t == [status : 0 .. 255, size : Nat]

Alloc(status, size) == [status |-> status, size |-> size]

HeapState ==
  [mem : [Cells -> alloc_t], hdrs : SUBSET Cells, heap_beginning : Nat,
   heap_end : Nat, last_alloc : Nat, memory_used : Int]

TypeOK ==
  /\ heap \in HeapState
  /\ DOMAIN live \subseteq Cells
  /\ \A p \in DOMAIN live : live[p] \in Nat
  /\ stale \in Cells \cup {NULL}

-----------------------------------------------------------------------------
(* Stores to memory *)

\* memset(lo, 0, hi - lo): a zeroed cell reads as a free header of size 0.
Clear(m, lo, hi) ==
  [a \in Cells |-> IF lo <= a /\ a < hi THEN Alloc(0, 0) ELSE m[a]]

\* memcpy(to, from, n)
Copy(m, to, from, n) ==
  [a \in Cells |-> IF to <= a /\ a < to + n THEN m[from + (a - to)] ELSE m[a]]

Header(p) == p - SIZEOF_ALLOC
BlockEnd(h, b) == b + SIZEOF_ALLOC + h.mem[b].size

SetStatus(h, b, s) == [h EXCEPT !.mem[b] = Alloc(s, h.mem[b].size)]
ClearPayload(h, b, n) ==
  [h EXCEPT !.mem = Clear(h.mem, b + SIZEOF_ALLOC, b + SIZEOF_ALLOC + n)]
Account(h, n) == [h EXCEPT !.memory_used = @ + n]

\* A block keeps its first n bytes and the rest becomes a free block of its own,
\* when that rest holds a header and at least one more byte.
\* Mutant: a rest that holds only a header is split off.
Splits_EmptyRest(h, b, n) == h.mem[b].size - n >= SIZEOF_ALLOC
Splits(h, b, n) == h.mem[b].size - n > SIZEOF_ALLOC
Shrink(h, b, n) ==
  LET rest == b + SIZEOF_ALLOC + n
  IN  IF Splits(h, b, n)
      THEN [h EXCEPT !.mem = [h.mem EXCEPT
                        ![rest] = Alloc(0, h.mem[b].size - n - SIZEOF_ALLOC),
                        ![b] = Alloc(h.mem[b].status, n)],
                     !.hdrs = @ \cup {rest}]
      ELSE h

\* Mutant: the swallowed header's bytes are not counted.
Absorb_LosesHeader(h, b, c) ==
  [h EXCEPT !.mem[b] = Alloc(h.mem[b].status, h.mem[b].size + h.mem[c].size),
            !.hdrs = @ \ {c}]
\* Block b swallows block c behind it, header and all.
Absorb(h, b, c) ==
  [h EXCEPT !.mem[b] = Alloc(h.mem[b].status, h.mem[b].size + SIZEOF_ALLOC + h.mem[c].size),
            !.hdrs = @ \ {c}]

-----------------------------------------------------------------------------
(* malloc and calloc *)

\* Mutant: the walk takes used blocks too.
Fits_AnyStatus(h, n) == {b \in h.hdrs : h.mem[b].size >= n}

\* What the walk over the chain stops at: the first free block that is large
\* enough.
Fits(h, n) == {b \in h.hdrs : h.mem[b].status # 1 /\ h.mem[b].size >= n}
FirstFit(h, n) == CHOOSE b \in Fits(h, n) : \A c \in Fits(h, n) : b <= c

\* Reuse block b: split it, mark it used, account for it and clear it.
\* malloc clears the whole block, calloc only the bytes asked for.
Reuse(h, b, n, wholeBlock) ==
  LET s    == SetStatus(Shrink(h, b, n), b, 1)
      size == s.mem[b].size
  IN  Account(ClearPayload(s, b, IF wholeBlock THEN size ELSE n), size + SIZEOF_ALLOC)

\* Mutant: the room for the header is forgotten.
HasRoom_NoHeader(h, n) == h.last_alloc + n < h.heap_end
HasRoom(h, n) == h.last_alloc + n + SIZEOF_ALLOC < h.heap_end

\* A new block after the last one.
Extend(h, n) ==
  LET b == h.last_alloc
      e == [h EXCEPT !.mem[b] = Alloc(1, n), !.hdrs = @ \cup {b},
                     !.last_alloc = @ + n + SIZEOF_ALLOC]
  IN  Account(ClearPayload(e, b, n), n + SIZEOF_ALLOC)

\* The allocation both functions share, for an aligned size: the heap after it
\* and the pointer returned.
Fail(h) == [heap |-> h, ptr |-> NULL]
AllocBlock(h, n, wholeBlock) ==
  IF Fits(h, n) # {}
  THEN [heap |-> Reuse(h, FirstFit(h, n), n, wholeBlock),
        ptr  |-> FirstFit(h, n) + SIZEOF_ALLOC]
  ELSE IF HasRoom(h, n)
  THEN [heap |-> Extend(h, n), ptr |-> h.last_alloc + SIZEOF_ALLOC]
  ELSE Fail(h)

TooBig(n) == n > INT_MAX - (ALLOC_ALIGN - 1)

mallocOp(h, n) ==
  IF n = 0 \/ h.heap_beginning = 0 \/ TooBig(n) THEN Fail(h)
  ELSE AllocBlock(h, ALIGN_UP(n), TRUE)

callocOp(h, amount, n) ==
  IF \/ n = 0 \/ amount = 0
     \/ n > SIZE_MAX \div amount \/ TooBig(amount * n)
     \/ h.heap_beginning = 0
  THEN Fail(h)
  ELSE AllocBlock(h, ALIGN_UP(amount * n), FALSE)

-----------------------------------------------------------------------------
(* free *)

\* find_before: the last block that starts before b, if there is one.
Before(h, b) == {c \in h.hdrs : c < b}
find_before(h, b) == CHOOSE c \in Before(h, b) : \A d \in Before(h, b) : d <= c

\* Merge the block behind b into b, then b into the block before it, each
\* only when it is free; the block that holds b's bytes afterwards.
\* Mutant: the next block is merged even while it is used.
MergesNext_AnyStatus(h, b) == BlockEnd(h, b) < h.last_alloc
MergesNext(h, b) == BlockEnd(h, b) < h.last_alloc /\ h.mem[BlockEnd(h, b)].status = 0
MergeNext(h, b) == IF MergesNext(h, b) THEN Absorb(h, b, BlockEnd(h, b)) ELSE h

MergesBack(h, b) == Before(h, b) # {} /\ h.mem[find_before(h, b)].status = 0
MergeBack(h, b) == IF MergesBack(h, b) THEN Absorb(h, find_before(h, b), b) ELSE h
Kept(h, b) == IF MergesBack(h, b) THEN find_before(h, b) ELSE b

Release(h, b) ==
  LET f    == Account(SetStatus(h, b, 0), - (SIZEOF_ALLOC + h.mem[b].size))
      m    == MergeBack(MergeNext(f, b), b)
      keep == Kept(MergeNext(f, b), b)
  IN  ClearPayload(m, keep, m.mem[keep].size)

\* Mutant: the status is not tested.
freeOp_NoTest(h, p) == IF p = NULL THEN h ELSE Release(h, Header(p))
freeOp(h, p) ==
  IF p = NULL \/ h.mem[Header(p)].status = 0 THEN h ELSE Release(h, Header(p))

-----------------------------------------------------------------------------
(* realloc *)

\* Mutant: memory_used is not lowered.
ShrinkInPlace_NoAccount(h, b, n) == IF Splits(h, b, n) THEN Shrink(h, b, n) ELSE h

\* Shrinking in place gives the split-off rest back, but does not merge it.
ShrinkInPlace(h, b, n) ==
  IF Splits(h, b, n) THEN Account(Shrink(h, b, n), - (h.mem[b].size - n)) ELSE h

\* Growing moves the block: allocate, copy the old payload, free the old block.
Move(h, p, n) ==
  LET new  == mallocOp(h, n)
      size == new.heap.mem[Header(p)].size
  IN  IF new.ptr = NULL THEN Fail(h)
      ELSE [heap |-> freeOp([new.heap EXCEPT !.mem = Copy(@, new.ptr, p, size)], p),
            ptr  |-> new.ptr]

reallocOp(h, p, n) ==
  IF p = NULL THEN Fail(h)
  ELSE IF n = 0 THEN Fail(freeOp(h, p))
  ELSE IF TooBig(n) THEN Fail(h)
  ELSE IF h.mem[Header(p)].size >= ALIGN_UP(n)
  THEN [heap |-> ShrinkInPlace(h, Header(p), ALIGN_UP(n)), ptr |-> p]
  ELSE Move(h, p, ALIGN_UP(n))

-----------------------------------------------------------------------------
(* The heap and its clients *)

Init ==
  /\ \E g \in Junk :
       heap = [mem |-> [a \in Cells |-> g], hdrs |-> {}, heap_beginning |-> 0,
               heap_end |-> 0, last_alloc |-> 0, memory_used |-> 0]
  /\ live = [p \in {} |-> 0]
  /\ stale = NULL

\* memory_init runs once, before anything holds a pointer.
memory_init ==
  /\ heap.heap_beginning = 0
  /\ \E r \in HeapRanges :
       heap' = [heap EXCEPT !.heap_beginning = r[1], !.heap_end = r[2],
                            !.last_alloc = r[1], !.memory_used = 0]
  /\ UNCHANGED <<live, stale>>

\* The client keeps the pointer it is given and remembers how much it asked for.
Hold(l, p, n) == [q \in DOMAIN l \cup {p} |-> IF q = p THEN n ELSE l[q]]
Drop(l, p) == [q \in DOMAIN l \ {p} |-> l[q]]

Returned(r, n) ==
  /\ heap' = r.heap
  /\ live' = IF r.ptr = NULL THEN live ELSE Hold(live, r.ptr, n)
  /\ stale' = IF r.ptr = NULL THEN stale ELSE NULL

malloc(n) == Returned(mallocOp(heap, n), n)

calloc(amount, n) == Returned(callocOp(heap, amount, n), amount * n)

\* free of a live pointer, of NULL, or once more of the pointer just freed.
free(p) ==
  /\ heap' = freeOp(heap, p)
  /\ live' = Drop(live, p)
  /\ stale' = IF p = NULL THEN stale ELSE p

realloc(p, n) ==
  LET r == reallocOp(heap, p, n)
  IN  /\ heap' = r.heap
      /\ live' = IF r.ptr # NULL THEN Hold(Drop(live, p), r.ptr, n)
                 ELSE IF n = 0 THEN Drop(live, p) ELSE live
      /\ stale' = IF r.ptr # NULL THEN NULL
                  ELSE IF n = 0 /\ p # NULL THEN p ELSE stale

\* A client writes into memory it owns.
client_write(p, a, v) ==
  /\ p <= a /\ a < p + live[p]
  /\ heap' = [heap EXCEPT !.mem[a] = v]
  /\ UNCHANGED <<live, stale>>

Next ==
  \/ memory_init
  \/ \E n \in Requests : malloc(n)
  \/ \E amount \in Amounts, n \in Requests : calloc(amount, n)
  \/ \E p \in DOMAIN live \cup {NULL, stale} : free(p)
  \/ \E p \in DOMAIN live \cup {NULL}, n \in Requests : realloc(p, n)
  \/ \E p \in DOMAIN live, a \in Cells, v \in Junk : client_write(p, a, v)

Spec == Init /\ [][Next]_vars

-----------------------------------------------------------------------------
(* Properties *)

\* The blocks tile [heap_beginning, last_alloc): the first one starts at
\* heap_beginning, each ends where the next one starts or at last_alloc, none
\* is empty, and last_alloc stays below heap_end.  This is what lets every loop
\* of malloc.c, calloc.c and free.c step from header to header, whatever the
\* clients write into their payloads.
Chain(h) ==
  /\ h.last_alloc = h.heap_beginning \/ h.heap_beginning \in h.hdrs
  /\ h.last_alloc = h.heap_beginning \/ h.last_alloc < h.heap_end
  /\ \A b \in h.hdrs :
       /\ h.heap_beginning <= b
       /\ h.mem[b].status \in {0, 1}
       /\ h.mem[b].size > 0 /\ h.mem[b].size % ALLOC_ALIGN = 0
       /\ BlockEnd(h, b) \in h.hdrs \cup {h.last_alloc}
       /\ \A c \in h.hdrs : b < c => BlockEnd(h, b) <= c
Tiled == Chain(heap)

\* The used blocks are exactly the ones clients hold: no split, merge or reuse
\* leaks a block or gives back one that is still held, and each is at least as
\* large as what its client asked for.
UsedBlocks(h) == {b \in h.hdrs : h.mem[b].status = 1}
UsedAreHeld ==
  /\ UsedBlocks(heap) = {Header(p) : p \in DOMAIN live}
  /\ \A p \in DOMAIN live : live[p] > 0 /\ live[p] <= heap.mem[Header(p)].size

\* Two clients never share a byte, no client's bytes overlap a header, and all
\* of them are inside the heap that memory_init chose: what every caller of
\* malloc, calloc and realloc relies on.
LiveDisjoint ==
  \A p \in DOMAIN live :
    /\ heap.heap_beginning < p /\ p + live[p] < heap.heap_end
    /\ \A q \in DOMAIN live : p < q => p + live[p] <= Header(q)
    /\ \A b \in heap.hdrs : ~ (p <= b /\ b < p + live[p])

\* No call changes the data of a client that keeps its pointer: malloc's clear
\* and split, free's merge and clear, and realloc's copy stay within their own
\* block (a shrinking realloc keeps the bytes that are left).
DataKept ==
  [][\/ \E p \in DOMAIN live, a \in Cells, v \in Junk : client_write(p, a, v)
     \/ \A p \in DOMAIN live \cap DOMAIN live', a \in Cells :
          p <= a /\ a < p + live[p] /\ a < p + live'[p] => heap'.mem[a] = heap.mem[a]]_vars

\* Freeing the pointer that was freed last a second time changes nothing: its
\* header reads as free even after it was merged into the block before it.
SecondFreeIsIgnored ==
  [][\A p \in {stale} \ (DOMAIN live \cup {NULL}) : free(p) => heap' = heap]_vars
=============================================================================
