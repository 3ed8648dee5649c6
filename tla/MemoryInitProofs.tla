-------------------------- MODULE MemoryInitProofs --------------------------
(***************************************************************************)
(* Proofs about module MemoryInit, for every memory map and every limit.   *)
(***************************************************************************)
EXTENDS MemoryInit, TLAPS

\* The range kept so far lies in one usable entry, between the limits.
Kept ==
  best_len > 0 =>
    /\ HEAP_MIN <= best_base /\ best_base < MAPPED_LIMIT
    /\ \E k \in DOMAIN mmap :
         /\ mmap[k].type = MMAP_USABLE
         /\ mmap[k].base_addr <= best_base
         /\ (best_base + best_len) % WORD <= mmap[k].base_addr + mmap[k].length

\* The inductive invariant: while the loop runs, the tentative start of the heap
\* is aligned and between the limits.
IInv ==
  /\ TypeOK
  /\ Kept
  /\ i = 0 => ~ done /\ best_len = 0
  /\ i > 0 => heap_beginning \in HEAP_MIN .. MAPPED_LIMIT /\ heap_beginning % ALLOC_ALIGN = 0
  /\ done => last_alloc = heap_beginning
  /\ done /\ best_len > 0 =>
       /\ best_base <= heap_beginning
       /\ heap_end <= (best_base + best_len) % WORD

LEMMA AlignUp ==
  ASSUME NEW x \in Nat, x <= MAPPED_LIMIT
  PROVE  /\ ALIGN_UP(x) \in Nat /\ ALIGN_UP(x) % ALLOC_ALIGN = 0
         /\ x <= ALIGN_UP(x) /\ ALIGN_UP(x) <= MAPPED_LIMIT
BY InitConstants DEF ALIGN_UP, ALLOC_ALIGN

LEMMA Limits ==
  /\ WORD \in Nat /\ WORD > 0 /\ MAPPED_LIMIT \in Nat /\ MAPPED_LIMIT < WORD
  /\ HEAP_MIN \in Nat /\ HEAP_MIN < MAPPED_LIMIT /\ FALLBACK \in Nat
BY InitConstants

\* Arithmetic modulo 2^64.
LEMMA Wrap ==
  ASSUME NEW x \in Int, NEW r, r = x % WORD
  PROVE  /\ r \in 0 .. WORD - 1
         /\ x \in Nat => r <= x
         /\ 0 <= x /\ x < WORD => r = x
         /\ -WORD <= x /\ x < 0 => r = x + WORD
         /\ WORD <= x /\ x < WORD + WORD => r = x - WORD
BY Limits

\* The end of the clipped entry is found again from its start and length.
LEMMA EndFromLength ==
  ASSUME NEW s \in 0 .. WORD - 1, NEW e \in 0 .. WORD - 1
  PROVE  (s + ((e - s) % WORD)) % WORD = e
<1>. DEFINE d == (e - s) % WORD
            x == s + d
            r == x % WORD
<1>1. e - s \in Int /\ s \in Int /\ e \in Int
  BY Limits
<1>2. /\ 0 <= e - s /\ e - s < WORD => d = e - s
      /\ -WORD <= e - s /\ e - s < 0 => d = e - s + WORD
      /\ d \in 0 .. WORD - 1
  BY <1>1, Wrap
<1>. HIDE DEF d
<1>3. x \in Int
  BY <1>1, <1>2, Limits
<1>. HIDE DEF x
<1>4. /\ 0 <= x /\ x < WORD => r = x
      /\ WORD <= x /\ x < WORD + WORD => r = x - WORD
  BY <1>3, Wrap
<1>. HIDE DEF r
<1>5. r = e
  BY <1>2, <1>4, Limits DEF x
<1>. QED
  BY <1>5 DEF r, x, d

LEMMA InitInv == Zeroed => IInv
<1>1. Zeroed => TypeOK
  <2>1. 0 \in 0 .. MAPPED_LIMIT /\ 0 \in 0 .. WORD - 1 /\ <<>> \in Seq(mmap_entry_t)
    BY Limits
  <2>2. 0 \in Nat
    OBVIOUS
  <2>. QED
    BY <2>1, <2>2, Zenon DEF Zeroed, TypeOK
<1>. QED
  BY <1>1 DEF Zeroed, IInv, Kept

LEMMA CallStep ==
  ASSUME IInv, NEW map \in Maps, memory_init(map)
  PROVE  IInv'
<1>1. PICK kernel_end \in KernelEnds :
        heap_beginning' = AtLeast(ALIGN_UP(kernel_end + GAP), HEAP_MIN)
  BY DEF memory_init
<1>2. kernel_end + GAP \in Nat /\ kernel_end + GAP <= MAPPED_LIMIT
  BY InitConstants
<1>3. /\ ALIGN_UP(kernel_end + GAP) \in Nat /\ ALIGN_UP(kernel_end + GAP) <= MAPPED_LIMIT
      /\ ALIGN_UP(kernel_end + GAP) % ALLOC_ALIGN = 0
  BY <1>2, AlignUp
<1>4. /\ heap_beginning' \in HEAP_MIN .. MAPPED_LIMIT /\ heap_beginning' % ALLOC_ALIGN = 0
      /\ heap_beginning' \in Nat
  BY <1>1, <1>3, InitConstants DEF AtLeast
<1>5. mmap' \in Seq(mmap_entry_t)
  BY InitConstants DEF memory_init
<1>6. /\ i' = 1 /\ ~ done /\ done' = done /\ best_len' = 0
      /\ UNCHANGED <<best_base, best_len, heap_end, last_alloc>>
  BY DEF memory_init, IInv
<1>7. TypeOK'
  BY <1>4, <1>5, <1>6 DEF IInv, TypeOK
<1>. QED
  BY <1>4, <1>6, <1>7 DEF IInv, Kept

LEMMA ScanStep == IInv /\ scan => IInv'
<1>. SUFFICES ASSUME IInv, scan
              PROVE  IInv'
  OBVIOUS
<1>. USE Limits
<1>0. UNCHANGED <<mmap, heap_beginning, heap_end, last_alloc, done>> /\ ~ done /\ i' = i + 1
  BY DEF scan
<1>1. i > 0 /\ i' > 0
  BY <1>0 DEF scan, IInv, TypeOK
<1>2. CASE ~ IsBetter(mmap[i])
  <2>1. best_len' = best_len /\ best_base' = best_base
    BY <1>2 DEF scan
  <2>2. TypeOK'
    BY <1>0, <2>1 DEF IInv, TypeOK
  <2>3. Kept'
    BY <1>0, <2>1 DEF IInv, Kept
  <2>. QED
    BY <1>0, <1>1, <2>1, <2>2, <2>3 DEF IInv
<1>3. CASE IsBetter(mmap[i])
  <2>. DEFINE e  == mmap[i]
              hi == EntryEnd(e)
              lo == EntryStart(e)
  <2>1. i \in DOMAIN mmap /\ e \in mmap_entry_t
    BY DEF scan, IInv, TypeOK
  <2>. HIDE DEF e
  <2>2. e.base_addr \in 0 .. WORD - 1 /\ e.length \in 0 .. WORD - 1
    BY <2>1 DEF mmap_entry_t
  <2>3. heap_beginning \in HEAP_MIN .. MAPPED_LIMIT
    BY <1>1 DEF IInv
  <2>4. hi \in 0 .. MAPPED_LIMIT /\ hi <= e.base_addr + e.length
    <3>. DEFINE x == e.base_addr + e.length
                r == x % WORD
    <3>1. x \in Int /\ x \in Nat
      BY <2>2
    <3>2. hi = IF r > MAPPED_LIMIT THEN MAPPED_LIMIT ELSE r
      BY DEF EntryEnd, AtMost
    <3>. HIDE DEF x
    <3>3. r \in 0 .. WORD - 1 /\ r <= x
      BY <3>1, Wrap
    <3>. HIDE DEF r, hi
    <3>4. hi \in 0 .. MAPPED_LIMIT /\ hi <= x
      BY <3>1, <3>2, <3>3
    <3>. QED
      BY <3>4 DEF x
  <2>5. /\ e.type = MMAP_USABLE /\ e.base_addr < MAPPED_LIMIT
        /\ heap_beginning < hi
    BY <1>3, <2>2, <2>3, <2>4 DEF IsBetter, Skipped, e
  <2>6. /\ lo \in HEAP_MIN .. MAPPED_LIMIT /\ lo < MAPPED_LIMIT /\ e.base_addr <= lo
    <3>. HIDE DEF hi
    <3>. QED
      BY <2>2, <2>3, <2>5, <2>4 DEF EntryStart, AtLeast
  <2>7. best_len' = (hi - lo) % WORD /\ best_base' = lo
    BY <1>3 DEF scan, NewLength, e
  <2>. HIDE DEF hi, lo
  <2>8. best_len' \in 0 .. WORD - 1 /\ (best_base' + best_len') % WORD = hi
    <3>1. hi - lo \in Int /\ hi \in 0 .. WORD - 1 /\ lo \in 0 .. WORD - 1
      BY <2>4, <2>6
    <3>. QED
      BY <2>7, <3>1, Wrap, EndFromLength
  <2>9. Kept'
    BY <1>0, <2>1, <2>5, <2>4, <2>6, <2>7, <2>8 DEF Kept, e
  <2>10. TypeOK'
    BY <1>0, <2>6, <2>7, <2>8 DEF IInv, TypeOK
  <2>. QED
    BY <1>0, <1>1, <2>9, <2>10 DEF IInv
<1>. QED
  BY <1>2, <1>3

LEMMA FinishStep == IInv /\ finish => IInv'
<1>. SUFFICES ASSUME IInv, finish
              PROVE  IInv'
  OBVIOUS
<1>. USE Limits
<1>0. /\ mmap' = mmap /\ i' = i /\ best_base' = best_base /\ best_len' = best_len
      /\ done' = TRUE /\ last_alloc' = heap_beginning' /\ i > 0
  BY DEF finish, IInv, TypeOK
<1>1. heap_beginning \in HEAP_MIN .. MAPPED_LIMIT /\ heap_beginning % ALLOC_ALIGN = 0
  BY <1>0 DEF IInv
<1>2. best_len \in 0 .. WORD - 1 /\ best_base \in Nat
  BY DEF IInv, TypeOK
<1>3. /\ heap_beginning' \in HEAP_MIN .. MAPPED_LIMIT /\ heap_beginning' % ALLOC_ALIGN = 0
      /\ heap_end' \in 0 .. MAPPED_LIMIT
      /\ best_len > 0 => /\ best_base <= heap_beginning'
                         /\ heap_end' <= (best_base + best_len) % WORD
  <2>1. CASE best_len = 0
    BY <2>1, <1>1 DEF finish, AtMost
  <2>2. CASE best_len # 0
    <3>1. HEAP_MIN <= best_base /\ best_base < MAPPED_LIMIT
      BY <2>2, <1>2 DEF IInv, Kept
    <3>2. /\ heap_beginning' = ALIGN_UP(best_base)
          /\ heap_end' = AtMost((best_base + best_len) % WORD, MAPPED_LIMIT)
      BY <2>2 DEF finish
    <3>3. (best_base + best_len) % WORD \in 0 .. WORD - 1
      <4>1. best_base + best_len \in Int
        BY <1>2
      <4>. QED
        BY <4>1, Wrap
    <3>. QED
      BY <1>2, <3>1, <3>2, <3>3, AlignUp DEF AtMost
  <2>. QED
    BY <2>1, <2>2
<1>4. TypeOK'
  BY <1>0, <1>3 DEF IInv, TypeOK
<1>5. Kept'
  BY <1>0 DEF IInv, Kept
<1>. QED
  BY <1>0, <1>3, <1>4, <1>5 DEF IInv

\* The invariant of the loop holds throughout memory_init.
THEOREM Invariant == MemorySpec => []IInv
<1>. DEFINE Next == (\E map \in Maps : memory_init(map)) \/ memory_init_loop
<1>1. ASSUME IInv, [Next]_memory_vars
      PROVE  IInv'
  <2>1. CASE UNCHANGED memory_vars
    BY <1>1, <2>1 DEF IInv, TypeOK, Kept, memory_vars
  <2>2. CASE Next
    BY <1>1, <2>2, CallStep, ScanStep, FinishStep DEF memory_init_loop
  <2>. QED
    BY <1>1, <2>1, <2>2
<1>. QED
  BY <1>1, InitInv, PTL DEF MemorySpec

\* Whatever the firmware reports, memory_init leaves an aligned heap above user
\* space and below the mapped limit.
THEOREM WithinLimits == MemorySpec => []HeapWithinLimits
<1>1. IInv => HeapWithinLimits
  BY Limits DEF IInv, TypeOK, HeapWithinLimits
<1>. QED
  BY <1>1, Invariant, PTL

\* Whatever the firmware reports, a heap taken from the map lies in one of its
\* usable entries, even where the sums of 64-bit addresses wrap around.
THEOREM UsableRam == MemorySpec => []HeapIsUsableRam
<1>1. ASSUME IInv
      PROVE  HeapIsUsableRam
  <2>. SUFFICES ASSUME done, best_len > 0
                PROVE  \E k \in DOMAIN mmap :
                         /\ mmap[k].type = MMAP_USABLE
                         /\ mmap[k].base_addr <= heap_beginning
                         /\ heap_end <= mmap[k].base_addr + mmap[k].length
    BY DEF HeapIsUsableRam
  <2>1. PICK k \in DOMAIN mmap :
          /\ mmap[k].type = MMAP_USABLE
          /\ mmap[k].base_addr <= best_base
          /\ (best_base + best_len) % WORD <= mmap[k].base_addr + mmap[k].length
    BY <1>1 DEF IInv, Kept
  <2>2. mmap[k] \in mmap_entry_t
    BY <1>1, <2>1 DEF IInv, TypeOK
  <2>3. mmap[k].base_addr \in Nat /\ mmap[k].length \in Nat
    BY <2>2, InitConstants DEF mmap_entry_t
  <2>4. /\ best_base \in Nat /\ best_len \in Nat /\ heap_end \in Nat /\ heap_beginning \in Nat
        /\ best_base <= heap_beginning
        /\ heap_end <= (best_base + best_len) % WORD
    BY <1>1, InitConstants DEF IInv, TypeOK
  <2>5. (best_base + best_len) % WORD \in Nat
    <3>1. best_base + best_len \in Int
      BY <2>4
    <3>. QED
      BY <3>1, Wrap, Limits
  <2>. QED
    BY <2>1, <2>3, <2>4, <2>5
<1>. QED
  BY <1>1, Invariant, PTL
=============================================================================
