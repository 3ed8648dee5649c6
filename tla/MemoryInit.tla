----------------------------- MODULE MemoryInit -----------------------------
(***************************************************************************)
(* memory_init of libc/stdlib/malloc.c: choosing the heap's range from the *)
(* memory map that the boot loader collected.  One step of the module is   *)
(* one iteration of the loop over the map.                                 *)
(***************************************************************************)
EXTENDS Integers, Sequences

CONSTANTS
  HEAP_MIN,       \* end of user space, where the heap may start
  MAPPED_LIMIT,   \* end of the identity-mapped memory
  WORD,           \* 2^64, where addresses wrap around
  GAP,            \* left free between the kernel and the heap (0x1000)
  FALLBACK,       \* size of the heap when the map offers nothing (0x100000)
  KernelEnds,     \* where the linked kernel may end
  Maps            \* memory maps the firmware may report

VARIABLES
  mmap, i, heap_beginning, heap_end, last_alloc, best_base, best_len, done

memory_vars == <<mmap, i, heap_beginning, heap_end, last_alloc, best_base, best_len, done>>

ALLOC_ALIGN == 16
MMAP_USABLE == 1
MMAP_RESERVED == 2

\* ALIGN_UP: the next multiple of ALLOC_ALIGN.
ALIGN_UP(x) == ((x + (ALLOC_ALIGN - 1)) \div ALLOC_ALIGN) * ALLOC_ALIGN

mmap_entry_t ==
  [base_addr : 0 .. WORD - 1, length : 0 .. WORD - 1, type : {MMAP_USABLE, MMAP_RESERVED}]

\* The kernel is linked below the mapped limit, and the limits are page aligned.
ASSUME InitConstants ==
  /\ HEAP_MIN \in Nat /\ HEAP_MIN % ALLOC_ALIGN = 0
  /\ MAPPED_LIMIT \in Nat /\ MAPPED_LIMIT % ALLOC_ALIGN = 0
  /\ HEAP_MIN < MAPPED_LIMIT /\ WORD \in Nat /\ MAPPED_LIMIT < WORD
  /\ GAP \in Nat /\ FALLBACK \in Nat
  /\ KernelEnds \subseteq {k \in Nat : k + GAP <= MAPPED_LIMIT}
  /\ Maps \subseteq Seq(mmap_entry_t)

\* Mutant: the clip at the start is left out.
AtLeast_Unclipped(x, low) == x

AtLeast(x, low) == IF x < low THEN low ELSE x
AtMost(x, high) == IF x > high THEN high ELSE x

\* The globals before memory_init is called; i is 0 until then.
Zeroed ==
  /\ mmap = <<>> /\ i = 0 /\ done = FALSE
  /\ best_base = 0 /\ best_len = 0
  /\ heap_beginning = 0 /\ heap_end = 0 /\ last_alloc = 0

\* memory_init(kernel_end, mmap, mmap_count), up to its loop.
memory_init(map) ==
  /\ i = 0 /\ i' = 1
  /\ mmap' = map
  /\ \E kernel_end \in KernelEnds :
       heap_beginning' = AtLeast(ALIGN_UP(kernel_end + GAP), HEAP_MIN)
  /\ UNCHANGED <<best_base, best_len, heap_end, last_alloc, done>>

\* One entry of the map: skipped unless it is usable, starts below the mapped
\* limit and reaches past the start of the heap; otherwise clipped to both and
\* kept if it is the largest so far.
EntryEnd(e) == AtMost((e.base_addr + e.length) % WORD, MAPPED_LIMIT)
\* Mutant: the type is not looked at.
Skipped_AnyType(e) == e.base_addr >= MAPPED_LIMIT \/ EntryEnd(e) <= heap_beginning
Skipped(e) ==
  \/ e.type # MMAP_USABLE
  \/ e.base_addr >= MAPPED_LIMIT
  \/ EntryEnd(e) <= heap_beginning
EntryStart(e) == AtLeast(e.base_addr, heap_beginning)
NewLength(e) == (EntryEnd(e) - EntryStart(e)) % WORD
IsBetter(e) == ~ Skipped(e) /\ NewLength(e) > best_len

scan ==
  /\ ~ done /\ i \in DOMAIN mmap
  /\ IF IsBetter(mmap[i])
     THEN /\ best_len' = NewLength(mmap[i])
          /\ best_base' = EntryStart(mmap[i])
     ELSE UNCHANGED <<best_len, best_base>>
  /\ i' = i + 1
  /\ UNCHANGED <<mmap, heap_beginning, heap_end, last_alloc, done>>

finish ==
  /\ ~ done /\ i > Len(mmap)
  /\ IF best_len = 0
     THEN /\ heap_end' = AtMost(heap_beginning + FALLBACK, MAPPED_LIMIT)
          /\ UNCHANGED heap_beginning
     ELSE /\ heap_beginning' = ALIGN_UP(best_base)
          /\ heap_end' = AtMost((best_base + best_len) % WORD, MAPPED_LIMIT)
  /\ last_alloc' = heap_beginning'
  /\ done' = TRUE
  /\ UNCHANGED <<mmap, i, best_base, best_len>>

memory_init_loop == scan \/ finish

MemorySpec ==
  Zeroed /\ [][(\E map \in Maps : memory_init(map)) \/ memory_init_loop]_memory_vars

-----------------------------------------------------------------------------
(* Properties *)

TypeOK ==
  /\ mmap \in Seq(mmap_entry_t) /\ i \in Nat /\ done \in BOOLEAN
  /\ heap_beginning \in Nat /\ heap_end \in 0 .. MAPPED_LIMIT /\ last_alloc \in Nat
  /\ best_base \in Nat /\ best_len \in 0 .. WORD - 1

\* The heap never reaches into user space ("we dont want the heap to grow into
\* user space") nor past the mapped memory, whatever the map says: entries that
\* straddle either limit, that are tiny, or whose length wraps around included.
HeapWithinLimits ==
  done => /\ heap_beginning \in HEAP_MIN .. MAPPED_LIMIT
          /\ heap_beginning % ALLOC_ALIGN = 0
          /\ heap_end <= MAPPED_LIMIT
          /\ last_alloc = heap_beginning

\* Unless nothing in the map is usable, every byte of the heap belongs to one
\* usable entry: the heap never covers reserved memory or a hole.
HeapIsUsableRam ==
  done /\ best_len > 0 =>
    \E k \in DOMAIN mmap :
      /\ mmap[k].type = MMAP_USABLE
      /\ mmap[k].base_addr <= heap_beginning
      /\ heap_end <= mmap[k].base_addr + mmap[k].length
=============================================================================
