------------------------------- MODULE MCBoot -------------------------------
(* Machines on which one or two of the methods work, one key that may have  *)
(* been hit before the loader ran, page tables of five entries, and memory  *)
(* maps around the limits of the heap.                                      *)
EXTENDS Boot

MCMethods == {{"default"}, {"bios"}, {"keyboard"}, {"fast"}, {"keyboard", "fast"}}
MCWaiting == {30}

MB == 1048576
MCKernelEnds == {180000}

\* Low memory, a region across both limits, one that starts unaligned and whose
\* end wraps around, one of a few bytes, one past the mapped memory, and a
\* reserved one over all.
Region(base, length, type) == [base_addr |-> base, length |-> length, type |-> type]
MCRegions ==
  {Region(0, 640 * 1024, MMAP_USABLE), Region(MB, 11 * MB, MMAP_USABLE),
   Region(9 * MB + 5, 60 * MB, MMAP_USABLE), Region(9 * MB + 5, 8, MMAP_USABLE),
   Region(12 * MB, MB, MMAP_USABLE), Region(0, 12 * MB, MMAP_RESERVED)}
MCMaps == {<<e, f>> : e, f \in MCRegions}
=============================================================================
