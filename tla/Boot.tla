-------------------------------- MODULE Boot --------------------------------
(***************************************************************************)
(* The boot loader as a whole, up to the kernel's heap: stage 1 reads      *)
(* stage 2 and jumps to it, stage 2 enters the kernel, and the kernel      *)
(* hands stage 2's memory map to memory_init.  The stages share the byte   *)
(* at BOOT_DRIVE_SHARED and the A20 line, which the keyboard controller    *)
(* may still be switching when stage 2 runs.                               *)
(***************************************************************************)
EXTENDS Stage1, Stage2, MemoryInit

\* The firmware has a region to describe in every answer it gives.
ASSUME BootMaps == \A map \in Maps : Len(map) >= MaxEntries

vars == <<vars1, vars2, memory_vars>>

Init == Init1 /\ Init2 /\ Zeroed

stage1 == ~ Ended1 /\ cpu1 /\ UNCHANGED <<vars2, memory_vars>>
keyboard_controller == (controller \/ settle) /\ UNCHANGED <<vars2, memory_vars>>
stage2 == pc1 = "stage2" /\ Next2(low) /\ UNCHANGED <<vars1, memory_vars>>

\* memory_init gets the address of stage 2's buffer and its count, and reads
\* there what the firmware wrote into the entries that were kept.
kernel_main ==
  /\ pc2 = "kernel_main"
  /\ \E map \in Maps :
       memory_init([k \in 1 .. mmap_entry_count |-> map[buffer[k].n]])
  /\ UNCHANGED <<vars1, vars2>>
heap_kernel == memory_init_loop /\ UNCHANGED <<vars1, vars2>>

Next == stage1 \/ keyboard_controller \/ stage2 \/ kernel_main \/ heap_kernel

Spec == Init /\ [][Next]_vars

\* The CPU executes the loader and the kernel, the controller takes what it is
\* sent, and a line being switched settles.
FairSpec ==
  /\ Spec /\ WF_vars(stage1) /\ WF_vars(stage2) /\ WF_vars(keyboard_controller)
  /\ WF_vars(kernel_main) /\ WF_vars(heap_kernel)

-----------------------------------------------------------------------------
(* Properties *)

\* Stage 2 reads the file system from the drive the firmware booted from: "we
\* also save dl to a memory address which the second stage of the bootloader
\* can access later" (start, check_a20, start2).
SameDrive == pc2 \notin {"detect_memory", "mmap_done", "initrd"} => drive = BOOT_DRIVE

\* "this is the maximum that we can map because of the entries we made in the
\* bootloader" (malloc.c): whatever the firmware describes and stage 2 keeps of
\* it, every page the heap reaches into is one that stage 2's tables map, and
\* none is one that ring 3 can reach.
HeapIsMapped ==
  done =>
    \A page \in heap_beginning \div HUGE_PAGE_SIZE .. (heap_end - 1) \div HUGE_PAGE_SIZE :
      page \in Indices /\ Mapped(0, 0, page) /\ ~ UserMapped(0, 0, page)

\* The loader comes to an end: in a kernel that has a heap, or in one of the
\* loader's error loops.
BootEnds ==
  <>(IF pc1 = "stage2" THEN Ended2 /\ (pc2 = "kernel_main" => done) ELSE Ended1)
=============================================================================
