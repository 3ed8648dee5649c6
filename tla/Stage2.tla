------------------------------- MODULE Stage2 -------------------------------
(***************************************************************************)
(* The second stage (Doomboot/src/stage2.asm): it collects the firmware's  *)
(* memory map, reads the initial file system, goes to protected mode,      *)
(* builds the page tables and enters the kernel in long mode.              *)
(***************************************************************************)
EXTENDS Integers, Sequences, SequencesExt

CONSTANTS
  MaxEntries,      \* bound on the answers of the firmware's memory map call
  ENTRIES_PER_PT,  \* entries of a page table (512)
  USER_CODE_BASE, USER_STACK_TOP   \* the kernel's limits of the user's memory

HUGE_PAGE_SIZE == 2097152
SIZEOF_PAGE_TABLE == 4096
PML4T_ADDR == 4096
PDPT_ADDR == 8192
PDT_ADDR == 12288
PT_PRESENT == 1
PT_READABLE == 2
PT_USER == 4
PT_HUGE == 128

ASSUME Stage2Constants ==
  /\ MaxEntries \in Nat
  /\ ENTRIES_PER_PT \in 4 .. 512
  /\ USER_CODE_BASE = 2 * HUGE_PAGE_SIZE /\ USER_STACK_TOP = 4 * HUGE_PAGE_SIZE

VARIABLES
  pc2,
  given,           \* what the firmware has answered so far
  buffer,          \* the memory map at MMAP_BUFFER, one element per entry
  ebx, bp,         \* the firmware's continuation value, the entries counted
  ivt,             \* bit 0 of the byte at 0000:20 + 24 * n, in the vector table
  mmap_entry_count,
  drive,           \* the drive the file system is read from
  features,        \* what the CPU has, once it is asked
  tables,          \* the page tables, each entry as its two halves
  loop,            \* the registers of the loop that fills a table
  cr3, pae, lme, pg

vars2 == <<pc2, given, buffer, ebx, bp, ivt, mmap_entry_count, drive, features, tables, loop,
           cr3, pae, lme, pg>>

Indices == 0 .. ENTRIES_PER_PT - 1
Junk == [lo |-> PT_PRESENT + PT_USER, hi |-> 1]
Zero == [lo |-> 0, hi |-> 0]
Table(entry) == [k \in Indices |-> entry]

Init2 ==
  /\ pc2 = "detect_memory"
  /\ given = <<>> /\ buffer = <<>> /\ ebx = 0 /\ bp = 0
  /\ ivt \in [0 .. MaxEntries - 1 -> 0 .. 1]
  /\ mmap_entry_count = 0 /\ drive = 0
  /\ features = {}
  /\ tables = [t \in {PML4T_ADDR, PDPT_ADDR, PDT_ADDR} |-> Table(Junk)]
  /\ loop = [edi |-> 0, ebx |-> 0, ecx |-> 0]
  /\ cr3 = 0 /\ pae = FALSE /\ lme = FALSE /\ pg = FALSE

-----------------------------------------------------------------------------
(* detect_memory *)

\* An answer has 0, 20 or 24 bytes; the last four hold the attributes, whose
\* bit 0 is clear in an entry that is to be ignored.
Answer(bytes, bit0) == [n |-> Len(given) + 1, bytes |-> bytes, bit0 |-> bit0]
Answers == {Answer(0, 0), Answer(20, 0), Answer(24, 0), Answer(24, 1)}

\* The test reads [edi + 20] through ds, which is 0, while the firmware has
\* written through es: the byte is one of the interrupt vector table.
TestedBit(n) == ivt[n]

\* Mutant: entries without attributes are dropped too.
Keeps_OnlyExtended(e) == e.bytes > 20 /\ TestedBit(bp) = 1
Keeps(e) == e.bytes # 0 /\ (e.bytes <= 20 \/ TestedBit(bp) = 1)

\* The firmware writes at es:edi whether the entry will be kept or not.
Written(e) == IF e.bytes = 0 THEN buffer ELSE Append(SubSeq(buffer, 1, bp), e)

\* One call of int 0x15: it fails, or answers and says whether there is more.
mmap_loop ==
  /\ pc2 = "detect_memory"
  /\ \/ /\ pc2' = "mmap_done"
        /\ UNCHANGED <<given, buffer, ebx, bp>>
     \/ /\ Len(given) < MaxEntries
        /\ \E e \in Answers, more \in 0 .. 1 :
             /\ given' = Append(given, e)
             /\ buffer' = Written(e)
             /\ bp' = IF Keeps(e) THEN bp + 1 ELSE bp
             /\ ebx' = more
             /\ pc2' = IF more = 0 THEN "mmap_done" ELSE pc2
  /\ UNCHANGED <<ivt, mmap_entry_count, drive, features, tables, loop, cr3, pae, lme, pg>>

\* popa gives the registers back.
mmap_done ==
  /\ pc2 = "mmap_done" /\ pc2' = "initrd"
  /\ mmap_entry_count' = bp
  /\ ebx' = 0 /\ bp' = 0
  /\ UNCHANGED <<given, buffer, ivt, drive, features, tables, loop, cr3, pae, lme, pg>>

\* The file system is read from the drive whose number is at BOOT_DRIVE_SHARED.
read_initrd(shared) ==
  /\ pc2 = "initrd" /\ pc2' \in {"check_CPUID", "initrd_error"}
  /\ drive' = shared
  /\ UNCHANGED <<given, buffer, ebx, bp, ivt, mmap_entry_count, features, tables, loop, cr3, pae,
                 lme, pg>>

-----------------------------------------------------------------------------
(* Protected mode, paging and long mode *)

check_CPUID ==
  /\ pc2 = "check_CPUID"
  /\ features' \in SUBSET {"cpuid", "extended", "long mode"}
  /\ pc2' = IF "cpuid" \in features' THEN "check_long_mode_support" ELSE "pm_halt"
  /\ UNCHANGED <<given, buffer, ebx, bp, ivt, mmap_entry_count, drive, tables, loop, cr3, pae, lme,
                 pg>>
check_long_mode_support ==
  /\ pc2 = "check_long_mode_support"
  /\ pc2' = IF {"extended", "long mode"} \subseteq features THEN "clear" ELSE "pm_halt"
  /\ UNCHANGED <<given, buffer, ebx, bp, ivt, mmap_entry_count, drive, features, tables, loop, cr3,
                 pae, lme, pg>>

Fill(edi, value, ecx) == [edi |-> edi, ebx |-> value, ecx |-> ecx]

\* rep stosd writes SIZEOF_PAGE_TABLE double words: all of the tables.
Cleared(t) == Table(Zero)

\* The low half of an entry; the high half stays what it is.
Store(tbl, k, value) == [tbl EXCEPT ![k].lo = value]

\* The upper two tables, and the registers for the loop over the third.
set_up_paging ==
  /\ pc2 = "clear" /\ pc2' = "set_entry"
  /\ cr3' = PML4T_ADDR
  /\ tables' = [t \in DOMAIN tables |->
                  CASE t = PML4T_ADDR ->
                         Store(Cleared(t), 0, PDPT_ADDR + PT_PRESENT + PT_READABLE + PT_USER)
                    [] t = PDPT_ADDR ->
                         Store(Cleared(t), 0, PDT_ADDR + PT_PRESENT + PT_READABLE + PT_USER)
                    [] OTHER -> Cleared(t)]
  /\ loop' = Fill(PDT_ADDR, PT_PRESENT + PT_READABLE + PT_HUGE, ENTRIES_PER_PT)
  /\ UNCHANGED <<given, buffer, ebx, bp, ivt, mmap_entry_count, drive, features, pae, lme, pg>>

\* One pass of a loop: the entry at edi, then the next page and the next entry.
FillOne(here, next) ==
  /\ pc2 = here
  /\ tables' = [tables EXCEPT ![PDT_ADDR] = Store(@, (loop.edi - PDT_ADDR) \div 8, loop.ebx)]
  /\ IF loop.ecx = 1
     THEN pc2' = next
     ELSE pc2' = here
  /\ UNCHANGED <<given, buffer, ebx, bp, ivt, mmap_entry_count, drive, features, cr3, pae, lme, pg>>
Advanced == [edi |-> loop.edi + 8, ebx |-> loop.ebx + HUGE_PAGE_SIZE, ecx |-> loop.ecx - 1]

\* Mutant: the user's pages start one entry early.
user_loop_Early ==
  Fill(PDT_ADDR + 1 * 8, 4194304 + PT_PRESENT + PT_READABLE + PT_USER + PT_HUGE, 2)
user_loop ==
  Fill(PDT_ADDR + 2 * 8, 4194304 + PT_PRESENT + PT_READABLE + PT_USER + PT_HUGE, 2)
set_entry ==
  /\ FillOne("set_entry", "set_user_entry")
  /\ loop' = IF loop.ecx = 1 THEN user_loop ELSE Advanced
set_user_entry ==
  /\ FillOne("set_user_entry", "enable_pae")
  /\ loop' = Advanced

enable_pae ==
  /\ pc2 = "enable_pae" /\ pc2' = "comp_mode"
  /\ pae' = TRUE
  /\ UNCHANGED <<given, buffer, ebx, bp, ivt, mmap_entry_count, drive, features, tables, loop, cr3,
                 lme, pg>>
\* The long mode bit, then paging.
comp_mode ==
  /\ \/ pc2 = "comp_mode" /\ pc2' = "paging" /\ lme' = TRUE /\ UNCHANGED pg
     \/ pc2 = "paging" /\ pc2' = "long_mode_entry" /\ pg' = TRUE /\ UNCHANGED lme
  /\ UNCHANGED <<given, buffer, ebx, bp, ivt, mmap_entry_count, drive, features, tables, loop, cr3,
                 pae>>
long_mode_entry ==
  /\ pc2 = "long_mode_entry" /\ pc2' = "kernel_main"
  /\ UNCHANGED <<given, buffer, ebx, bp, ivt, mmap_entry_count, drive, features, tables, loop, cr3,
                 pae, lme, pg>>

Next2(shared) ==
  \/ mmap_loop \/ mmap_done \/ read_initrd(shared) \/ check_CPUID \/ check_long_mode_support
  \/ set_up_paging \/ set_entry \/ set_user_entry \/ enable_pae \/ comp_mode \/ long_mode_entry

Ended2 == pc2 \in {"kernel_main", "initrd_error", "pm_halt"}

-----------------------------------------------------------------------------
(* Properties *)

\* The map the kernel gets is the firmware's: when no answer has attributes, the
\* first mmap_entry_count entries are its answers in order, less the empty ones,
\* however the firmware marks the end (detect_memory).
MapIsTheFirmwares ==
  pc2 \notin {"detect_memory", "mmap_done"} /\ (\A k \in DOMAIN given : given[k].bytes <= 20) =>
    SubSeq(buffer, 1, mmap_entry_count) = SelectSeq(given, LAMBDA e : e.bytes > 0)

\* "if Bit 0 is 0 then we HAVE to skip this entry" (detect_memory).
IgnoredAreSkipped ==
  \A k \in 1 .. mmap_entry_count : buffer[k].bytes = 24 => buffer[k].bit0 = 1

\* What the CPU finds for the page with the indices i, j and k.
HasBit(e, bit) == (e.lo \div bit) % 2 = 1
Points(e, address) == e.hi = 0 /\ e.lo - (e.lo % SIZEOF_PAGE_TABLE) = address
Mapped(i, j, k) ==
  \A e \in {tables[PML4T_ADDR][i], tables[PDPT_ADDR][j], tables[PDT_ADDR][k]} : HasBit(e, PT_PRESENT)
UserMapped(i, j, k) ==
  \A e \in {tables[PML4T_ADDR][i], tables[PDPT_ADDR][j], tables[PDT_ADDR][k]} :
    HasBit(e, PT_PRESENT) /\ HasBit(e, PT_USER)

\* Once paging is on, virtual and physical addresses agree on all the pages of
\* the third table, nothing else is mapped, and ring 3 reaches exactly the pages
\* between the kernel's USER_CODE_BASE and USER_STACK_TOP (set_up_paging).
MapIsIdentity ==
  pg =>
    /\ Points(tables[PML4T_ADDR][0], PDPT_ADDR) /\ Points(tables[PDPT_ADDR][0], PDT_ADDR)
    /\ \A i, j, k \in Indices :
         /\ Mapped(i, j, k) <=> i = 0 /\ j = 0
         /\ UserMapped(i, j, k) <=>
              /\ i = 0 /\ j = 0
              /\ USER_CODE_BASE <= k * HUGE_PAGE_SIZE /\ k * HUGE_PAGE_SIZE < USER_STACK_TOP
    /\ \A k \in Indices : /\ Points(tables[PDT_ADDR][k], k * HUGE_PAGE_SIZE)
                          /\ HasBit(tables[PDT_ADDR][k], PT_HUGE)

=============================================================================
