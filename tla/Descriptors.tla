---------------------------- MODULE Descriptors -----------------------------
(***************************************************************************)
(* The tables the CPU consults before it loads a segment, takes a trap or  *)
(* changes rings: the GDT and the TSS as kernel/gdt/gdt.c writes them, the *)
(* IDT as kernel/interrupts/idt.c does, and what the CPU reads out of      *)
(* them.  Tables are sequences of bytes; a 64-bit address is its eight     *)
(* bytes, the lowest first, so that a shift and a mask pick bytes.         *)
(***************************************************************************)
EXTENDS Integers, Sequences, SequencesExt

CONSTANTS
  TSS_ADDRESS,       \* &system_tss
  StubAddress        \* of each isr and irq stub, by its vector

VARIABLES
  gdt, gdtp,         \* the GDT, and the limit in its pointer
  system_tss,
  tr,                \* the selector in the task register, 0 before load_tss
  idt                \* the gates by vector; one that is not set has no present bit

tables == <<gdt, gdtp, system_tss, tr, idt>>

Address == [1 .. 8 -> 0 .. 255]
Vectors == (0 .. 47) \cup {128}

ASSUME DescriptorConstants == TSS_ADDRESS \in Address /\ StubAddress \in [Vectors -> Address]

Bit(n, k) == (n \div 2^k) % 2 = 1
TwoBytes(n) == <<n % 256, (n \div 256) % 256>>
FourBytes(n) == TwoBytes(n) \o TwoBytes(n \div 65536)

-----------------------------------------------------------------------------
(* The structures, as packed as the C code declares them *)

SizeOf(struct) == FoldLeft(LAMBDA n, field : n + field[2], 0, struct)
OffsetOf(struct, k) == SizeOf(SubSeq(struct, 1, k - 1))

tss_entry == <<<<"reserved0", 4>>, <<"rsp0", 8>>, <<"rsp1", 8>>, <<"rsp2", 8>>, <<"reserved1", 8>>,
               <<"ist", 56>>, <<"reserved2", 8>>, <<"reserved3", 2>>, <<"iomap_base", 2>>>>

\* limit_low, base_low, base_middle, access_flag, granularity, base_high
set_gdt_entry(access, flags) ==
  <<255, 255>> \o <<0, 0>> \o <<0, access, (flags \div 16) * 16 + 15, 0>>

setup_tss_descriptor(base, limit) ==
  TwoBytes(limit) \o <<base[1], base[2]>> \o <<base[3], 137, (limit \div 65536) % 16, base[4]>>
    \o SubSeq(base, 5, 8) \o FourBytes(0)

\* offset_1, segment_selector, ist, type, offset_2, offset_3, zero
idt_set_item(address, selector, type) ==
  <<address[1], address[2]>> \o TwoBytes(selector) \o <<0, type>> \o <<address[3], address[4]>>
    \o SubSeq(address, 5, 8) \o FourBytes(0)

\* The table init_gdt fills in: nothing, kernel code and data, user data and
\* code, and the TSS.
gdt_table ==
  [k \in 1 .. 8 |-> 0] \o set_gdt_entry(154, 160) \o set_gdt_entry(146, 0) \o set_gdt_entry(242, 0)
    \o set_gdt_entry(250, 160) \o setup_tss_descriptor(TSS_ADDRESS, SizeOf(tss_entry) - 1)

\* Mutant: the gate of vector 128 is like the others.
idt_set_items_Kernel == [v \in Vectors |-> idt_set_item(StubAddress[v], 8, 142)]
idt_set_items ==
  [v \in Vectors |-> idt_set_item(StubAddress[v], 8, IF v = 128 THEN 238 ELSE 142)]

-----------------------------------------------------------------------------
(* The CPU *)

Rpl(selector) == selector % 4
Index8(selector) == selector \div 8
\* Byte k of the descriptor that a selector names, in table t.
DescriptorByte(t, selector, k) == t[8 * Index8(selector) + k]
InTable(limit, selector) == Index8(selector) > 0 /\ 8 * Index8(selector) + 7 <= limit
Access(t, selector) == DescriptorByte(t, selector, 6)
Flags(t, selector) == DescriptorByte(t, selector, 7)
Dpl(t, selector) == (Access(t, selector) \div 32) % 4
Segment(t, limit, selector) ==
  InTable(limit, selector) /\ Bit(Access(t, selector), 7) /\ Bit(Access(t, selector), 4)

\* A 64-bit code segment, or a data segment that can be written to.
IsCode(t, limit, selector) ==
  /\ Segment(t, limit, selector) /\ Bit(Access(t, selector), 3)
  /\ Bit(Flags(t, selector), 5) /\ ~ Bit(Flags(t, selector), 6)
IsData(t, limit, selector) ==
  Segment(t, limit, selector) /\ ~ Bit(Access(t, selector), 3) /\ Bit(Access(t, selector), 1)

\* What a load of ds, of ss, and of cs by a return to ring Rpl(cs) ask for.
LoadsData(t, limit, selector, cpl) ==
  /\ IsData(t, limit, selector)
  /\ cpl <= Dpl(t, selector) /\ Rpl(selector) <= Dpl(t, selector)
LoadsStack(t, limit, selector, cpl) ==
  IsData(t, limit, selector) /\ Rpl(selector) = cpl /\ Dpl(t, selector) = cpl
ReturnsTo(t, limit, cs, ss, cpl) ==
  /\ IsCode(t, limit, cs) /\ Rpl(cs) = Dpl(t, cs) /\ Rpl(cs) >= cpl
  /\ LoadsStack(t, limit, ss, Rpl(cs))

\* ltr: an available 64-bit TSS, whose 16 bytes lie in the table.
LoadsTask(t, limit, selector) ==
  /\ InTable(limit, selector) /\ InTable(limit, selector + 8)
  /\ Access(t, selector) % 32 = 9 /\ Bit(Access(t, selector), 7)
TssBase ==
  <<DescriptorByte(gdt, tr, 3), DescriptorByte(gdt, tr, 4), DescriptorByte(gdt, tr, 5),
    DescriptorByte(gdt, tr, 8), DescriptorByte(gdt, tr, 9), DescriptorByte(gdt, tr, 10),
    DescriptorByte(gdt, tr, 11), DescriptorByte(gdt, tr, 12)>>
TssLimit == DescriptorByte(gdt, tr, 1) + 256 * DescriptorByte(gdt, tr, 2)
\* The CPU takes the stack of ring 0 from the eight bytes at offset 4 of the TSS.
HasStack ==
  /\ tr # 0 /\ TssBase = TSS_ADDRESS /\ TssLimit >= 11
  /\ \E k \in DOMAIN tss_entry :
       OffsetOf(tss_entry, k) = 4 /\ tss_entry[k] = <<"rsp0", 8>>

GateOffset(g) == <<g[1], g[2], g[7], g[8], g[9], g[10], g[11], g[12]>>
GateSelector(g) == g[3] + 256 * g[4]
\* A trap in ring cpl reaches its stub; int n asks for the gate's privilege too.
Delivers(vector, cpl, software) ==
  /\ vector \in DOMAIN idt
  /\ LET g == idt[vector] IN
     /\ Bit(g[6], 7) /\ g[6] % 32 = 14 /\ g[5] = 0
     /\ software => cpl <= (g[6] \div 32) % 4
     /\ IsCode(gdt, gdtp, GateSelector(g)) /\ Dpl(gdt, GateSelector(g)) <= cpl
     /\ Dpl(gdt, GateSelector(g)) < cpl => HasStack
     /\ GateOffset(g) = StubAddress[vector]

-----------------------------------------------------------------------------
\* Before init_gdt: the tables are in bss.
TablesInit ==
  /\ gdt = [k \in 1 .. 56 |-> 0] /\ gdtp = 0 /\ system_tss = [rsp0 |-> 0, iomap_base |-> 0]
  /\ tr = 0 /\ idt = <<>>

\* init_gdt up to its call of load_gdt.
fill_gdt(kernel_top) ==
  /\ system_tss' = [rsp0 |-> kernel_top, iomap_base |-> SizeOf(tss_entry)]
  /\ gdt' = gdt_table /\ gdtp' = 55
  /\ UNCHANGED <<tr, idt>>
\* ltr marks the descriptor busy.
load_tss(selector) ==
  /\ tr' = selector /\ gdt' = [gdt EXCEPT ![8 * Index8(selector) + 6] = @ + 2]
  /\ UNCHANGED <<gdtp, system_tss, idt>>
idt_init == idt' = idt_set_items /\ UNCHANGED <<gdt, gdtp, system_tss, tr>>
=============================================================================
