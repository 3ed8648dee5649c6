----------------------------- MODULE Interrupts -----------------------------
(***************************************************************************)
(* How interrupts reach the kernel: the two 8259 controllers, pic_remap    *)
(* and the masks (interrupts/pic.c), the gates (interrupts/idt.c), the     *)
(* dispatch of isr.c and the boot code that brings them up in order        *)
(* (kernel.c), while devices raise and withdraw requests at any time.      *)
(*                                                                         *)
(* All gates are interrupt gates and no handler sets the interrupt flag,   *)
(* so an interrupt is not itself interrupted; but requests go on arriving  *)
(* at the controllers between its steps.                                   *)
(***************************************************************************)
EXTENDS Integers, Sequences, FiniteSets, FiniteSetsExt

CONSTANTS
  Lines,          \* the request lines that have a device, numbered 0 .. 15
  FirmwareMasks,  \* the <<master, slave>> masks the firmware may leave
  MaxRequests     \* bound on the requests devices make

ASSUME InterruptsConstants ==
  /\ Lines \subseteq (0 .. 15) \ {2}
  /\ FirmwareMasks \subseteq (0 .. 255) \X (0 .. 255)
  /\ MaxRequests \in Nat

VARIABLES
  pic,            \* "m" and "s": the master and the slave controller
  mask1, mask2,   \* pic_remap's local variables
  value,          \* pic_clear_mask's local variable
  idt,            \* the vectors that have a gate
  interrupt_handlers,
  enabled,        \* the kernel has executed sti
  pc,             \* the next step of the boot code
  cpu,            \* what the CPU does: the boot code, or one interrupt
  requests        \* requests made so far

vars == <<pic, mask1, mask2, value, idt, interrupt_handlers, enabled, pc, cpu,
          requests>>

-----------------------------------------------------------------------------
(* The 8259 *)

Bit(byte, l) == (byte \div 2^l) % 2 = 1
Bits(byte) == {l \in 0 .. 7 : Bit(byte, l)}

\* icw is the initialisation word the chip expects next on its data port.
Chip(offset, mask) == [offset |-> offset, mask |-> mask, irr |-> {}, isr |-> {}, icw |-> 0]

ICW1 == 17      \* ICW1_INIT | ICW1_ICW4
PIC_EOI == 32

\* The first initialisation word resets the chip, its mask included; an end of
\* interrupt ends the one of highest priority in service.
OutCommand(c, byte) ==
  IF byte = ICW1 THEN [c EXCEPT !.icw = 2, !.mask = 0, !.irr = {}, !.isr = {}]
  ELSE [c EXCEPT !.isr = IF @ = {} THEN {} ELSE @ \ {Min(@)}]
OutData(c, byte) ==
  CASE c.icw = 2 -> [c EXCEPT !.icw = 3, !.offset = byte]
    [] c.icw = 3 -> [c EXCEPT !.icw = 4]
    [] c.icw = 4 -> [c EXCEPT !.icw = 0]
    [] OTHER     -> [c EXCEPT !.mask = byte]
Out(c, port, byte) == IF port = "command" THEN OutCommand(c, byte) ELSE OutData(c, byte)

\* The lines a chip asks for: unmasked, and of a higher priority than any in
\* service.  The slave asks through line 2 of the master.
Asking(c, irr) == {l \in irr \ Bits(c.mask) : \A i \in c.isr : l < i}
SlaveAsks == Asking(pic.s, pic.s.irr)
MasterAsks == Asking(pic.m, pic.m.irr \cup IF SlaveAsks = {} THEN {} ELSE {2})
ChipOf(line) == IF line < 8 THEN "m" ELSE "s"

-----------------------------------------------------------------------------
(* The boot code, as far as it concerns interrupts *)

out(chip, port, byte) == [op |-> "outb", chip |-> chip, port |-> port, byte |-> byte]
call(name, n) == [op |-> name, n |-> n]

\* Mutant: the slave's offset goes to the master and the master's to the slave.
pic_remap_Swapped(offset1, offset2) ==
  <<call("read mask1", 0), call("read mask2", 0),
    out("m", "command", ICW1), out("s", "command", ICW1),
    out("m", "data", offset2), out("s", "data", offset1),
    out("m", "data", 4), out("s", "data", 2),
    out("m", "data", 1), out("s", "data", 1),
    call("write mask1", 0), call("write mask2", 0)>>
pic_remap(offset1, offset2) ==
  <<call("read mask1", 0), call("read mask2", 0),
    out("m", "command", ICW1), out("s", "command", ICW1),
    out("m", "data", offset1), out("s", "data", offset2),
    out("m", "data", 4), out("s", "data", 2),
    out("m", "data", 1), out("s", "data", 1),
    call("write mask1", 0), call("write mask2", 0)>>

\* A driver's initialisation: its handler, then its line.
driver_init(line) ==
  <<call("register", 32 + line), call("read mask", line), call("clear mask", line)>>

\* Mutant: interrupts on before the controllers are remapped.
interrupt_kernel_EarlySti ==
  <<call("idt_init", 0), call("sti", 0)>> \o pic_remap(32, 40)
    \o <<call("register", 3), call("int", 3)>>
interrupt_kernel ==
  <<call("idt_init", 0)>> \o pic_remap(32, 40)
    \o <<call("sti", 0), call("register", 3), call("int", 3)>>

\* keyboard_init, timer_init, syscall_init, and the system calls.
kernel_main ==
  interrupt_kernel \o driver_init(1) \o driver_init(0)
    \o <<call("register", 128), call("int", 128), call("int", 128)>>

Remapped == pc > Len(interrupt_kernel) - 3
At(op) == cpu.at = "run" /\ pc <= Len(kernel_main) /\ kernel_main[pc].op = op
Arg == kernel_main[pc].n
Step == pc' = pc + 1

Run == [at |-> "run", vector |-> 0, line |-> -1]
NoLine == -1

Init ==
  /\ \E masks \in FirmwareMasks : pic = [m |-> Chip(8, masks[1]), s |-> Chip(112, masks[2])]
  /\ mask1 = 0 /\ mask2 = 0 /\ value = 0
  /\ idt = {} /\ interrupt_handlers = {}
  /\ enabled = FALSE /\ pc = 1 /\ cpu = Run /\ requests = 0

\* The 32 exceptions, the 16 lines and the system call.
idt_init ==
  /\ At("idt_init") /\ Step
  /\ idt' = (0 .. 31) \cup (32 .. 47) \cup {128}
  /\ UNCHANGED <<pic, mask1, mask2, value, interrupt_handlers, enabled, cpu, requests>>

outb ==
  /\ At("outb") /\ Step
  /\ LET o == kernel_main[pc] IN pic' = [pic EXCEPT ![o.chip] = Out(@, o.port, o.byte)]
  /\ UNCHANGED <<mask1, mask2, value, idt, interrupt_handlers, enabled, cpu, requests>>

save_masks ==
  /\ \/ At("read mask1") /\ mask1' = pic.m.mask /\ UNCHANGED mask2
     \/ At("read mask2") /\ mask2' = pic.s.mask /\ UNCHANGED mask1
  /\ Step
  /\ UNCHANGED <<pic, value, idt, interrupt_handlers, enabled, cpu, requests>>
restore_masks ==
  /\ \/ At("write mask1") /\ pic' = [pic EXCEPT !.m = Out(@, "data", mask1)]
     \/ At("write mask2") /\ pic' = [pic EXCEPT !.s = Out(@, "data", mask2)]
  /\ Step
  /\ UNCHANGED <<mask1, mask2, value, idt, interrupt_handlers, enabled, cpu, requests>>

\* byte & ~(1 << l)
Cleared(byte, l) == IF Bit(byte, l) THEN byte - 2^l ELSE byte

pic_clear_mask_read ==
  /\ At("read mask") /\ Step
  /\ value' = Cleared(pic[ChipOf(Arg)].mask, Arg % 8)
  /\ UNCHANGED <<pic, mask1, mask2, idt, interrupt_handlers, enabled, cpu, requests>>
pic_clear_mask_write ==
  /\ At("clear mask") /\ Step
  /\ pic' = [pic EXCEPT ![ChipOf(Arg)] = Out(@, "data", value)]
  /\ UNCHANGED <<mask1, mask2, value, idt, interrupt_handlers, enabled, cpu, requests>>

register_interrupt_handler ==
  /\ At("register") /\ Step
  /\ interrupt_handlers' = interrupt_handlers \cup {Arg}
  /\ UNCHANGED <<pic, mask1, mask2, value, idt, enabled, cpu, requests>>

sti ==
  /\ At("sti") /\ Step
  /\ enabled' = TRUE
  /\ UNCHANGED <<pic, mask1, mask2, value, idt, interrupt_handlers, cpu, requests>>

\* int3, or the user program's int 0x80.
software_interrupt ==
  /\ At("int") /\ Step
  /\ cpu' = [at |-> "stub", vector |-> Arg, line |-> NoLine]
  /\ UNCHANGED <<pic, mask1, mask2, value, idt, interrupt_handlers, enabled, requests>>

-----------------------------------------------------------------------------
(* Devices, delivery and dispatch *)

\* A device raises its line.
request ==
  /\ requests < MaxRequests
  /\ \E line \in Lines :
       /\ line % 8 \notin pic[ChipOf(line)].irr
       /\ pic' = [pic EXCEPT ![ChipOf(line)].irr = @ \cup {line % 8}]
  /\ requests' = requests + 1
  /\ UNCHANGED <<mask1, mask2, value, idt, interrupt_handlers, enabled, pc, cpu>>

\* The CPU takes the request of the highest priority.  When the device
\* withdraws it in that moment, the chip answers with its line 7 and puts
\* nothing in service; the master still has line 2 in service for the slave.
interrupt ==
  /\ cpu.at = "run" /\ enabled /\ MasterAsks # {}
  /\ \E stays \in BOOLEAN :
       LET first == Min(MasterAsks)
           fromSlave == first = 2
           chip == IF fromSlave THEN "s" ELSE "m"
           line == IF fromSlave THEN Min(SlaveAsks) ELSE first
           taken == [pic EXCEPT ![chip].irr = @ \ {line},
                                ![chip].isr = IF stays THEN @ \cup {line} ELSE @]
       IN  /\ pic' = IF fromSlave THEN [taken EXCEPT !.m.isr = @ \cup {2}] ELSE taken
           /\ cpu' = [at |-> "stub",
                      vector |-> pic[chip].offset + IF stays THEN line ELSE 7,
                      line |-> IF stays THEN line + IF fromSlave THEN 8 ELSE 0 ELSE NoLine]
  /\ UNCHANGED <<mask1, mask2, value, idt, interrupt_handlers, enabled, pc, requests>>

\* isr_handler: 8 and 13 always end in PANIC, the others when no handler is
\* registered.  A vector without a gate makes the CPU raise exception 13.
Panics(vector) ==
  vector \notin idt \/ vector \in {8, 13} \/ vector \notin interrupt_handlers
isr_handler ==
  /\ cpu.at = "stub" /\ cpu.vector \notin 32 .. 47
  /\ cpu' = IF Panics(cpu.vector) THEN [cpu EXCEPT !.at = "panic"] ELSE Run
  /\ UNCHANGED <<pic, mask1, mask2, value, idt, interrupt_handlers, enabled, pc, requests>>

\* irq_handler calls the handler if there is one; the registered ones change
\* nothing of this state.
irq_handler ==
  /\ cpu.at = "stub" /\ cpu.vector \in 32 .. 47
  /\ cpu' = [cpu EXCEPT !.at = IF cpu.vector - 32 >= 8 THEN "eoi slave" ELSE "eoi master"]
  /\ UNCHANGED <<pic, mask1, mask2, value, idt, interrupt_handlers, enabled, pc, requests>>

\* Mutant: only the chip that has the line is told.
pic_send_eoi_OneChip ==
  /\ \/ /\ cpu.at = "eoi slave"
        /\ pic' = [pic EXCEPT !.s = Out(@, "command", PIC_EOI)]
     \/ /\ cpu.at = "eoi master"
        /\ pic' = [pic EXCEPT !.m = Out(@, "command", PIC_EOI)]
  /\ cpu' = Run
  /\ UNCHANGED <<mask1, mask2, value, idt, interrupt_handlers, enabled, pc, requests>>
\* The end of interrupt, to the slave for its lines and to the master for all;
\* after the last one the stub returns.
pic_send_eoi ==
  /\ \/ /\ cpu.at = "eoi slave"
        /\ pic' = [pic EXCEPT !.s = Out(@, "command", PIC_EOI)]
        /\ cpu' = [cpu EXCEPT !.at = "eoi master"]
     \/ /\ cpu.at = "eoi master"
        /\ pic' = [pic EXCEPT !.m = Out(@, "command", PIC_EOI)]
        /\ cpu' = Run
  /\ UNCHANGED <<mask1, mask2, value, idt, interrupt_handlers, enabled, pc, requests>>

boot_step ==
  \/ idt_init \/ outb \/ save_masks \/ restore_masks \/ pic_clear_mask_read
  \/ pic_clear_mask_write \/ register_interrupt_handler \/ sti \/ software_interrupt
handler_step == isr_handler \/ irq_handler \/ pic_send_eoi

Next == boot_step \/ request \/ interrupt \/ handler_step

Spec == Init /\ [][Next]_vars

\* The CPU goes on, and takes an interrupt when one is asked for.
FairSpec == Spec /\ WF_vars(boot_step) /\ WF_vars(interrupt) /\ WF_vars(handler_step)

-----------------------------------------------------------------------------
(* Properties *)

\* "irq 0 maps to offset1 + 0" and so on (pic.c): whatever line an interrupt
\* comes from, it enters through the gate of that line, and a request that is
\* withdrawn enters through the gate of a line 7.
LinesKeepTheirVectors ==
  cpu.at = "stub" /\ cpu.vector \notin {3, 128} =>
    IF cpu.line = NoLine THEN cpu.vector \in {39, 47} ELSE cpu.vector = 32 + cpu.line

\* "we are still alive (no kernel panic)" (kernel.c): neither the boot code's
\* own traps nor any device can bring the kernel to PANIC while it boots.
NeverPanics == cpu.at # "panic"

\* "else the pci thinks the interrupt is still running and will freeze
\* everything else" (pic.c): when the handler has returned no line is left in
\* service in either chip, withdrawn requests included.
NothingLeftInService == cpu.at = "run" => pic.m.isr = {} /\ pic.s.isr = {}

\* A request on an open line is taken in the end, for every line, also when
\* others come in between; a slave's line needs the master's line 2 open too.
Open(line) ==
  /\ line % 8 \notin Bits(pic[ChipOf(line)].mask)
  /\ line >= 8 => 2 \notin Bits(pic.m.mask)
RequestsAreTaken ==
  \A line \in Lines :
    Remapped /\ line % 8 \in pic[ChipOf(line)].irr /\ Open(line)
      ~> line % 8 \notin pic[ChipOf(line)].irr
=============================================================================
