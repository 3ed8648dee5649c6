------------------------------ MODULE UserMode ------------------------------
(***************************************************************************)
(* The excursion to ring 3 and back: kernel_main sets up the descriptor    *)
(* tables (module Descriptors), user_mode_kernel calls                     *)
(* enter_user_mode (kernel/kernel/switch_ring.asm), the program of         *)
(* user_code.c makes system calls, and SYS_EXIT resumes the kernel where   *)
(* it was.  Interrupts are on all the way and may come between any two     *)
(* instructions, in either ring.                                           *)
(*                                                                         *)
(* The machine has registers and a memory of words that holds three        *)
(* stacks: the one the kernel booted on, the one the TSS names for traps   *)
(* from ring 3, and the user's.  A trap runs to its iretq in one step,     *)
(* since both kinds of gate clear the interrupt flag.  A segment load, a   *)
(* trap or a return the tables do not allow is a fault, and ends it all.   *)
(***************************************************************************)
EXTENDS Descriptors

CONSTANTS
  BOOT_STACK,        \* stack_bottom and stack_top of stage2.asm
  KERNEL_STACK,      \* kernel_stack_bottom and kernel_stack_top of linker.ld
  USER_CODE_BASE, USER_STACK_TOP,
  WORD,              \* 2^64, where addresses wrap around
  COUNT,             \* system calls the user program makes before it exits
  Calls              \* the <<rax, rdi, rsi>> it makes them with

ASSUME UserModeConstants ==
  /\ BOOT_STACK \in Nat \X Nat /\ KERNEL_STACK \in Nat \X Nat
  /\ 0 < BOOT_STACK[1] /\ BOOT_STACK[1] < BOOT_STACK[2]
  /\ BOOT_STACK[2] < KERNEL_STACK[1] /\ KERNEL_STACK[1] < KERNEL_STACK[2]
  /\ USER_CODE_BASE \in Nat /\ USER_STACK_TOP \in Nat /\ WORD \in Nat /\ COUNT \in Nat
  /\ KERNEL_STACK[2] < USER_CODE_BASE /\ USER_CODE_BASE + 8 < USER_STACK_TOP
  /\ USER_STACK_TOP < WORD
  /\ Calls \subseteq Nat \X (0 .. WORD - 1) \X (0 .. WORD - 1)

VARIABLES
  reg, mem,
  saved_kernel_rsp,
  wrote,             \* the addresses the last system call printed
  fault              \* the CPU has refused a load, a trap or a return

vars == <<reg, mem, saved_kernel_rsp, wrote, fault, tables>>

BOOT_CS == 24
BOOT_DS == 32
KERNEL_CS == 8
KERNEL_DS == 16
USER_CS == 35
USER_DS == 27
TSS_SELECTOR == 40
INTERRUPT_FLAG == 512
SYS_WRITE == 1
SYS_EXIT == 60

\* The general registers in the order SAVE_CPU pushes them.
SAVE_CPU == <<"rax", "rbx", "rcx", "rdx", "rsi", "rdi", "rbp", "r8", "r9", "r10", "r11",
              "r12", "r13", "r14", "r15">>
GeneralRegs == Range(SAVE_CPU)
Regs == GeneralRegs \cup {"rip", "cs", "rflags", "rsp", "ss", "ds"}
\* What a C function may change, and what it and enter_user_mode must keep.
CallerSaved == {"rax", "rcx", "rdx", "rsi", "rdi", "r8", "r9", "r10", "r11"}
CalleeSaved == GeneralRegs \ CallerSaved

Words(stack) == stack[1] .. stack[2] - 1
UserWords == USER_CODE_BASE .. USER_STACK_TOP - 1
Addresses == Words(BOOT_STACK) \cup Words(KERNEL_STACK) \cup UserWords

-----------------------------------------------------------------------------
(* Traps *)

\* What a trap pushes, in order: the CPU, then the stub.
Pushes == <<"ss", "rsp", "rflags", "cs", "rip", "err_code", "int_no">> \o SAVE_CPU

\* The frame as the C handlers see it, from its lowest word up.
interrupt_frame_t ==
  <<"r15", "r14", "r13", "r12", "r11", "r10", "r9", "r8", "rbp", "rdi", "rsi", "rdx", "rcx",
    "rbx", "rax", "int_no", "err_code", "rip", "cs", "rflags", "rsp", "ss">>

\* Mutant: the registers come back in the order they were pushed.
Pops_SameOrder ==
  SAVE_CPU \o <<"err_code", "int_no">> \o <<"rip", "cs", "rflags", "rsp", "ss">>
\* What the stub pops after the call (RESTORE_CPU, then two words dropped), and
\* what iretq pops.
Pops ==
  Reverse(SAVE_CPU) \o <<"err_code", "int_no">> \o <<"rip", "cs", "rflags", "rsp", "ss">>

Index(seq, name) == CHOOSE k \in DOMAIN seq : seq[k] = name
FRAME_SIZE == Len(Pushes)

\* From ring 3 the CPU takes the stack of the TSS.
TrapStack(r) == IF Rpl(r.cs) = 3 THEN system_tss.rsp0 ELSE r.rsp
FrameAt(r) == TrapStack(r) - FRAME_SIZE

\* Memory with the frame of a trap on the stack, and below it the words the C
\* handler uses for itself.
WithFrame(m, r, vector) ==
  [a \in Addresses |->
     IF a \in FrameAt(r) .. TrapStack(r) - 1
     THEN LET name == Pushes[TrapStack(r) - a]
          IN  CASE name = "err_code" -> 0 [] name = "int_no" -> vector [] OTHER -> r[name]
     ELSE IF a \in FrameAt(r) - 2 .. FrameAt(r) - 1 THEN 0 ELSE m[a]]

\* The registers after the stub and its iretq, when the handler leaves m.
Returned(m, r) ==
  [n \in Regs |-> IF n = "ds" THEN r.ds ELSE m[FrameAt(r) + Index(Pops, n) - 1]]

-----------------------------------------------------------------------------
(* syscall_handler, on registers r that the trap has put into the frame *)

\* Mutant: the end of the buffer is computed, and may wrap around.
OutOfRange_Wraps(rdi, rsi) ==
  rdi < USER_CODE_BASE \/ (rdi + rsi) % WORD > USER_STACK_TOP
OutOfRange(rdi, rsi) ==
  rdi < USER_CODE_BASE \/ rdi >= USER_STACK_TOP \/ rsi > USER_STACK_TOP - rdi

\* The addresses that SYS_WRITE hands to the terminal.
Printed(rax, rdi, rsi) ==
  IF rax # SYS_WRITE \/ OutOfRange(rdi, rsi) THEN {}
  ELSE {(rdi + k) % WORD : k \in 0 .. rsi - 1}

sys_write(rdi, rsi) == [rax |-> IF OutOfRange(rdi, rsi) THEN WORD - 1 ELSE rsi]

sys_exit(resume) ==
  [rip |-> resume, cs |-> KERNEL_CS, ss |-> KERNEL_DS, rsp |-> saved_kernel_rsp,
   rflags |-> INTERRUPT_FLAG + 2]

\* Mutant: SYS_EXIT falls through to the default case.
Assigned_NoExit(rax, rdi, rsi, resume) ==
  IF rax = SYS_WRITE THEN sys_write(rdi, rsi) ELSE <<>>
\* The fields the handler assigns, by the number in rax.
Assigned(rax, rdi, rsi, resume) ==
  CASE rax = SYS_WRITE -> sys_write(rdi, rsi)
    [] rax = SYS_EXIT  -> sys_exit(resume)
    [] OTHER -> <<>>

\* Memory after syscall_handler, whose frame is the one at address f of m.
Field(m, f, name) == m[f + Index(interrupt_frame_t, name) - 1]
syscall_handler(m, f, resume) ==
  LET new == Assigned(Field(m, f, "rax"), Field(m, f, "rdi"), Field(m, f, "rsi"), resume)
  IN  [a \in Addresses |->
         LET k == a - f + 1
         IN  IF k \in DOMAIN interrupt_frame_t /\ interrupt_frame_t[k] \in DOMAIN new
             THEN new[interrupt_frame_t[k]] ELSE m[a]]

-----------------------------------------------------------------------------
(* The code: enter_user_mode, resume_kernel and the user program *)

I(op, r) == [op |-> op, r |-> r]

enter_user_mode_code ==
  <<I("push", "rbx"), I("push", "rbp"), I("push", "r12"), I("push", "r13"), I("push", "r14"),
    I("push", "r15"), I("save_rsp", "rsp"), I("load_ds", "rcx"),
    I("push", "rcx"), I("push", "rsi"),
    I("push", "rflags"), I("pop", "rax"), I("or_if", "rax"), I("push", "rax"),
    I("push", "rdx"), I("push", "rdi"), I("iretq", "rip")>>
\* Mutant: the registers are popped in the order enter_user_mode pushed them.
resume_kernel_code_SameOrder ==
  <<I("mov_0x10", "rax"), I("load_ds", "rax"),
    I("pop", "rbx"), I("pop", "rbp"), I("pop", "r12"), I("pop", "r13"), I("pop", "r14"),
    I("pop", "r15"), I("ret", "rip")>>
resume_kernel_code ==
  <<I("mov_0x10", "rax"), I("load_ds", "rax"),
    I("pop", "r15"), I("pop", "r14"), I("pop", "r13"), I("pop", "r12"), I("pop", "rbp"),
    I("pop", "rbx"), I("ret", "rip")>>

\* Kernel text: instruction k of the sequence above is at address k.
kernel_code == enter_user_mode_code \o resume_kernel_code
enter_user_mode == 1
resume_kernel == 1 + Len(enter_user_mode_code)
after_call == 1 + Len(kernel_code)     \* in user_mode_kernel
\* In kernel_main, before it.
call_init_gdt == after_call + 1
call_load_gdt == after_call + 2
call_load_tss == after_call + 3
call_idt_init == after_call + 4

\* Registers and memory after instruction i, with rip already at the next one.
ExecReg(i, r) ==
  CASE i.op = "push"     -> [r EXCEPT !.rsp = @ - 1]
    [] i.op \in {"pop", "ret"} -> [r EXCEPT ![i.r] = mem[r.rsp], !.rsp = @ + 1]
    [] i.op = "load_ds"  -> [r EXCEPT !.ds = r[i.r]]
    [] i.op = "mov_0x10" -> [r EXCEPT ![i.r] = KERNEL_DS]
    [] i.op = "or_if"    -> [r EXCEPT ![i.r] = (@ % INTERRUPT_FLAG) + INTERRUPT_FLAG]
    [] i.op = "save_rsp" -> r
    [] i.op = "iretq"    -> [r EXCEPT !.rip = mem[r.rsp], !.cs = mem[r.rsp + 1],
                                      !.rflags = mem[r.rsp + 2], !.rsp = mem[r.rsp + 3],
                                      !.ss = mem[r.rsp + 4]]
ExecMem(i) == IF i.op = "push" THEN [mem EXCEPT ![reg.rsp - 1] = reg[i.r]] ELSE mem

\* User text: the loop, a system call in it, and the exit after it.
user_loop == USER_CODE_BASE
user_call == USER_CODE_BASE + 1
user_exit == USER_CODE_BASE + 2
counter == USER_STACK_TOP - 1           \* where the program keeps its counter

\* The words in use when r are the registers: the user's memory, and the boot
\* stack from its stack pointer up.  The others are dead, and are kept as 0.
LiveWords(r, saved) ==
  UserWords \cup ((IF Rpl(r.cs) = 3 THEN saved ELSE r.rsp) .. BOOT_STACK[2] - 1)

Becomes(r, m, saved) ==
  /\ reg' = r /\ saved_kernel_rsp' = saved
  /\ LET live == LiveWords(r, saved)
     IN  mem' = [a \in Addresses |-> IF a \in live THEN m[a] ELSE 0]
  /\ UNCHANGED fault
Fault == fault' = TRUE /\ UNCHANGED <<reg, mem, saved_kernel_rsp, wrote, tables>>

\* The CPU lets instruction i run, or trap vector come and go with registers r
\* before and back after it.
Permits(i) ==
  CASE i.op = "load_ds" -> LoadsData(gdt, gdtp, reg[i.r], Rpl(reg.cs))
    [] i.op = "iretq"   -> ReturnsTo(gdt, gdtp, mem[reg.rsp + 1], mem[reg.rsp + 4], Rpl(reg.cs))
    [] OTHER            -> TRUE
PermitsTrap(vector, r, back, software) ==
  Delivers(vector, Rpl(r.cs), software) /\ ReturnsTo(gdt, gdtp, back.cs, back.ss, 0)

-----------------------------------------------------------------------------
(* Behaviour *)

\* What the kernel has in the registers it expects back.
KernelValue == [n \in CalleeSaved |-> 100 + Index(SAVE_CPU, n)]

\* kernel_main is about to call gdt_kernel, on the segments stage 2 left.  What
\* user_mode_kernel passes to enter_user_mode is in its registers already.
Init ==
  /\ reg = [n \in Regs |->
              CASE n \in CalleeSaved -> KernelValue[n]
                [] n = "rip" -> call_init_gdt
                [] n = "rsp" -> BOOT_STACK[2] - 1
                [] n = "cs" -> BOOT_CS
                [] n \in {"ss", "ds"} -> BOOT_DS
                [] n = "rflags" -> 2
                [] n = "rdi" -> user_loop
                [] n = "rsi" -> USER_STACK_TOP
                [] n = "rdx" -> USER_CS
                [] n = "rcx" -> USER_DS
                [] OTHER -> 0]
  /\ mem = [a \in Addresses |-> IF a = BOOT_STACK[2] - 1 THEN after_call ELSE 0]
  /\ saved_kernel_rsp = 0
  /\ wrote = {} /\ fault = FALSE
  /\ TablesInit

init_gdt ==
  /\ ~ fault /\ reg.rip = call_init_gdt
  /\ fill_gdt(KERNEL_STACK[2])
  /\ reg' = [reg EXCEPT !.rip = call_load_gdt]
  /\ UNCHANGED <<mem, saved_kernel_rsp, wrote, fault>>
\* The data segments first, then cs with a far return.
load_gdt ==
  /\ ~ fault /\ reg.rip = call_load_gdt
  /\ IF /\ LoadsData(gdt, gdtp, KERNEL_DS, 0) /\ ReturnsTo(gdt, gdtp, KERNEL_CS, KERNEL_DS, 0)
     THEN /\ reg' = [reg EXCEPT !.ds = KERNEL_DS, !.ss = KERNEL_DS, !.cs = KERNEL_CS,
                                !.rip = call_load_tss]
          /\ UNCHANGED <<mem, saved_kernel_rsp, wrote, fault, tables>>
     ELSE Fault
load_task_register ==
  /\ ~ fault /\ reg.rip = call_load_tss
  /\ IF LoadsTask(gdt, gdtp, TSS_SELECTOR)
     THEN /\ load_tss(TSS_SELECTOR)
          /\ reg' = [reg EXCEPT !.rip = call_idt_init]
          /\ UNCHANGED <<mem, saved_kernel_rsp, wrote, fault>>
     ELSE Fault
\* idt_init, and the sti after it.
interrupt_kernel ==
  /\ ~ fault /\ reg.rip = call_idt_init
  /\ idt_init
  /\ reg' = [reg EXCEPT !.rflags = INTERRUPT_FLAG + 2, !.rip = enter_user_mode]
  /\ UNCHANGED <<mem, saved_kernel_rsp, wrote, fault>>

\* The next instruction of enter_user_mode or resume_kernel.
kernel_step ==
  /\ ~ fault /\ reg.rip \in DOMAIN kernel_code
  /\ LET i == kernel_code[reg.rip]
     IN  IF Permits(i)
         THEN /\ Becomes(ExecReg(i, [reg EXCEPT !.rip = @ + 1]), ExecMem(i),
                         IF i.op = "save_rsp" THEN reg.rsp ELSE saved_kernel_rsp)
              /\ UNCHANGED <<wrote, tables>>
         ELSE Fault

\* The program's own code: it counts, and its registers hold its own values.
UserValue(call) ==
  [n \in Regs |->
     CASE n = "rax" -> call[1]
       [] n = "rdi" -> call[2]
       [] n = "rsi" -> call[3]
       [] n \in GeneralRegs \ {"rax", "rdi", "rsi"} -> 200 + Index(SAVE_CPU, n)
       [] OTHER -> reg[n]]
user_test_entry ==
  /\ ~ fault /\ reg.rip = user_loop
  /\ IF mem[counter] < COUNT
     THEN /\ \E call \in Calls : reg' = [UserValue(call) EXCEPT !.rip = user_call]
          /\ mem' = [mem EXCEPT ![counter] = @ + 1]
     ELSE /\ reg' = [UserValue(<<SYS_EXIT, 0, 0>>) EXCEPT !.rip = user_exit]
          /\ UNCHANGED mem
  /\ UNCHANGED <<saved_kernel_rsp, wrote, fault, tables>>

\* int 0x80, through isr128 and isr_handler to syscall_handler.
system_call ==
  /\ ~ fault /\ reg.rip \in {user_call, user_exit}
  /\ LET r == [reg EXCEPT !.rip = IF @ = user_call THEN user_loop ELSE @ + 1]
         m == syscall_handler(WithFrame(mem, r, 128), FrameAt(r), resume_kernel)
     IN  IF PermitsTrap(128, r, Returned(m, r), TRUE)
         THEN /\ Becomes(Returned(m, r), m, saved_kernel_rsp)
              /\ wrote' = Printed(reg.rax, reg.rdi, reg.rsi)
              /\ UNCHANGED tables
         ELSE Fault

\* A timer or keyboard interrupt.  With no task in the list schedule returns at
\* once, and no handler changes the frame.
irq ==
  /\ ~ fault /\ reg.rflags >= INTERRUPT_FLAG /\ reg.rip # after_call
  /\ \E vector \in {32, 33} :
       LET m == WithFrame(mem, reg, vector)
       IN  IF PermitsTrap(vector, reg, Returned(m, reg), FALSE)
           THEN Becomes(Returned(m, reg), m, saved_kernel_rsp) /\ UNCHANGED <<wrote, tables>>
           ELSE Fault

Next ==
  \/ init_gdt \/ load_gdt \/ load_task_register \/ interrupt_kernel
  \/ kernel_step \/ user_test_entry \/ system_call \/ irq

Spec == Init /\ [][Next]_vars

\* Each instruction is executed in the end: interrupts take less than all time.
FairSpec ==
  /\ Spec
  /\ WF_vars(init_gdt \/ load_gdt \/ load_task_register \/ interrupt_kernel)
  /\ WF_vars(kernel_step) /\ WF_vars(user_test_entry) /\ WF_vars(system_call)

-----------------------------------------------------------------------------
(* Properties *)

\* "firstly we need to remember where the kernel was" (switch_ring.asm): when
\* enter_user_mode has returned, the caller finds its stack, its registers, its
\* segments and its interrupt flag as they were, whatever ring 3 did and
\* whatever interrupts came.
KernelResumes ==
  reg.rip = after_call =>
    /\ reg.rsp = BOOT_STACK[2]
    /\ \A n \in CalleeSaved : reg[n] = KernelValue[n]
    /\ reg.cs = KERNEL_CS /\ reg.ss = KERNEL_DS /\ reg.ds = KERNEL_DS
    /\ reg.rflags = INTERRUPT_FLAG + 2

\* "preserving the cpu state" (idt_asm.asm): an interrupt changes no register
\* and no word in use, and a system call only rax, unless it is the exit.
TrapsAreInvisible ==
  [][/\ irq => reg' = reg
     /\ system_call /\ reg.rip = user_call /\ reg.rax # SYS_EXIT =>
          \A n \in Regs \ {"rax", "rip"} : reg'[n] = reg[n]
     /\ irq \/ system_call =>
          \A a \in LiveWords(reg, saved_kernel_rsp) : mem'[a] = mem[a]]_vars

\* "we check if the pointer from the buffer is even in the user region"
\* (syscall.c): SYS_WRITE prints nothing from outside it, at whatever address
\* the buffer starts and however long it is.
WritesFromUserRegion == wrote \subseteq UserWords

\* The selectors of kernel.c and switch_ring.asm, the access bytes of gdt.c and
\* the gates of idt.c fit together: from the loader's
\* segments to the kernel's, into ring 3 and out again, with interrupts in both
\* rings, the CPU refuses no segment, trap or return, and a trap from ring 3
\* finds its stub and the kernel's stack.
NeverFaults == ~ fault

\* The user program gets through its loop and the kernel gets the CPU back.
UserModeEnds == <>(reg.rip = after_call)
=============================================================================
