-------------------------------- MODULE Tasks --------------------------------
(***************************************************************************)
(* Preemptive round-robin tasks: kernel/task/task.c driven by the timer    *)
(* interrupt of kernel/timer/pit.c.                                        *)
(*                                                                         *)
(* There is one CPU.  Its registers are the variable cpu; every other      *)
(* context exists only as an interrupt frame saved in task_list, so a      *)
(* frame that is overwritten or never saved is a context that is lost.  A  *)
(* context is named by the stack it runs on.  The timer interrupt may      *)
(* arrive between any two steps of the code below, each of which is one    *)
(* access to the shared globals; it runs to its end, as its gate keeps     *)
(* interrupts off.  reap's critical section is one step for that reason.   *)
(***************************************************************************)
EXTENDS Integers, Sequences, FiniteSets

CONSTANTS
  MAX_TASKS,      \* slots of task_list
  HEAP_STACKS,    \* task stacks the heap has room for
  ProgramLists,   \* the task_create calls the boot code may make, in order
  WORK,           \* iterations of a test task before it exits
  WAIT_TICKS,     \* ticks timer_kernel waits for
  TICK_WRAP       \* 2^64, where the tick counter wraps around

ASSUME TaskConstants ==
  /\ MAX_TASKS \in Nat \ {0} /\ HEAP_STACKS \in Nat
  /\ ProgramLists \subseteq Seq({"task_a", "task_reaper"})
  /\ WORK \in Nat /\ WAIT_TICKS \in Nat /\ TICK_WRAP \in Nat /\ WAIT_TICKS < TICK_WRAP
  /\ WAIT_TICKS > 0

VARIABLES
  programs,            \* the list of this boot
  cpu,                 \* the registers of the running context
  task_list, current_task, task_count, scheduler_started,
  ticks, kernel_frame_template, scheduling_enabled, pit_registered,
  freed,               \* stacks given back to the heap
  in_service           \* interrupt controllers waiting for an end of interrupt

task_vars == <<task_list, current_task, task_count, scheduler_started>>
timer_vars == <<ticks, kernel_frame_template, scheduling_enabled, pit_registered>>
vars == <<programs, cpu, task_vars, timer_vars, freed, in_service>>

Slots == 0 .. MAX_TASKS - 1

\* Stack s is the s-th one task_create allocates; the boot code runs on its own,
\* and NullStack is the one at address 0 that a failed malloc stands for.
BootStack == 0
NullStack == MAX_TASKS + 1
Stacks == 0 .. MAX_TASKS + 1

KERNEL_CS == "kernel_cs"
NO_CS == "no_cs"            \* the zeroed selector, which no iretq can load

Labels ==
  {"timer_init", "wait_start", "wait", "create", "enable", "idle",
   "task_a", "exit", "mark", "halt",
   "task_reaper", "for", "if", "free", "remove", "none"}

\* Registers, and the interrupt frame they are pushed into with the vector's
\* number.  reg is the local the code at rip keeps in a register or on its
\* stack.  interrupt_frame_t holds both.
Registers == [rip : Labels, rsp : Stacks, reg : Int, cs : {KERNEL_CS, NO_CS}]
interrupt_frame_t ==
  [rip : Labels, rsp : Stacks, reg : Int, cs : {KERNEL_CS, NO_CS}, int_no : 0 .. 255]

Frame(r, int_no) ==
  [rip |-> r.rip, rsp |-> r.rsp, reg |-> r.reg, cs |-> r.cs, int_no |-> int_no]
Load(f) == [rip |-> f.rip, rsp |-> f.rsp, reg |-> f.reg, cs |-> f.cs]

\* TASK_RUNNING and TASK_BLOCKED are never assigned.
TASK_READY == "ready"
TASK_DONE == "done"
task_t == [frame : interrupt_frame_t, stack_start : Stacks,
           state : {TASK_READY, TASK_DONE}, id : Slots]

\* A slot before its first use, all zero.
NoTask ==
  [frame |-> [rip |-> "none", rsp |-> BootStack, reg |-> 0, cs |-> NO_CS, int_no |-> 0],
   stack_start |-> BootStack, state |-> TASK_READY, id |-> 0]

TypeOK ==
  /\ programs \in ProgramLists
  /\ cpu \in Registers
  /\ task_list \in [Slots -> task_t]
  /\ current_task \in Slots /\ task_count \in 0 .. MAX_TASKS
  /\ scheduler_started \in BOOLEAN /\ scheduling_enabled \in BOOLEAN
  /\ pit_registered \in BOOLEAN
  /\ ticks \in 0 .. TICK_WRAP - 1
  /\ kernel_frame_template \in {KERNEL_CS, NO_CS}
  /\ freed \subseteq Stacks
  /\ in_service \subseteq {"master", "slave"}

Init ==
  /\ programs \in ProgramLists
  /\ cpu = [rip |-> "timer_init", rsp |-> BootStack, reg |-> 0, cs |-> KERNEL_CS]
  /\ task_list = [s \in Slots |-> NoTask]
  /\ current_task = 0 /\ task_count = 0 /\ scheduler_started = FALSE
  /\ ticks = 0 /\ kernel_frame_template = NO_CS
  /\ scheduling_enabled = FALSE /\ pit_registered = FALSE
  /\ freed = {} /\ in_service = {}

-----------------------------------------------------------------------------
(* The timer interrupt *)

\* Mutant: a task that is done is chosen too.
get_next_task_AnyState == (current_task + 1) % task_count
\* Mutant: the search starts at slot 0 every time.
get_next_task_FromZero ==
  LET ready == {s \in 0 .. task_count - 1 : task_list[s].state # TASK_DONE}
  IN  IF ready = {} THEN current_task ELSE CHOOSE s \in ready : \A t \in ready : s <= t

\* The next slot after the current one, going round, that is not done; the
\* current one when all are.
get_next_task ==
  LET slot(k) == (current_task + k) % task_count
      ready   == {k \in 1 .. task_count : task_list[slot(k)].state # TASK_DONE}
  IN  IF ready = {} THEN current_task
      ELSE slot(CHOOSE k \in ready : \A l \in ready : k <= l)

\* Mutant: the frame is saved after the next task was chosen.
Saved_AfterChoice(frame) ==
  IF scheduler_started THEN [task_list EXCEPT ![get_next_task].frame = frame] ELSE task_list

\* schedule(frame), with the frame on the interrupted stack.  On the first call
\* the interrupted context is not a task and is not saved.
Saved(frame) ==
  IF scheduler_started THEN [task_list EXCEPT ![current_task].frame = frame] ELSE task_list
Chosen == IF scheduler_started THEN get_next_task ELSE current_task
schedule(frame) ==
  IF task_count = 0 THEN UNCHANGED task_vars
  ELSE /\ task_list' = Saved(frame)
       /\ current_task' = Chosen
       /\ scheduler_started' = TRUE
       /\ UNCHANGED task_count

pit_handler(frame) ==
  /\ ticks' = (ticks + 1) % TICK_WRAP
  /\ kernel_frame_template' = frame.cs
  /\ IF scheduling_enabled THEN schedule(frame) ELSE UNCHANGED task_vars

\* What the handler leaves in place of the frame it was given.
FrameAfter(frame) ==
  IF pit_registered /\ scheduling_enabled /\ task_count > 0
  THEN Saved(frame)[Chosen].frame ELSE frame

\* Mutant: only the controller that owns the line is told.
pic_send_eoi_OwnerOnly(irq) == IF irq >= 8 THEN {"slave"} ELSE {"master"}

\* pic_send_eoi(irq): the controllers that are told the interrupt is over.
pic_send_eoi(irq) == IF irq >= 8 THEN {"slave", "master"} ELSE {"master"}

\* irq_handler on vector 32.  The end of interrupt is derived from the frame
\* after the handler, which may by then be another context's.
tick ==
  LET frame == Frame(cpu, 32)
      next  == FrameAfter(frame)
  IN  /\ "master" \notin in_service
      /\ IF pit_registered THEN pit_handler(frame)
         ELSE UNCHANGED <<task_vars, ticks, kernel_frame_template>>
      /\ in_service' = (in_service \cup {"master"}) \ pic_send_eoi((next.int_no - 32) % 256)
      /\ cpu' = Load(next)
      /\ UNCHANGED <<programs, scheduling_enabled, pit_registered, freed>>

-----------------------------------------------------------------------------
(* The boot code: timer_kernel and tasks_kernel *)

At(label) == cpu.rip = label
Goto(label) == cpu' = [cpu EXCEPT !.rip = label]
GotoWith(label, reg) == cpu' = [cpu EXCEPT !.rip = label, !.reg = reg]

timer_init ==
  /\ At("timer_init")
  /\ ticks' = 0 /\ pit_registered' = TRUE
  /\ Goto("wait_start")
  /\ UNCHANGED <<programs, task_vars, kernel_frame_template, scheduling_enabled, freed,
                 in_service>>

wait_start ==
  /\ At("wait_start")
  /\ GotoWith("wait", ticks)
  /\ UNCHANGED <<programs, task_vars, timer_vars, freed, in_service>>

\* Mutant: the wait for the timer is left out.
WaitOver_AtOnce == TRUE

\* The loop around hlt is left once enough ticks have passed.
WaitOver == (ticks - cpu.reg) % TICK_WRAP >= WAIT_TICKS
wait ==
  /\ At("wait") /\ WaitOver
  /\ GotoWith("create", 1)
  /\ UNCHANGED <<programs, task_vars, timer_vars, freed, in_service>>

task_get_next_id == IF task_count >= MAX_TASKS THEN -1 ELSE task_count

\* The frame a task starts from: zero but for its entry, its stack and what the
\* last timer interrupt found in the selectors and flags.
NewTask(entry, id, stack) ==
  [frame |-> [rip |-> entry, rsp |-> stack, reg |-> 0,
              cs |-> kernel_frame_template, int_no |-> 0],
   stack_start |-> stack, state |-> TASK_READY, id |-> id]

\* malloc(STACK_SIZE_TASK), whose result task_create does not look at.
malloc_stack(id) == IF id < HEAP_STACKS THEN id + 1 ELSE NullStack

task_create ==
  /\ At("create") /\ cpu.reg <= Len(programs)
  /\ IF task_get_next_id < 0
     THEN UNCHANGED task_vars
     ELSE /\ task_list' = [task_list EXCEPT ![task_count] =
                             NewTask(programs[cpu.reg], task_count, malloc_stack(task_count))]
          /\ task_count' = task_count + 1
          /\ UNCHANGED <<current_task, scheduler_started>>
  /\ GotoWith("create", cpu.reg + 1)
  /\ UNCHANGED <<programs, timer_vars, freed, in_service>>

scheduler_enable ==
  /\ At("create") /\ cpu.reg > Len(programs)
  /\ scheduling_enabled' = TRUE
  /\ Goto("idle")
  /\ UNCHANGED <<programs, task_vars, ticks, kernel_frame_template, pit_registered, freed,
                 in_service>>

-----------------------------------------------------------------------------
(* A test task: task_a, task_b and task_exit *)

task_a ==
  /\ At("task_a")
  /\ IF cpu.reg < WORK THEN GotoWith("task_a", cpu.reg + 1) ELSE Goto("exit")
  /\ UNCHANGED <<programs, task_vars, timer_vars, freed, in_service>>

\* task_list[current_task].state = TASK_DONE, in the two accesses it is
\* compiled to: the index is loaded, then the state is stored.
task_exit_load ==
  /\ At("exit")
  /\ GotoWith("mark", current_task)
  /\ UNCHANGED <<programs, task_vars, timer_vars, freed, in_service>>

task_exit_mark ==
  /\ At("mark")
  /\ task_list' = [task_list EXCEPT ![cpu.reg].state = TASK_DONE]
  /\ Goto("halt")
  /\ UNCHANGED <<programs, current_task, task_count, scheduler_started, timer_vars, freed,
                 in_service>>

-----------------------------------------------------------------------------
(* task_reaper: task_reap in a loop *)

task_reap_start ==
  /\ At("task_reaper")
  /\ GotoWith("for", 0)
  /\ UNCHANGED <<programs, task_vars, timer_vars, freed, in_service>>

\* Mutant: the last slot is never looked at.
task_reap_for_Short ==
  /\ At("for")
  /\ Goto(IF cpu.reg < task_count - 1 THEN "if" ELSE "task_reaper")
  /\ UNCHANGED <<programs, task_vars, timer_vars, freed, in_service>>

task_reap_for ==
  /\ At("for")
  /\ Goto(IF cpu.reg < task_count THEN "if" ELSE "task_reaper")
  /\ UNCHANGED <<programs, task_vars, timer_vars, freed, in_service>>

task_reap_if ==
  /\ At("if")
  /\ IF task_list[cpu.reg].state = TASK_DONE THEN Goto("free")
     ELSE GotoWith("for", cpu.reg + 1)
  /\ UNCHANGED <<programs, task_vars, timer_vars, freed, in_service>>

\* reap frees the stack with interrupts on ...
reap_free ==
  /\ At("free")
  /\ freed' = freed \cup ({task_list[cpu.reg].stack_start} \ {NullStack})
  /\ Goto("remove")
  /\ UNCHANGED <<programs, task_vars, timer_vars, in_service>>

shift_task_list_down(start) ==
  [s \in Slots |-> IF start <= s /\ s < task_count - 1
                   THEN [task_list[s + 1] EXCEPT !.id = s] ELSE task_list[s]]

\* Mutant: the current slot is not corrected.
current_after_reap_Unchanged(task) == current_task

\* ... and takes the task off the list between cli and sti.  task_reap's i-- and
\* i++ leave the index where it is.
current_after_reap(task) ==
  IF current_task > task THEN current_task - 1
  ELSE IF current_task >= task_count - 1 THEN 0 ELSE current_task

reap_remove ==
  /\ At("remove")
  /\ task_list' = shift_task_list_down(cpu.reg)
  /\ task_count' = task_count - 1
  /\ current_task' = current_after_reap(cpu.reg)
  /\ Goto("for")
  /\ UNCHANGED <<programs, scheduler_started, timer_vars, freed, in_service>>

-----------------------------------------------------------------------------

Step ==
  \/ timer_init \/ wait_start \/ wait \/ task_create \/ scheduler_enable
  \/ task_a \/ task_exit_load \/ task_exit_mark
  \/ task_reap_start \/ task_reap_for \/ task_reap_if \/ reap_free \/ reap_remove

Next == tick \/ Step

Spec == Init /\ [][Next]_vars

\* The timer never stops, and a context that keeps getting the CPU gets some of
\* its instructions executed: a tick lasts 10 ms.
Fairness == WF_vars(tick) /\ \A s \in Stacks : SF_vars(cpu.rsp = s /\ Step)
FairSpec == Spec /\ Fairness

-----------------------------------------------------------------------------
(* Properties *)

Listed == 0 .. task_count - 1

\* "which task is currently being worked on" (task.c): once scheduling has
\* started, the context on the CPU is the one in slot current_task, through
\* every switch and every shift of the list.  Otherwise schedule would save the
\* running context over another task's.
CurrentIsRunning ==
  scheduler_started =>
    current_task \in Listed /\ task_list[current_task].stack_start = cpu.rsp

\* "how much each task gets for its private stack" (task.c): no two listed tasks
\* share a stack.
PrivateStacks ==
  \A s, t \in Listed : s # t => task_list[s].stack_start # task_list[t].stack_start

\* Every listed task has a stack of its own, its saved frame resumes it on that
\* stack, and it knows its slot: a shift or a save never duplicates a task or
\* gives one task the context of another.
ContextsDistinct ==
  /\ \A s \in Listed :
       task_list[s].frame.rsp = task_list[s].stack_start /\ task_list[s].id = s
  /\ PrivateStacks

\* The stack that is running, and the stack of every listed task that can still
\* be scheduled, has not been given back to the heap, and none is given back
\* twice: reap frees it while interrupts are still on.
NoFreedStackRuns ==
  /\ cpu.rsp \notin freed
  /\ \A s \in Listed : task_list[s].state # TASK_DONE => task_list[s].stack_start \notin freed
  /\ At("free") => task_list[cpu.reg].stack_start \notin freed

\* Every context that an iretq can resume has the kernel's selectors: task_create
\* copies them from the last timer interrupt, so one must have come before it.
FramesAreLoadable ==
  cpu.cs = KERNEL_CS /\ \A s \in Listed : task_list[s].frame.cs = KERNEL_CS

\* "else the pci thinks the interrupt is still running and will freeze
\* everything else" (pic.c): no timer interrupt is left in service, although
\* irq_handler takes the line from a frame that schedule has replaced.
InterruptsEnded == in_service = {}

\* "when we exit a task we have to mark it as done" (task.c): a task that has
\* gone through task_exit is done in its own slot, or no longer listed.
Halted(s) == IF cpu.rsp = task_list[s].stack_start THEN At("halt")
             ELSE task_list[s].frame.rip = "halt"
ExitMarksItself == \A s \in Listed : Halted(s) => task_list[s].state = TASK_DONE

\* At most one task exits, so no interrupt inside task_exit can make it mark
\* another one.
OneExits == \A k, l \in DOMAIN programs : programs[k] = "task_a" /\ programs[l] = "task_a" => k = l

\* A task that exits is taken off the list and its stack is given back, as long
\* as a reaper runs and no other task exits in between.
ExitedAreReaped ==
  \A k \in Stacks :
    (OneExits /\ cpu.rsp = k /\ At("halt")) ~>
      (k \in freed /\ \A s \in Listed : task_list[s].stack_start # k)

\* Round robin starves nobody: a listed task that is not done gets the CPU
\* again, or is done, or was taken off the list.
NoStarvation ==
  \A k \in Stacks :
    (scheduler_started /\ \E s \in Listed : task_list[s].stack_start = k) ~>
      (cpu.rsp = k \/ \A s \in Listed : task_list[s].stack_start = k =>
                                         task_list[s].state = TASK_DONE)
=============================================================================
