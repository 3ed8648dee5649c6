----------------------------- MODULE TasksProofs -----------------------------
(***************************************************************************)
(* The safety of the scheduler, the exit and the reaper, for every number  *)
(* of slots and every list of tasks with at most one reaper, when the heap *)
(* has room for their stacks.                                              *)
(***************************************************************************)
EXTENDS Tasks, WellFoundedInduction, TLAPS

\* What the theorems assume of the constants: task_create does not look at what
\* malloc returns, and two reapers would free a stack twice.
Provided ==
  /\ HEAP_STACKS >= MAX_TASKS
  /\ \A p \in ProgramLists : \A k, l \in DOMAIN p :
       p[k] = "task_reaper" /\ p[l] = "task_reaper" => k = l

BootLabels == {"timer_init", "wait_start", "wait", "create", "idle"}
ReaperLabels == {"task_reaper", "for", "if", "free", "remove"}
TaskLabels == {"task_a", "exit", "mark", "halt"} \cup ReaperLabels

\* Where the context of slot s is, and its local: on the CPU, or in its frame.
OnCpu(s) == scheduler_started /\ s = current_task
Rip(s) == IF OnCpu(s) THEN cpu.rip ELSE task_list[s].frame.rip
Reg(s) == IF OnCpu(s) THEN cpu.reg ELSE task_list[s].frame.reg

\* Every slot in the list is a task of its own.
Tasked ==
  \A s \in Listed :
    /\ task_list[s].frame.rsp = task_list[s].stack_start /\ task_list[s].id = s
    /\ task_list[s].stack_start \in 1 .. MAX_TASKS
    /\ task_list[s].frame.cs = KERNEL_CS /\ task_list[s].frame.int_no \in {0, 32}
    /\ Rip(s) \in TaskLabels

\* What the code between two instructions of a context relies on.
Locals ==
  \A s \in Listed :
    /\ Rip(s) = "mark" => Reg(s) \in Slots
    /\ Rip(s) = "for" => Reg(s) \in 0 .. task_count
    /\ Rip(s) \in {"if", "free", "remove"} => Reg(s) \in Listed
    /\ Rip(s) \in {"free", "remove"} => task_list[Reg(s)].state = TASK_DONE

\* A stack that is free and still listed belongs to a task that is done, does
\* not run, and is about to be removed.
FreedIsLeaving ==
  \A s \in Listed :
    task_list[s].stack_start \in freed =>
      /\ task_list[s].state = TASK_DONE /\ s # current_task
      /\ \E r \in Listed : Rip(r) = "remove" /\ Reg(r) = s

OneReaper == \A s, t \in Listed : Rip(s) \in ReaperLabels /\ Rip(t) \in ReaperLabels => s = t

\* Before the first switch only the boot code runs, and the list is what it has
\* created so far.
Booting ==
  ~ scheduler_started =>
    /\ cpu.rsp = BootStack /\ cpu.rip \in BootLabels /\ current_task = 0 /\ freed = {}
    /\ scheduling_enabled => cpu.rip = "idle"
    /\ \A s \in Listed :
         /\ task_list[s].stack_start = s + 1 /\ task_list[s].state = TASK_READY
         /\ task_list[s].frame.rip = programs[s + 1]
    /\ cpu.rip \in {"timer_init", "wait_start", "wait"} => task_count = 0
    /\ cpu.rip = "create" =>
         /\ cpu.reg \in 1 .. Len(programs) + 1
         /\ task_count = IF cpu.reg <= MAX_TASKS THEN cpu.reg - 1 ELSE MAX_TASKS
    /\ task_count <= Len(programs)
    /\ cpu.rip = "wait_start" /\ kernel_frame_template = NO_CS => ticks = 0
    /\ cpu.rip = "wait" => cpu.reg \in Nat
    /\ cpu.rip = "wait" /\ kernel_frame_template = NO_CS => ticks = cpu.reg
    /\ cpu.rip = "create" => kernel_frame_template = KERNEL_CS

\* A task that runs although it is done has nothing left to do.
DoneHalts ==
  scheduler_started /\ task_list[current_task].state = TASK_DONE => cpu.rip = "halt"

IInv ==
  /\ TypeOK /\ cpu.cs = KERNEL_CS /\ InterruptsEnded
  /\ scheduler_started => scheduling_enabled
  /\ Booting /\ CurrentIsRunning /\ DoneHalts
  /\ Tasked /\ PrivateStacks /\ Locals /\ FreedIsLeaving /\ OneReaper

-----------------------------------------------------------------------------
\* The boot code runs until the first switch, a task from then on.
LEMMA Where ==
  ASSUME IInv
  PROVE  /\ cpu.rip \in BootLabels => ~ scheduler_started
         /\ cpu.rip \notin BootLabels => scheduler_started
<1>1. scheduler_started => cpu.rip \in TaskLabels
  BY DEF IInv, CurrentIsRunning, Tasked, Rip, OnCpu
<1>2. TaskLabels \cap BootLabels = {}
  BY DEF TaskLabels, BootLabels, ReaperLabels
<1>3. ~ scheduler_started => cpu.rip \in BootLabels
  BY DEF IInv, Booting
<1> QED BY <1>1, <1>2, <1>3

LEMMA Constants ==
  /\ MAX_TASKS \in Nat /\ MAX_TASKS >= 1 /\ HEAP_STACKS \in Nat
  /\ TICK_WRAP \in Nat /\ WAIT_TICKS \in Nat /\ WAIT_TICKS > 0 /\ WAIT_TICKS < TICK_WRAP
  /\ \A p \in ProgramLists : Len(p) \in Nat /\ DOMAIN p = 1 .. Len(p)
                              /\ \A k \in 1 .. Len(p) : p[k] \in {"task_a", "task_reaper"}
BY TaskConstants

LEMMA GotoFacts ==
  ASSUME TypeOK, NEW l \in Labels, NEW n \in Int
  PROVE  /\ Goto(l) => /\ cpu' \in Registers /\ cpu'.rip = l /\ cpu'.reg = cpu.reg
                       /\ cpu'.rsp = cpu.rsp /\ cpu'.cs = cpu.cs
         /\ GotoWith(l, n) => /\ cpu' \in Registers /\ cpu'.rip = l /\ cpu'.reg = n
                              /\ cpu'.rsp = cpu.rsp /\ cpu'.cs = cpu.cs
<1>1. cpu \in Registers
  BY DEF TypeOK
<1> QED BY <1>1 DEF Goto, GotoWith, Registers

\* A step of the boot code that leaves the list alone.
LEMMA BootStep ==
  ASSUME IInv, cpu.rip \in BootLabels,
         UNCHANGED <<programs, task_vars, freed, in_service>>,
         cpu' \in Registers, cpu'.rsp = cpu.rsp, cpu'.cs = cpu.cs, cpu'.rip \in BootLabels,
         Booting'
  PROVE  /\ CurrentIsRunning' /\ DoneHalts' /\ Tasked' /\ PrivateStacks' /\ Locals'
         /\ FreedIsLeaving' /\ OneReaper' /\ InterruptsEnded' /\ cpu'.cs = KERNEL_CS
         /\ (scheduler_started => scheduling_enabled)'
<1>1. ~ scheduler_started /\ ~ scheduler_started'
  BY Where DEF task_vars
<1>2. Listed' = Listed /\ task_list' = task_list /\ current_task' = current_task
  BY DEF Listed, task_vars
<1>3. \A s : Rip(s)' = Rip(s) /\ Reg(s)' = Reg(s)
  BY <1>1, <1>2 DEF Rip, Reg, OnCpu
<1>4. freed' = {}
  BY <1>1 DEF IInv, Booting
<1>5. Tasked'
  BY <1>2, <1>3 DEF IInv, Tasked
<1>6. PrivateStacks'
  BY <1>2 DEF IInv, PrivateStacks
<1>7. Locals'
  BY <1>2, <1>3 DEF IInv, Locals, task_vars
<1>8. OneReaper'
  BY <1>2, <1>3 DEF IInv, OneReaper
<1>9. FreedIsLeaving'
  BY <1>4 DEF FreedIsLeaving
<1> QED BY <1>1, <1>5, <1>6, <1>7, <1>8, <1>9 DEF IInv, InterruptsEnded, CurrentIsRunning, DoneHalts

\* A step of a task that changes no more than its own registers.
LEMMA LocalStep ==
  ASSUME IInv, scheduler_started,
         UNCHANGED <<programs, task_vars, timer_vars, freed, in_service>>,
         cpu' \in Registers, cpu'.rsp = cpu.rsp, cpu'.cs = cpu.cs,
         cpu.rip \notin {"halt", "remove"}, cpu'.rip \in TaskLabels \ {"remove"},
         cpu'.rip \in ReaperLabels => cpu.rip \in ReaperLabels,
         cpu'.rip = "mark" => cpu'.reg \in Slots,
         cpu'.rip = "for" => cpu'.reg \in 0 .. task_count,
         cpu'.rip \in {"if", "free"} => cpu'.reg \in Listed,
         cpu'.rip = "free" => task_list[cpu'.reg].state = TASK_DONE
  PROVE  IInv'
<1>1. /\ Listed' = Listed /\ task_list' = task_list /\ current_task' = current_task
      /\ scheduler_started' /\ task_count' = task_count
  BY DEF Listed, task_vars
<1>2. current_task \in Listed /\ task_list[current_task].state # TASK_DONE
  BY DEF IInv, CurrentIsRunning, DoneHalts
<1>3. \A s : s # current_task => Rip(s)' = Rip(s) /\ Reg(s)' = Reg(s)
  BY <1>1 DEF Rip, Reg, OnCpu
<1>4. /\ Rip(current_task)' = cpu'.rip /\ Reg(current_task)' = cpu'.reg
      /\ Rip(current_task) = cpu.rip
  BY <1>1 DEF Rip, Reg, OnCpu
<1>5. TypeOK' /\ cpu'.cs = KERNEL_CS /\ InterruptsEnded' /\ (scheduler_started => scheduling_enabled)'
  BY <1>1 DEF IInv, TypeOK, InterruptsEnded, task_vars, timer_vars
<1>6. Booting' /\ CurrentIsRunning' /\ DoneHalts'
  BY <1>1, <1>2 DEF Booting, IInv, CurrentIsRunning, DoneHalts
<1>7. Tasked'
  BY <1>1, <1>3, <1>4 DEF IInv, Tasked
<1>8. PrivateStacks'
  BY <1>1 DEF IInv, PrivateStacks
<1>9. Locals'
  <2> SUFFICES ASSUME NEW s \in Listed'
               PROVE  /\ Rip(s)' = "mark" => Reg(s)' \in Slots
                      /\ Rip(s)' = "for" => Reg(s)' \in 0 .. task_count'
                      /\ Rip(s)' \in {"if", "free", "remove"} => Reg(s)' \in Listed'
                      /\ Rip(s)' \in {"free", "remove"} => task_list'[Reg(s)'].state = TASK_DONE
    BY DEF Locals
  <2>1. CASE s = current_task
    BY <1>1, <1>4, <2>1
  <2>2. CASE s # current_task
    BY <1>1, <1>3, <2>2 DEF IInv, Locals
  <2> QED BY <2>1, <2>2
<1>10. FreedIsLeaving'
  <2> SUFFICES ASSUME NEW s \in Listed, task_list[s].stack_start \in freed
               PROVE  /\ task_list[s].state = TASK_DONE /\ s # current_task
                      /\ \E r \in Listed : Rip(r)' = "remove" /\ Reg(r)' = s
    BY <1>1 DEF FreedIsLeaving
  <2>1. PICK r \in Listed : Rip(r) = "remove" /\ Reg(r) = s
    BY DEF IInv, FreedIsLeaving
  <2>2. r # current_task
    BY <1>4, <2>1
  <2> QED BY <1>3, <2>1, <2>2 DEF IInv, FreedIsLeaving
<1>11. OneReaper'
  BY <1>1, <1>3, <1>4 DEF IInv, OneReaper
<1> QED BY <1>5, <1>6, <1>7, <1>8, <1>9, <1>10, <1>11 DEF IInv

-----------------------------------------------------------------------------
(* The boot code *)

LEMMA TimerSteps ==
  ASSUME IInv, timer_init \/ wait_start \/ wait \/ scheduler_enable
  PROVE  IInv'
<1>1. /\ UNCHANGED <<programs, task_vars, freed, in_service>>
      /\ cpu'.rsp = cpu.rsp /\ cpu'.cs = cpu.cs /\ cpu.rip \in BootLabels /\ cpu'.rip \in BootLabels
      /\ cpu' \in Registers
  <2>1. /\ {"wait_start", "wait", "create", "idle"} \subseteq Labels /\ 1 \in Int /\ ticks \in Int
        /\ TypeOK
    BY Constants DEF Labels, IInv, TypeOK
  <2>2. CASE timer_init
    BY <2>1, <2>2, GotoFacts DEF timer_init, At, BootLabels
  <2>3. CASE wait_start
    BY <2>1, <2>3, GotoFacts DEF wait_start, At, BootLabels
  <2>4. CASE wait
    BY <2>1, <2>4, GotoFacts DEF wait, At, BootLabels
  <2>5. CASE scheduler_enable
    BY <2>1, <2>5, GotoFacts DEF scheduler_enable, At, BootLabels
  <2> QED BY <2>2, <2>3, <2>4, <2>5
<1>2. ~ scheduler_started /\ ~ scheduler_started'
  BY <1>1, Where DEF task_vars
<1>3. TypeOK'
  <2>1. CASE timer_init
    BY <1>1, <2>1, Constants DEF timer_init, IInv, TypeOK, task_vars
  <2>2. CASE wait_start \/ wait
    BY <1>1, <2>2 DEF wait_start, wait, IInv, TypeOK, task_vars, timer_vars
  <2>3. CASE scheduler_enable
    BY <1>1, <2>3 DEF scheduler_enable, IInv, TypeOK, task_vars
  <2> QED BY <2>1, <2>2, <2>3
<1>4. Listed' = Listed /\ task_list' = task_list /\ task_count' = task_count
  BY <1>1 DEF Listed, task_vars
<1>5. Booting'
  <2>1. CASE timer_init
    BY <1>1, <1>2, <1>4, <2>1 DEF timer_init, At, Goto, IInv, TypeOK, Registers, Booting, BootLabels, task_vars
  <2>2. CASE wait_start
    BY <1>1, <1>2, <1>4, <2>2 DEF wait_start, At, GotoWith, IInv, TypeOK, Registers, Booting, BootLabels, task_vars,
                                 timer_vars
  <2>3. CASE wait
    <3>1. kernel_frame_template = KERNEL_CS
      <4>1. ticks # cpu.reg
        <5> SUFFICES ASSUME ticks = cpu.reg PROVE FALSE
          OBVIOUS
        <5>1. 0 % TICK_WRAP >= WAIT_TICKS
          BY <2>3 DEF wait, WaitOver, IInv, TypeOK
        <5> QED BY <5>1, Constants
      <4> QED BY <1>2, <2>3, <4>1 DEF wait, At, IInv, Booting, TypeOK
    <3>2. Len(programs) \in Nat
      BY Constants DEF IInv, TypeOK
    <3> QED BY <1>1, <1>2, <1>4, <2>3, <3>1, <3>2, Constants
            DEF wait, At, GotoWith, IInv, TypeOK, Registers, Booting, BootLabels, task_vars, timer_vars
  <2>4. CASE scheduler_enable
    BY <1>1, <1>2, <1>4, <2>4 DEF scheduler_enable, At, Goto, IInv, TypeOK, Registers, Booting, BootLabels, task_vars
  <2> QED BY <2>1, <2>2, <2>3, <2>4
<1> QED BY <1>1, <1>3, <1>5, BootStep DEF IInv

\* task_create puts a new task behind the list, on a stack no other task has.
LEMMA CreateStep ==
  ASSUME Provided, IInv, task_create
  PROVE  IInv'
<1>1. /\ cpu.rip = "create" /\ cpu'.rip = "create" /\ cpu'.reg = cpu.reg + 1
      /\ cpu'.rsp = cpu.rsp /\ cpu'.cs = cpu.cs /\ cpu' \in Registers
      /\ UNCHANGED <<programs, timer_vars, freed, in_service, current_task, scheduler_started>>
      /\ cpu.reg <= Len(programs)
  <2>1. "create" \in Labels /\ cpu.reg + 1 \in Int /\ TypeOK
    BY DEF Labels, IInv, TypeOK, Registers
  <2> QED BY <2>1, GotoFacts DEF task_create, At, task_vars
<1>2. ~ scheduler_started /\ ~ scheduler_started' /\ freed = {} /\ freed' = {}
  BY <1>1, Where DEF BootLabels, IInv, Booting
<1>3. /\ Len(programs) \in Nat /\ cpu.reg \in 1 .. Len(programs)
      /\ task_count = IF cpu.reg <= MAX_TASKS THEN cpu.reg - 1 ELSE MAX_TASKS
      /\ task_count \in 0 .. MAX_TASKS /\ kernel_frame_template = KERNEL_CS
  BY <1>1, <1>2, Constants DEF IInv, Booting, TypeOK
<1>4. CASE task_count = MAX_TASKS
  <2>1. UNCHANGED task_vars
    BY <1>4, Constants DEF task_create, task_get_next_id
  <2>2. Listed' = Listed /\ task_list' = task_list /\ task_count' = task_count
    BY <2>1 DEF Listed, task_vars
  <2>3. Booting'
    BY <1>1, <1>2, <1>3, <1>4, <2>2, Constants DEF IInv, Booting, BootLabels, timer_vars
  <2>4. TypeOK'
    BY <1>1, <2>1 DEF IInv, TypeOK, task_vars, timer_vars
  <2> QED BY <1>1, <2>1, <2>3, <2>4, BootStep DEF IInv, BootLabels
<1>5. CASE task_count < MAX_TASKS
  <2> DEFINE new == NewTask(programs[cpu.reg], task_count, task_count + 1)
  <2>1. task_list' = [task_list EXCEPT ![task_count] = new] /\ task_count' = task_count + 1
    <3>1. malloc_stack(task_count) = task_count + 1
      BY <1>3, <1>5, Constants DEF Provided, malloc_stack
    <3> QED BY <1>3, <1>5, <3>1, Constants DEF task_create, task_get_next_id
  <2>2. /\ new.frame.rip = programs[cpu.reg] /\ new.frame.rsp = task_count + 1 /\ new.frame.cs = KERNEL_CS
        /\ new.frame.int_no = 0 /\ new.stack_start = task_count + 1 /\ new.state = TASK_READY
        /\ new.id = task_count /\ new \in task_t
        /\ programs[cpu.reg] \in {"task_a", "task_reaper"}
    <3>1. programs[cpu.reg] \in {"task_a", "task_reaper"}
      BY <1>3, Constants DEF IInv, TypeOK
    <3> QED BY <1>3, <1>5, <3>1, Constants
            DEF NewTask, task_t, interrupt_frame_t, Labels, Stacks, Slots, TASK_READY, TASK_DONE,
                KERNEL_CS, NO_CS
  <2> HIDE DEF new
  <2>3. /\ Listed' = Listed \cup {task_count} /\ task_count \notin Listed /\ task_count \in Slots
        /\ Listed \subseteq Slots
    BY <1>3, <1>5, <2>1, Constants DEF Listed, Slots
  <2>4. /\ task_list'[task_count] = new
        /\ \A s \in Listed : task_list'[s] = task_list[s]
    BY <2>1, <2>3 DEF IInv, TypeOK
  <2>5. \A s : Rip(s)' = task_list'[s].frame.rip /\ Reg(s)' = task_list'[s].frame.reg
    BY <1>2 DEF Rip, Reg, OnCpu
  <2>6. \A s : Rip(s) = task_list[s].frame.rip /\ Reg(s) = task_list[s].frame.reg
    BY <1>2 DEF Rip, Reg, OnCpu
  <2>7. TypeOK'
    <3>1. task_list' \in [Slots -> task_t]
      BY <2>1, <2>2, <2>3 DEF IInv, TypeOK
    <3> QED BY <1>1, <1>3, <1>5, <2>1, <3>1, Constants DEF IInv, TypeOK, timer_vars
  <2>8. Booting'
    <3>1. \A s \in Listed' : /\ task_list'[s].stack_start = s + 1 /\ task_list'[s].state = TASK_READY
                             /\ task_list'[s].frame.rip = programs'[s + 1]
      <4>1. cpu.reg = task_count + 1 /\ programs' = programs
        BY <1>1, <1>3, <1>5
      <4>2. \A s \in Listed : /\ task_list[s].stack_start = s + 1 /\ task_list[s].state = TASK_READY
                              /\ task_list[s].frame.rip = programs[s + 1]
        BY <1>2 DEF IInv, Booting
      <4> QED BY <2>2, <2>3, <2>4, <4>1, <4>2
    <3> QED BY <1>1, <1>2, <1>3, <1>5, <2>1, <3>1, Constants DEF IInv, Booting, BootLabels, timer_vars
  <2>9. Tasked'
    <3>1. task_count + 1 \in 1 .. MAX_TASKS
      BY <1>3, <1>5, Constants
    <3> QED BY <2>2, <2>3, <2>4, <2>5, <2>6, <3>1 DEF IInv, Tasked, TaskLabels, ReaperLabels
  <2>10. PrivateStacks'
    <3>1. \A s \in Listed' : task_list'[s].stack_start = s + 1
      BY <1>2, <2>8 DEF Booting
    <3> QED BY <3>1, <1>3, <2>3 DEF PrivateStacks, Listed, Slots
  <2>11. \A s \in Listed' : Rip(s)' \in {"task_a", "task_reaper"} /\ Rip(s)' = programs[s + 1]
    <3>1. \A s \in Listed : Rip(s) = programs[s + 1] /\ programs[s + 1] \in {"task_a", "task_reaper"}
      <4>1. \A s \in Listed : s + 1 \in 1 .. Len(programs)
        BY <1>2, <1>3 DEF IInv, Booting, Listed
      <4> QED BY <1>2, <2>6, <4>1, Constants DEF IInv, Booting, TypeOK
    <3>2. programs[task_count + 1] = programs[cpu.reg]
      BY <1>3, <1>5
    <3> QED BY <2>2, <2>3, <2>4, <2>5, <2>6, <3>1, <3>2
  <2>12. Locals' /\ FreedIsLeaving'
    BY <1>2, <2>11 DEF Locals, FreedIsLeaving
  <2>13. OneReaper'
    <3> SUFFICES ASSUME NEW s \in Listed', NEW t \in Listed', Rip(s)' \in ReaperLabels,
                        Rip(t)' \in ReaperLabels
                 PROVE  s = t
      BY DEF OneReaper
    <3>1. programs[s + 1] = "task_reaper" /\ programs[t + 1] = "task_reaper"
      BY <2>11 DEF ReaperLabels
    <3>2. s + 1 \in DOMAIN programs /\ t + 1 \in DOMAIN programs /\ s \in Int /\ t \in Int
      BY <1>3, <1>5, <2>1, Constants DEF IInv, TypeOK, Listed
    <3> QED BY <3>1, <3>2 DEF Provided, IInv, TypeOK
  <2> QED BY <1>1, <1>2, <2>7, <2>8, <2>9, <2>10, <2>12, <2>13
          DEF IInv, InterruptsEnded, CurrentIsRunning, DoneHalts
<1> QED BY <1>3, <1>4, <1>5, Constants

-----------------------------------------------------------------------------
(* The tasks *)

\* The steps that change no more than registers.
LEMMA LocalSteps ==
  ASSUME IInv,
         task_a \/ task_exit_load \/ task_reap_start \/ task_reap_for \/ task_reap_if
  PROVE  IInv'
<1>1. /\ TypeOK /\ cpu.reg \in Int /\ task_count \in 0 .. MAX_TASKS /\ current_task \in Slots
      /\ MAX_TASKS \in Nat /\ TaskLabels \subseteq Labels /\ Slots \subseteq Int
  BY Constants DEF IInv, TypeOK, Registers, TaskLabels, ReaperLabels, Labels, Slots
<1>2. scheduler_started /\ cpu.rip \notin {"halt", "remove"}
  BY Where DEF task_a, task_exit_load, task_reap_start, task_reap_for, task_reap_if, At, BootLabels
<1>3. /\ UNCHANGED <<programs, task_vars, timer_vars, freed, in_service>>
  BY DEF task_a, task_exit_load, task_reap_start, task_reap_for, task_reap_if
<1>4. /\ cpu.rip = "for" => cpu.reg \in 0 .. task_count
      /\ cpu.rip = "if" => cpu.reg \in Listed
  BY <1>2 DEF IInv, CurrentIsRunning, Locals, Rip, Reg, OnCpu
<1>5. CASE task_a
  <2>1. cpu' \in Registers /\ cpu'.rip \in {"task_a", "exit"} /\ cpu'.rsp = cpu.rsp /\ cpu'.cs = cpu.cs
    BY <1>1, <1>5, GotoFacts DEF task_a, TaskLabels
  <2> QED BY <1>2, <1>3, <2>1, LocalStep DEF TaskLabels, ReaperLabels
<1>6. CASE task_exit_load
  <2>1. /\ cpu' \in Registers /\ cpu'.rip = "mark" /\ cpu'.reg = current_task /\ cpu'.rsp = cpu.rsp
        /\ cpu'.cs = cpu.cs
    BY <1>1, <1>6, GotoFacts DEF task_exit_load, TaskLabels
  <2> QED BY <1>1, <1>2, <1>3, <2>1, LocalStep DEF TaskLabels, ReaperLabels
<1>7. CASE task_reap_start
  <2>1. /\ cpu' \in Registers /\ cpu'.rip = "for" /\ cpu'.reg = 0 /\ cpu'.rsp = cpu.rsp
        /\ cpu'.cs = cpu.cs /\ cpu.rip = "task_reaper"
    BY <1>1, <1>7, GotoFacts DEF task_reap_start, At, TaskLabels, ReaperLabels
  <2>2. 0 \in 0 .. task_count
    BY <1>1
  <2> QED BY <1>2, <1>3, <2>1, <2>2, LocalStep DEF TaskLabels, ReaperLabels
<1>8. CASE task_reap_for
  <2>1. /\ cpu' \in Registers /\ cpu'.reg = cpu.reg /\ cpu'.rsp = cpu.rsp /\ cpu'.cs = cpu.cs
        /\ cpu.rip = "for" /\ cpu'.rip \in {"if", "task_reaper"}
        /\ cpu'.rip = "if" => cpu.reg < task_count
    BY <1>1, <1>8, GotoFacts DEF task_reap_for, At, TaskLabels, ReaperLabels
  <2>2. cpu'.rip = "if" => cpu.reg \in Listed
    BY <1>1, <1>4, <2>1 DEF Listed
  <2> QED BY <1>2, <1>3, <2>1, <2>2, LocalStep DEF TaskLabels, ReaperLabels
<1>9. CASE task_reap_if
  <2>1. cpu.reg + 1 \in 0 .. task_count /\ cpu.reg + 1 \in Int
    BY <1>1, <1>4, <1>9 DEF task_reap_if, At, Listed
  <2>2. /\ cpu' \in Registers /\ cpu'.rsp = cpu.rsp /\ cpu'.cs = cpu.cs /\ cpu.rip = "if"
        /\ \/ cpu'.rip = "free" /\ cpu'.reg = cpu.reg /\ task_list[cpu.reg].state = TASK_DONE
           \/ cpu'.rip = "for" /\ cpu'.reg = cpu.reg + 1
    BY <1>1, <1>9, <2>1, GotoFacts DEF task_reap_if, At, TaskLabels, ReaperLabels
  <2> QED BY <1>2, <1>3, <1>4, <2>1, <2>2, LocalStep DEF TaskLabels, ReaperLabels
<1> QED BY <1>5, <1>6, <1>7, <1>8, <1>9

\* task_exit marks the slot it loaded as done.  That need not be its own any
\* more, but no task that is done gets to run for it.
LEMMA MarkStep ==
  ASSUME IInv, task_exit_mark
  PROVE  IInv'
<1>1. /\ TypeOK /\ TaskLabels \subseteq Labels /\ cpu.reg \in Int
  BY DEF IInv, TypeOK, Registers, TaskLabels, ReaperLabels, Labels
<1>2. /\ cpu' \in Registers /\ cpu'.rip = "halt" /\ cpu'.rsp = cpu.rsp /\ cpu'.cs = cpu.cs
      /\ cpu.rip = "mark"
  BY <1>1, GotoFacts DEF task_exit_mark, At, TaskLabels
<1>3. scheduler_started
  BY <1>2, Where DEF BootLabels
<1>4. /\ current_task' = current_task /\ task_count' = task_count /\ scheduler_started'
      /\ Listed' = Listed /\ freed' = freed
      /\ UNCHANGED <<programs, timer_vars, in_service>>
  BY <1>3 DEF task_exit_mark, Listed
<1>5. current_task \in Listed /\ cpu.reg \in Slots
  BY <1>2, <1>3 DEF IInv, CurrentIsRunning, Locals, Rip, Reg, OnCpu
<1>6. Listed \subseteq Slots
  BY Constants DEF IInv, TypeOK, Listed, Slots
<1>7. /\ task_list' \in [Slots -> task_t]
      /\ \A s \in Slots : /\ task_list'[s].frame = task_list[s].frame
                          /\ task_list'[s].stack_start = task_list[s].stack_start
                          /\ task_list'[s].id = task_list[s].id
                          /\ task_list'[s].state \in {task_list[s].state, TASK_DONE}
  <2>1. task_list' = [task_list EXCEPT ![cpu.reg].state = TASK_DONE] /\ task_list \in [Slots -> task_t]
    BY DEF task_exit_mark, IInv, TypeOK
  <2>2. \A s \in Slots : task_list'[s] = IF s = cpu.reg THEN [task_list[s] EXCEPT !.state = TASK_DONE]
                                         ELSE task_list[s]
    BY <1>5, <2>1
  <2>3. \A s \in Slots : [task_list[s] EXCEPT !.state = TASK_DONE] \in task_t
    BY <2>1 DEF task_t
  <2>4. DOMAIN task_list' = Slots /\ task_list' = [s \in Slots |-> task_list'[s]]
    BY <2>1
  <2>5. \A t \in task_t : LET u == [t EXCEPT !.state = TASK_DONE]
                         IN  /\ u.frame = t.frame /\ u.stack_start = t.stack_start
                             /\ u.id = t.id /\ u.state = TASK_DONE
    BY DEF task_t
  <2>6. ASSUME NEW s \in Slots
        PROVE  /\ task_list'[s] \in task_t
               /\ task_list'[s].frame = task_list[s].frame
               /\ task_list'[s].stack_start = task_list[s].stack_start
               /\ task_list'[s].id = task_list[s].id
               /\ task_list'[s].state \in {task_list[s].state, TASK_DONE}
    <3>1. task_list[s] \in task_t
      BY <2>1
    <3>2. CASE s = cpu.reg
      <4>1. task_list'[s] = [task_list[s] EXCEPT !.state = TASK_DONE]
        BY <2>2, <3>2
      <4> QED BY <2>3, <2>5, <3>1, <4>1
    <3>3. CASE s # cpu.reg
      <4>1. task_list'[s] = task_list[s]
        BY <2>2, <3>3
      <4> QED BY <3>1, <4>1
    <3> QED BY <3>2, <3>3
  <2>7. task_list' \in [Slots -> task_t]
    BY <2>4, <2>6
  <2> QED BY <2>6, <2>7
<1>8. /\ \A s : s # current_task => OnCpu(s)' = FALSE /\ OnCpu(s) = FALSE
      /\ OnCpu(current_task)' /\ OnCpu(current_task)
  BY <1>3, <1>4 DEF OnCpu
<1>9. /\ \A s \in Listed : s # current_task => Rip(s)' = Rip(s) /\ Reg(s)' = Reg(s)
      /\ \A s : s = current_task => Rip(s)' = "halt" /\ Rip(s) = "mark"
  BY <1>2, <1>4, <1>6, <1>7, <1>8 DEF Rip, Reg
<1>10. TypeOK' /\ cpu'.cs = KERNEL_CS /\ InterruptsEnded' /\ (scheduler_started => scheduling_enabled)'
  BY <1>2, <1>4, <1>7 DEF IInv, TypeOK, InterruptsEnded, timer_vars, task_exit_mark
<1>11. Booting' /\ CurrentIsRunning' /\ DoneHalts'
  BY <1>2, <1>3, <1>4, <1>5, <1>6, <1>7 DEF Booting, IInv, CurrentIsRunning, DoneHalts
<1>12. Tasked'
  <2> SUFFICES ASSUME NEW s \in Listed
               PROVE  /\ task_list'[s].frame.rsp = task_list'[s].stack_start
                      /\ task_list'[s].id = s /\ task_list'[s].stack_start \in 1 .. MAX_TASKS
                      /\ task_list'[s].frame.cs = KERNEL_CS
                      /\ task_list'[s].frame.int_no \in {0, 32}
                      /\ Rip(s)' \in TaskLabels
    BY <1>4 DEF Tasked
  <2>1. /\ task_list'[s].frame = task_list[s].frame /\ task_list'[s].id = task_list[s].id
        /\ task_list'[s].stack_start = task_list[s].stack_start
    BY <1>6, <1>7
  <2>2. /\ task_list[s].frame.rsp = task_list[s].stack_start /\ task_list[s].id = s
        /\ task_list[s].stack_start \in 1 .. MAX_TASKS /\ task_list[s].frame.cs = KERNEL_CS
        /\ task_list[s].frame.int_no \in {0, 32} /\ Rip(s) \in TaskLabels
    BY DEF IInv, Tasked
  <2>3. Rip(s)' \in TaskLabels
    <3>1. CASE s = current_task
      BY <1>9, <3>1 DEF TaskLabels
    <3>2. CASE s # current_task
      BY <1>9, <2>2, <3>2
    <3> QED BY <3>1, <3>2
  <2> QED BY <2>1, <2>2, <2>3
<1>13. PrivateStacks'
  BY <1>4, <1>6, <1>7 DEF IInv, PrivateStacks
<1>14. Locals'
  <2> SUFFICES ASSUME NEW s \in Listed'
               PROVE  /\ Rip(s)' = "mark" => Reg(s)' \in Slots
                      /\ Rip(s)' = "for" => Reg(s)' \in 0 .. task_count'
                      /\ Rip(s)' \in {"if", "free", "remove"} => Reg(s)' \in Listed'
                      /\ Rip(s)' \in {"free", "remove"} => task_list'[Reg(s)'].state = TASK_DONE
    BY DEF Locals
  <2>1. CASE s = current_task
    BY <1>9, <2>1
  <2>2. CASE s # current_task
    <3>1. Rip(s)' = Rip(s) /\ Reg(s)' = Reg(s)
      BY <1>4, <1>9, <2>2
    <3>2. /\ Rip(s) = "mark" => Reg(s) \in Slots
          /\ Rip(s) = "for" => Reg(s) \in 0 .. task_count
          /\ Rip(s) \in {"if", "free", "remove"} => Reg(s) \in Listed
          /\ Rip(s) \in {"free", "remove"} => task_list[Reg(s)].state = TASK_DONE
      BY <1>4 DEF IInv, Locals
    <3>3. Reg(s) \in Listed /\ task_list[Reg(s)].state = TASK_DONE =>
            task_list'[Reg(s)].state = TASK_DONE
      BY <1>6, <1>7
    <3> QED BY <1>4, <3>1, <3>2, <3>3
  <2> QED BY <2>1, <2>2
<1>15. FreedIsLeaving'
  <2> SUFFICES ASSUME NEW s \in Listed, task_list[s].stack_start \in freed
               PROVE  /\ task_list'[s].state = TASK_DONE /\ s # current_task
                      /\ \E r \in Listed : Rip(r)' = "remove" /\ Reg(r)' = s
    BY <1>4, <1>6, <1>7 DEF FreedIsLeaving
  <2>1. PICK r \in Listed : Rip(r) = "remove" /\ Reg(r) = s
    BY DEF IInv, FreedIsLeaving
  <2>2. r # current_task
    BY <1>9, <2>1
  <2>3. task_list[s].state = TASK_DONE /\ s # current_task
    BY DEF IInv, FreedIsLeaving
  <2> QED BY <1>6, <1>7, <1>9, <2>1, <2>2, <2>3
<1>16. OneReaper'
  BY <1>4, <1>9 DEF IInv, OneReaper, ReaperLabels
<1> QED BY <1>10, <1>11, <1>12, <1>13, <1>14, <1>15, <1>16 DEF IInv

\* reap gives back the stack of a task that is done, which is not its own.
LEMMA FreeStep ==
  ASSUME IInv, reap_free
  PROVE  IInv'
<1>1. /\ TypeOK /\ TaskLabels \subseteq Labels /\ cpu.reg \in Int
  BY DEF IInv, TypeOK, Registers, TaskLabels, ReaperLabels, Labels
<1>2. /\ cpu' \in Registers /\ cpu'.rip = "remove" /\ cpu'.rsp = cpu.rsp /\ cpu'.cs = cpu.cs
      /\ cpu.rip = "free" /\ cpu'.reg = cpu.reg
  BY <1>1, GotoFacts DEF reap_free, At, TaskLabels, ReaperLabels
<1>3. scheduler_started
  BY <1>2, Where DEF BootLabels
<1>4. /\ current_task' = current_task /\ task_count' = task_count /\ scheduler_started'
      /\ Listed' = Listed /\ task_list' = task_list
      /\ UNCHANGED <<programs, timer_vars, in_service>>
  BY <1>3 DEF reap_free, Listed, task_vars
<1>5. /\ current_task \in Listed /\ cpu.reg \in Listed /\ task_list[cpu.reg].state = TASK_DONE
      /\ task_list[current_task].state # TASK_DONE
  BY <1>2, <1>3 DEF IInv, CurrentIsRunning, DoneHalts, Locals, Rip, Reg, OnCpu
<1>6. /\ \A s : s # current_task => Rip(s)' = Rip(s) /\ Reg(s)' = Reg(s)
      /\ \A s : s = current_task => Rip(s)' = "remove" /\ Reg(s)' = cpu.reg /\ Rip(s) = "free"
  BY <1>2, <1>3, <1>4 DEF Rip, Reg, OnCpu
<1>7. /\ freed' = freed \cup ({task_list[cpu.reg].stack_start} \ {NullStack})
      /\ Listed \subseteq Slots /\ freed' \subseteq Stacks
  <2>1. Listed \subseteq Slots
    BY Constants DEF IInv, TypeOK, Listed, Slots
  <2>2. task_list[cpu.reg] \in task_t /\ freed \subseteq Stacks
    BY <1>5, <2>1 DEF IInv, TypeOK
  <2>3. task_list[cpu.reg].stack_start \in Stacks
    BY <2>2 DEF task_t
  <2> QED BY <2>1, <2>2, <2>3 DEF reap_free
<1>8. TypeOK' /\ cpu'.cs = KERNEL_CS /\ InterruptsEnded' /\ (scheduler_started => scheduling_enabled)'
  BY <1>2, <1>3, <1>4, <1>7 DEF IInv, TypeOK, InterruptsEnded, timer_vars
<1>9. Booting' /\ CurrentIsRunning' /\ DoneHalts'
  BY <1>2, <1>3, <1>4, <1>5 DEF Booting, IInv, CurrentIsRunning, DoneHalts
<1>10. Tasked'
  BY <1>4, <1>6 DEF IInv, Tasked, TaskLabels, ReaperLabels
<1>11. PrivateStacks'
  BY <1>4 DEF IInv, PrivateStacks
<1>12. Locals'
  <2> SUFFICES ASSUME NEW s \in Listed'
               PROVE  /\ Rip(s)' = "mark" => Reg(s)' \in Slots
                      /\ Rip(s)' = "for" => Reg(s)' \in 0 .. task_count'
                      /\ Rip(s)' \in {"if", "free", "remove"} => Reg(s)' \in Listed'
                      /\ Rip(s)' \in {"free", "remove"} => task_list'[Reg(s)'].state = TASK_DONE
    BY DEF Locals
  <2>1. CASE s = current_task
    BY <1>4, <1>5, <1>6, <2>1
  <2>2. CASE s # current_task
    BY <1>4, <1>6, <2>2 DEF IInv, Locals
  <2> QED BY <2>1, <2>2
<1>13. FreedIsLeaving'
  <2> SUFFICES ASSUME NEW s \in Listed, task_list[s].stack_start \in freed'
               PROVE  /\ task_list[s].state = TASK_DONE /\ s # current_task
                      /\ \E r \in Listed : Rip(r)' = "remove" /\ Reg(r)' = s
    BY <1>4 DEF FreedIsLeaving
  <2>1. CASE task_list[s].stack_start \in freed
    <3>1. PICK r \in Listed : Rip(r) = "remove" /\ Reg(r) = s
      BY <2>1 DEF IInv, FreedIsLeaving
    <3>2. r # current_task
      BY <1>6, <3>1
    <3>3. task_list[s].state = TASK_DONE /\ s # current_task
      BY <2>1 DEF IInv, FreedIsLeaving
    <3> QED BY <1>6, <3>1, <3>2, <3>3
  <2>2. CASE task_list[s].stack_start = task_list[cpu.reg].stack_start
    <3>1. s = cpu.reg
      BY <1>5, <2>2 DEF IInv, PrivateStacks
    <3> QED BY <1>5, <1>6, <3>1
  <2> QED BY <1>7, <2>1, <2>2
<1>14. OneReaper'
  BY <1>4, <1>6 DEF IInv, OneReaper, ReaperLabels
<1> QED BY <1>8, <1>9, <1>10, <1>11, <1>12, <1>13, <1>14 DEF IInv

\* reap takes the slot off the list.  Slot s now holds what slot Old(s) held, the
\* running context included.
LEMMA RemoveStep ==
  ASSUME IInv, reap_remove
  PROVE  IInv'
<1> DEFINE Old(s) == IF s < cpu.reg THEN s ELSE s + 1
<1>1. /\ TypeOK /\ TaskLabels \subseteq Labels /\ cpu.reg \in Int /\ MAX_TASKS \in Nat
      /\ task_count \in 0 .. MAX_TASKS /\ current_task \in Slots /\ Slots = 0 .. MAX_TASKS - 1
      /\ Listed = 0 .. task_count - 1
  BY Constants DEF IInv, TypeOK, Registers, TaskLabels, ReaperLabels, Labels, Slots, Listed
<1>2. /\ cpu' \in Registers /\ cpu'.rip = "for" /\ cpu'.rsp = cpu.rsp /\ cpu'.cs = cpu.cs
      /\ cpu.rip = "remove" /\ cpu'.reg = cpu.reg
  BY <1>1, GotoFacts DEF reap_remove, At, TaskLabels, ReaperLabels
<1>3. scheduler_started
  BY <1>2, Where DEF BootLabels
<1>4. /\ scheduler_started' /\ freed' = freed /\ UNCHANGED <<programs, timer_vars, in_service>>
      /\ task_count' = task_count - 1
  BY <1>3 DEF reap_remove
<1>5. /\ current_task \in Listed /\ cpu.reg \in Listed /\ task_list[cpu.reg].state = TASK_DONE
      /\ task_list[current_task].state # TASK_DONE
  BY <1>2, <1>3 DEF IInv, CurrentIsRunning, DoneHalts, Locals, Rip, Reg, OnCpu
<1>6. /\ current_task # cpu.reg
      /\ current_task' = IF current_task > cpu.reg THEN current_task - 1 ELSE current_task
      /\ task_count' \in 0 .. MAX_TASKS /\ Listed' = 0 .. task_count - 2
  BY <1>1, <1>4, <1>5 DEF reap_remove, current_after_reap, Listed
<1>7. /\ current_task' \in Listed' /\ current_task' \in Slots
      /\ Listed' \subseteq Slots
      /\ \A s \in Listed' : /\ Old(s) \in Listed /\ Old(s) \in Slots /\ Old(s) # cpu.reg
                            /\ Old(s) = current_task <=> s = current_task'
      /\ \A s, t \in Listed' : Old(s) = Old(t) => s = t
  BY <1>1, <1>5, <1>6
<1>8. task_list \in [Slots -> task_t] /\ task_list' = shift_task_list_down(cpu.reg)
  BY DEF IInv, TypeOK, reap_remove
<1>9. /\ task_list' \in [Slots -> task_t]
      /\ \A s \in Listed' : /\ task_list'[s].frame = task_list[Old(s)].frame
                            /\ task_list'[s].stack_start = task_list[Old(s)].stack_start
                            /\ task_list'[s].state = task_list[Old(s)].state
  <2>1. \A s \in Slots :
          task_list'[s] = IF cpu.reg <= s /\ s < task_count - 1
                          THEN [task_list[s + 1] EXCEPT !.id = s] ELSE task_list[s]
    BY <1>8 DEF shift_task_list_down
  <2>2. \A s \in Slots : cpu.reg <= s /\ s < task_count - 1 => s + 1 \in Slots
    BY <1>1, <1>5
  <2>3. \A s \in Slots, t \in task_t : [t EXCEPT !.id = s] \in task_t
    BY DEF task_t
  <2>4. \A s \in Slots : task_list'[s] \in task_t
    BY <1>8, <2>1, <2>2, <2>3
  <2>5. task_list' = [s \in Slots |-> task_list'[s]]
    BY <1>8 DEF shift_task_list_down
  <2>6. \A t \in task_t, s \in Slots :
          /\ [t EXCEPT !.id = s].frame = t.frame
          /\ [t EXCEPT !.id = s].stack_start = t.stack_start
          /\ [t EXCEPT !.id = s].state = t.state
    BY DEF task_t
  <2>7. ASSUME NEW s \in Listed'
        PROVE  /\ task_list'[s].frame = task_list[Old(s)].frame
               /\ task_list'[s].stack_start = task_list[Old(s)].stack_start
               /\ task_list'[s].state = task_list[Old(s)].state
    <3>1. s \in Slots /\ (s < cpu.reg \/ (cpu.reg <= s /\ s < task_count - 1))
      BY <1>1, <1>5, <1>6, <1>7
    <3>2. CASE s < cpu.reg
      <4>1. ~ (cpu.reg <= s)
        BY <1>1, <3>1, <3>2
      <4>2. task_list'[s] = task_list[s]
        BY <2>1, <3>1, <4>1
      <4> QED BY <3>2, <4>2
    <3>3. CASE cpu.reg <= s /\ s < task_count - 1
      <4>1. Old(s) = s + 1 /\ task_list'[s] = [task_list[s + 1] EXCEPT !.id = s]
            /\ task_list[s + 1] \in task_t
        BY <1>1, <1>5, <1>8, <2>1, <2>2, <3>1, <3>3
      <4>2. LET t == task_list[s + 1]
            IN  /\ [t EXCEPT !.id = s].frame = t.frame
                /\ [t EXCEPT !.id = s].stack_start = t.stack_start
                /\ [t EXCEPT !.id = s].state = t.state
        BY <2>6, <3>1, <4>1
      <4> QED BY <4>1, <4>2
    <3> QED BY <3>1, <3>2, <3>3
  <2> QED BY <2>4, <2>5, <2>7
<1>10. \A s \in Listed' : task_list'[s].id = s
  <2>1. ASSUME NEW s \in Listed' PROVE task_list'[s].id = s
    <3>1. s \in Slots /\ s \in Listed /\ task_list[s].id = s
      BY <1>1, <1>6, <1>7 DEF IInv, Tasked
    <3>2. task_list'[s] = IF cpu.reg <= s /\ s < task_count - 1
                          THEN [task_list[s + 1] EXCEPT !.id = s] ELSE task_list[s]
      BY <1>8, <3>1 DEF shift_task_list_down
    <3>3. cpu.reg <= s /\ s < task_count - 1 => task_list[s + 1] \in task_t
      BY <1>1, <1>5, <1>8, <3>1
    <3> QED BY <3>1, <3>2, <3>3 DEF task_t
  <2> QED BY <2>1
<1> HIDE DEF Old
<1>11. /\ \A s \in Listed' : s # current_task' => Rip(s)' = Rip(Old(s)) /\ Reg(s)' = Reg(Old(s))
       /\ \A s : s = current_task' => Rip(s)' = "for" /\ Reg(s)' = cpu.reg
       /\ Rip(current_task) = "remove" /\ Reg(current_task) = cpu.reg
  BY <1>2, <1>3, <1>4, <1>7, <1>9 DEF Rip, Reg, OnCpu
<1>12. \A s \in Listed' : s # current_task' => Rip(Old(s)) \notin ReaperLabels
  BY <1>5, <1>7, <1>11 DEF IInv, OneReaper, ReaperLabels
<1>13. TypeOK' /\ cpu'.cs = KERNEL_CS /\ InterruptsEnded' /\ (scheduler_started => scheduling_enabled)'
  BY <1>2, <1>3, <1>4, <1>6, <1>7, <1>9 DEF IInv, TypeOK, InterruptsEnded, timer_vars
<1>14. Booting' /\ CurrentIsRunning' /\ DoneHalts'
  <2>1. Old(current_task') = current_task
    BY <1>7
  <2> QED BY <1>2, <1>3, <1>4, <1>5, <1>7, <1>9, <2>1 DEF Booting, IInv, CurrentIsRunning, DoneHalts
<1>15. Tasked'
  BY <1>7, <1>9, <1>10, <1>11 DEF IInv, Tasked, TaskLabels, ReaperLabels
<1>16. PrivateStacks'
  BY <1>7, <1>9 DEF IInv, PrivateStacks
<1>17. Locals'
  <2> SUFFICES ASSUME NEW s \in Listed'
               PROVE  /\ Rip(s)' = "mark" => Reg(s)' \in Slots
                      /\ Rip(s)' = "for" => Reg(s)' \in 0 .. task_count'
                      /\ Rip(s)' \in {"if", "free", "remove"} => Reg(s)' \in Listed'
                      /\ Rip(s)' \in {"free", "remove"} => task_list'[Reg(s)'].state = TASK_DONE
    BY DEF Locals
  <2>1. CASE s = current_task'
    BY <1>1, <1>4, <1>5, <1>11, <2>1
  <2>2. CASE s # current_task'
    BY <1>7, <1>11, <1>12, <2>2 DEF IInv, Locals, ReaperLabels
  <2> QED BY <2>1, <2>2
<1>18. FreedIsLeaving'
  <2> SUFFICES ASSUME NEW s \in Listed', task_list'[s].stack_start \in freed
               PROVE  FALSE
    BY <1>4 DEF FreedIsLeaving
  <2>1. Old(s) \in Listed /\ task_list[Old(s)].stack_start \in freed /\ Old(s) # cpu.reg
    BY <1>7, <1>9
  <2>2. PICK r \in Listed : Rip(r) = "remove" /\ Reg(r) = Old(s)
    BY <2>1 DEF IInv, FreedIsLeaving
  <2>3. r = current_task
    BY <1>5, <1>11, <2>2 DEF IInv, OneReaper, ReaperLabels
  <2> QED BY <1>11, <2>1, <2>2, <2>3
<1>19. OneReaper'
  <2>1. \A s \in Listed' : Rip(s)' \in ReaperLabels => s = current_task'
    BY <1>11, <1>12
  <2> QED BY <2>1 DEF OneReaper
<1> QED BY <1>13, <1>14, <1>15, <1>16, <1>17, <1>18, <1>19 DEF IInv

-----------------------------------------------------------------------------
(* The timer interrupt *)

\* get_next_task stays in the list and picks a task that is done only when it
\* stays where it is.
LEMMA NextTask ==
  ASSUME IInv, scheduler_started
  PROVE  /\ get_next_task \in Listed
         /\ get_next_task = current_task \/ task_list[get_next_task].state # TASK_DONE
<1> DEFINE slot(k) == (current_task + k) % task_count
           ready   == {k \in 1 .. task_count : task_list[slot(k)].state # TASK_DONE}
<1>1. /\ current_task \in Listed /\ current_task \in Nat /\ task_count \in Nat /\ task_count > 0
      /\ Listed = 0 .. task_count - 1
  BY Constants DEF IInv, CurrentIsRunning, Listed, TypeOK
<1>2. CASE ready = {}
  BY <1>1, <1>2 DEF get_next_task
<1>3. CASE ready # {}
  <2>1. ready \subseteq Nat
    BY <1>1
  <2>2. \E k \in ready : \A l \in ready : k <= l
    <3> HIDE DEF ready
    <3>1. PICK k \in ready : \A l \in ready : ~(<<l, k>> \in OpToRel(<, Nat))
      BY <1>3, <2>1, NatLessThanWellFounded, WFMin
    <3>2. \A l \in ready : l < k => <<l, k>> \in OpToRel(<, Nat)
      BY <2>1, <3>1 DEF OpToRel
    <3>3. \A l \in ready : ~ (l < k)
      BY <3>1, <3>2, Zenon
    <3>4. k \in Nat /\ \A l \in ready : l \in Nat
      BY <2>1, <3>1
    <3>5. \A l \in ready : k <= l
      BY <3>3, <3>4
    <3> QED BY <3>1, <3>5
  <2> DEFINE first == CHOOSE k \in ready : \A l \in ready : k <= l
  <2>3. first \in ready
    <3> HIDE DEF ready
    <3> QED BY <2>2
  <2>4. get_next_task = slot(first)
    BY <1>3 DEF get_next_task
  <2> HIDE DEF first
  <2>5. first \in Nat /\ task_list[slot(first)].state # TASK_DONE
    BY <2>1, <2>3
  <2>6. slot(first) \in 0 .. task_count - 1
    BY <1>1, <2>5
  <2> QED BY <1>1, <2>4, <2>5, <2>6
<1> QED BY <1>2, <1>3

\* A byte below zero wraps.
LEMMA Wraps ==
  ASSUME NEW n \in Int, n < 0, n + 256 >= 8
  PROVE  n % 256 = n + 256
<1>1. n % 256 \in 0 .. 255
  OBVIOUS
<1>2. n \div 256 \in Int /\ n = 256 * (n \div 256) + (n % 256)
  OBVIOUS
<1> QED BY <1>1, <1>2

\* The line irq_handler takes from the frame of a task that never ran, int_no 0,
\* is one of the slave's.
LEMMA LineOfNewTask ==
  ASSUME NEW n \in Int, n = 0 - 32
  PROVE  n % 256 >= 8
<1>1. n < 0 /\ n + 256 >= 8
  OBVIOUS
<1> QED BY <1>1, Wraps

LEMMA TickStep ==
  ASSUME IInv, tick
  PROVE  IInv'
<1> DEFINE frame == Frame(cpu, 32)
           next  == FrameAfter(frame)
<1>1. /\ cpu \in Registers /\ cpu.cs = KERNEL_CS /\ in_service = {} /\ TypeOK
      /\ task_list \in [Slots -> task_t] /\ Listed \subseteq Slots /\ task_count \in Nat
      /\ Listed = 0 .. task_count - 1
  BY Constants DEF IInv, TypeOK, InterruptsEnded, Listed, Slots
<1>2. /\ frame \in interrupt_frame_t /\ frame.rip = cpu.rip /\ frame.rsp = cpu.rsp
      /\ frame.reg = cpu.reg /\ frame.cs = cpu.cs /\ frame.int_no = 32 /\ Load(frame) = cpu
  BY <1>1 DEF Frame, Load, Registers, interrupt_frame_t
<1>3. /\ IF pit_registered THEN pit_handler(frame)
         ELSE UNCHANGED <<task_vars, ticks, kernel_frame_template>>
      /\ in_service' = {"master"} \ pic_send_eoi((next.int_no - 32) % 256)
      /\ cpu' = Load(next)
      /\ UNCHANGED <<programs, scheduling_enabled, pit_registered, freed>>
  BY <1>1 DEF tick
<1>4. next.int_no \in {0, 32} => in_service' = {}
  <2>1. (0 - 32) % 256 >= 8
    BY LineOfNewTask, 0 - 32 \in Int
  <2>2. (32 - 32) % 256 = 0
    OBVIOUS
  <2> QED BY <1>3, <2>1, <2>2 DEF pic_send_eoi
<1>5. /\ ticks' \in 0 .. TICK_WRAP - 1
      /\ kernel_frame_template' \in {kernel_frame_template, KERNEL_CS}
      /\ pit_registered => kernel_frame_template' = KERNEL_CS
      /\ ~ pit_registered => UNCHANGED <<ticks, kernel_frame_template>>
  BY <1>1, <1>2, <1>3, Constants DEF pit_handler, TypeOK
<1> HIDE DEF frame
<1>6. CASE ~ (pit_registered /\ scheduling_enabled /\ task_count > 0)
  <2>1. next = frame
    BY <1>6 DEF FrameAfter
  <2>2. UNCHANGED <<cpu, task_vars, freed, in_service, programs>>
    BY <1>1, <1>2, <1>3, <1>4, <1>6, <2>1 DEF pit_handler, schedule
  <2>3. TypeOK'
    BY <1>3, <1>5, <2>2 DEF IInv, TypeOK, task_vars
  <2>4. CASE scheduler_started
    <3>1. ~ pit_registered
      BY <1>1, <1>6, <2>4 DEF IInv, CurrentIsRunning
    <3>2. UNCHANGED timer_vars
      BY <1>3, <1>5, <3>1 DEF timer_vars
    <3>3. Listed' = Listed /\ task_list' = task_list /\ task_count' = task_count
          /\ current_task' = current_task /\ scheduler_started' /\ scheduling_enabled'
      BY <1>3, <2>2, <2>4 DEF Listed, task_vars, IInv
    <3>4. \A s : Rip(s)' = Rip(s) /\ Reg(s)' = Reg(s)
      BY <2>2, <2>4, <3>3 DEF Rip, Reg, OnCpu
    <3>5. Booting' /\ CurrentIsRunning' /\ DoneHalts' /\ Tasked' /\ PrivateStacks' /\ InterruptsEnded'
      BY <2>2, <2>4, <3>3, <3>4
         DEF IInv, Booting, CurrentIsRunning, DoneHalts, Tasked, PrivateStacks, InterruptsEnded
    <3>6. Locals' /\ FreedIsLeaving' /\ OneReaper'
      BY <2>2, <3>3, <3>4 DEF IInv, Locals, FreedIsLeaving, OneReaper
    <3> QED BY <1>1, <2>2, <2>3, <3>3, <3>5, <3>6 DEF IInv
  <2>5. CASE ~ scheduler_started
    <3>1. cpu.rip \in BootLabels /\ cpu' \in Registers
      BY <1>1, <2>2, <2>5, Where
    <3>2. Listed' = Listed /\ task_list' = task_list /\ task_count' = task_count
      BY <2>2 DEF Listed, task_vars
    <3>3. Booting'
      <4>1. kernel_frame_template' = NO_CS =>
              ticks' = ticks /\ kernel_frame_template' = kernel_frame_template
        BY <1>5 DEF KERNEL_CS, NO_CS
      <4> QED BY <1>3, <1>5, <2>2, <2>5, <3>1, <3>2, <4>1 DEF IInv, Booting, task_vars
    <3> QED BY <2>2, <2>3, <3>1, <3>3, BootStep DEF IInv
  <2> QED BY <2>4, <2>5
<1>7. CASE pit_registered /\ scheduling_enabled /\ task_count > 0
  <2>1. /\ next = Saved(frame)[Chosen].frame /\ task_list' = Saved(frame) /\ current_task' = Chosen
        /\ scheduler_started' /\ task_count' = task_count /\ Listed' = Listed
    <3>1. next = Saved(frame)[Chosen].frame
      BY <1>7 DEF FrameAfter
    <3>2. schedule(frame) /\ task_count # 0
      BY <1>1, <1>3, <1>7 DEF pit_handler
    <3>3. /\ task_list' = Saved(frame) /\ current_task' = Chosen
          /\ scheduler_started' /\ task_count' = task_count
      BY <3>2 DEF schedule
    <3>4. Listed' = Listed
      BY <3>3 DEF Listed
    <3> QED BY <3>1, <3>3, <3>4
  <2>2. /\ \A s \in Slots : /\ task_list'[s].stack_start = task_list[s].stack_start
                            /\ task_list'[s].state = task_list[s].state
                            /\ task_list'[s].id = task_list[s].id
                            /\ task_list'[s].frame = IF OnCpu(s) THEN frame ELSE task_list[s].frame
        /\ task_list' \in [Slots -> task_t]
    <3>1. CASE scheduler_started
      <4>1. task_list' = [task_list EXCEPT ![current_task].frame = frame] /\ current_task \in Slots
        BY <2>1, <3>1 DEF Saved, IInv, TypeOK
      <4>2. \A s \in Slots : task_list'[s] = IF s = current_task THEN [task_list[s] EXCEPT !.frame = frame]
                                             ELSE task_list[s]
        BY <1>1, <4>1
      <4>3. \A t \in task_t : /\ [t EXCEPT !.frame = frame] \in task_t
                              /\ [t EXCEPT !.frame = frame].frame = frame
                              /\ [t EXCEPT !.frame = frame].stack_start = t.stack_start
                              /\ [t EXCEPT !.frame = frame].state = t.state
                              /\ [t EXCEPT !.frame = frame].id = t.id
        BY <1>2 DEF task_t
      <4>4. task_list' = [s \in Slots |-> task_list'[s]]
        BY <1>1, <4>1
      <4>5. \A s \in Slots : task_list'[s] \in task_t
        BY <1>1, <4>2, <4>3
      <4>6. task_list' \in [Slots -> task_t]
        BY <4>4, <4>5
      <4>7. ASSUME NEW s \in Slots
            PROVE  /\ task_list'[s].stack_start = task_list[s].stack_start
                   /\ task_list'[s].state = task_list[s].state
                   /\ task_list'[s].id = task_list[s].id
                   /\ task_list'[s].frame = IF OnCpu(s) THEN frame ELSE task_list[s].frame
        <5>1. task_list[s] \in task_t
          BY <1>1
        <5>2. CASE s = current_task
          <6>1. task_list'[s] = [task_list[s] EXCEPT !.frame = frame] /\ OnCpu(s)
            BY <3>1, <4>2, <5>2 DEF OnCpu
          <6> QED BY <4>3, <5>1, <6>1
        <5>3. CASE s # current_task
          BY <4>2, <5>3 DEF OnCpu
        <5> QED BY <5>2, <5>3
      <4> QED BY <4>6, <4>7
    <3>2. CASE ~ scheduler_started
      BY <1>1, <2>1, <3>2 DEF Saved, OnCpu
    <3> QED BY <3>1, <3>2
  <2>3. /\ Chosen \in Listed
        /\ task_list[Chosen].state = TASK_DONE => OnCpu(Chosen)
        /\ ~ scheduler_started => freed = {}
    <3>1. CASE scheduler_started
      BY <3>1, NextTask DEF Chosen, OnCpu
    <3>2. CASE ~ scheduler_started
      <4>1. 0 \in Listed /\ TASK_READY # TASK_DONE
        BY <1>1, <1>7 DEF TASK_READY, TASK_DONE
      <4> QED BY <3>2, <4>1 DEF Chosen, IInv, Booting
    <3> QED BY <3>1, <3>2
  <2>4. /\ next = task_list'[current_task'].frame /\ next \in interrupt_frame_t
        /\ current_task' \in Slots /\ current_task' \in Listed
    <3>1. Chosen \in Slots
      BY <1>1, <2>3
    <3> QED BY <2>1, <2>2, <2>3, <3>1 DEF task_t
  <2> HIDE DEF next
  <2>5. /\ cpu' \in Registers /\ cpu'.rip = next.rip /\ cpu'.reg = next.reg
        /\ cpu'.rsp = next.rsp /\ cpu'.cs = next.cs
    BY <1>3, <2>4 DEF Load, Registers, interrupt_frame_t
  <2>6. \A s \in Listed : /\ task_list'[s].frame.rip = Rip(s) /\ task_list'[s].frame.reg = Reg(s)
                          /\ task_list'[s].frame.rsp = task_list[s].stack_start
                          /\ task_list'[s].frame.cs = KERNEL_CS
                          /\ task_list'[s].frame.int_no \in {0, 32}
    BY <1>1, <1>2, <2>2 DEF IInv, Rip, Reg, OnCpu, Tasked, CurrentIsRunning
  <2>7. \A s \in Listed : Rip(s)' = Rip(s) /\ Reg(s)' = Reg(s)
    <3> SUFFICES ASSUME NEW s \in Listed
                 PROVE  Rip(s)' = Rip(s) /\ Reg(s)' = Reg(s)
      OBVIOUS
    <3>1. task_list'[s].frame.rip = Rip(s) /\ task_list'[s].frame.reg = Reg(s)
      BY <2>6
    <3>2. CASE s = current_task'
      <4>1. Rip(s)' = cpu'.rip /\ Reg(s)' = cpu'.reg
        BY <2>1, <3>2 DEF Rip, Reg, OnCpu
      <4>2. next = task_list'[s].frame
        BY <2>4, <3>2
      <4> QED BY <2>5, <3>1, <4>1, <4>2
    <3>3. CASE s # current_task'
      <4>1. Rip(s)' = task_list'[s].frame.rip /\ Reg(s)' = task_list'[s].frame.reg
        BY <3>3 DEF Rip, Reg, OnCpu
      <4> QED BY <3>1, <4>1
    <3> QED BY <3>2, <3>3
  <2>8. in_service' = {} /\ cpu'.cs = KERNEL_CS
    BY <1>4, <2>4, <2>5, <2>6
  <2>9. TypeOK'
    BY <1>3, <1>5, <2>1, <2>2, <2>4, <2>5, <2>8 DEF IInv, TypeOK
  <2>10. Booting' /\ CurrentIsRunning'
    BY <2>1, <2>2, <2>4, <2>5, <2>6 DEF Booting, CurrentIsRunning
  <2>11. DoneHalts'
    <3> SUFFICES ASSUME task_list'[current_task'].state = TASK_DONE PROVE cpu'.rip = "halt"
      BY DEF DoneHalts
    <3>1. OnCpu(Chosen) /\ task_list[Chosen].state = TASK_DONE
      BY <2>1, <2>2, <2>3, <2>4
    <3>2. cpu.rip = "halt" /\ Chosen = current_task
      BY <3>1 DEF IInv, DoneHalts, OnCpu
    <3>3. cpu'.rip = Rip(Chosen)
      BY <2>1, <2>3, <2>4, <2>5, <2>6
    <3> QED BY <3>1, <3>2, <3>3 DEF Rip
  <2>12. Tasked' /\ PrivateStacks'
    <3>1. ASSUME NEW s \in Listed
          PROVE  /\ task_list'[s].stack_start = task_list[s].stack_start
                 /\ task_list'[s].stack_start \in 1 .. MAX_TASKS
                 /\ task_list'[s].id = s /\ Rip(s)' \in TaskLabels
                 /\ task_list'[s].frame.rsp = task_list'[s].stack_start
      <4>1. /\ task_list'[s].stack_start = task_list[s].stack_start
            /\ task_list'[s].id = task_list[s].id
        BY <1>1, <2>2
      <4>2. /\ task_list[s].stack_start \in 1 .. MAX_TASKS
            /\ task_list[s].id = s /\ Rip(s) \in TaskLabels
        BY DEF IInv, Tasked
      <4>3. Rip(s)' = Rip(s) /\ task_list'[s].frame.rsp = task_list[s].stack_start
        BY <2>6, <2>7
      <4> QED BY <4>1, <4>2, <4>3
    <3>2. Tasked'
      BY <2>1, <2>6, <3>1 DEF Tasked
    <3>3. PrivateStacks'
      BY <2>1, <3>1 DEF IInv, PrivateStacks
    <3> QED BY <3>2, <3>3
  <2>13. Locals'
    <3> SUFFICES ASSUME NEW s \in Listed'
                 PROVE  /\ Rip(s)' = "mark" => Reg(s)' \in Slots
                        /\ Rip(s)' = "for" => Reg(s)' \in 0 .. task_count'
                        /\ Rip(s)' \in {"if", "free", "remove"} => Reg(s)' \in Listed'
                        /\ Rip(s)' \in {"free", "remove"} => task_list'[Reg(s)'].state = TASK_DONE
      BY DEF Locals
    <3>1. /\ Rip(s) = "mark" => Reg(s) \in Slots
          /\ Rip(s) = "for" => Reg(s) \in 0 .. task_count
          /\ Rip(s) \in {"if", "free", "remove"} => Reg(s) \in Listed
          /\ Rip(s) \in {"free", "remove"} => task_list[Reg(s)].state = TASK_DONE
      BY <2>1 DEF IInv, Locals
    <3>2. Reg(s) \in Listed => task_list'[Reg(s)].state = task_list[Reg(s)].state
      BY <1>1, <2>2
    <3> QED BY <2>1, <2>7, <3>1, <3>2
  <2>14. FreedIsLeaving'
    <3> SUFFICES ASSUME NEW s \in Listed, task_list[s].stack_start \in freed
                 PROVE  /\ task_list'[s].state = TASK_DONE /\ s # current_task'
                        /\ \E r \in Listed : Rip(r)' = "remove" /\ Reg(r)' = s
      BY <1>1, <1>3, <2>1, <2>2 DEF FreedIsLeaving
    <3>1. PICK r \in Listed : Rip(r) = "remove" /\ Reg(r) = s
      BY DEF IInv, FreedIsLeaving
    <3>2. task_list[s].state = TASK_DONE /\ s # current_task
      BY DEF IInv, FreedIsLeaving
    <3>3. s # current_task'
      BY <2>1, <2>3, <3>2 DEF OnCpu
    <3> QED BY <1>1, <2>2, <2>7, <3>1, <3>2, <3>3
  <2>15. OneReaper'
    BY <2>1, <2>7 DEF IInv, OneReaper
  <2>16. InterruptsEnded' /\ (scheduler_started => scheduling_enabled)'
    BY <1>3, <1>7, <2>8 DEF InterruptsEnded
  <2> QED BY <2>8, <2>9, <2>10, <2>11, <2>12, <2>13, <2>14, <2>15, <2>16 DEF IInv
<1> QED BY <1>6, <1>7

-----------------------------------------------------------------------------
(* The theorems *)

LEMMA Initially == Init => IInv
<1> SUFFICES ASSUME Init PROVE IInv
  OBVIOUS
<1>1. Listed = {} /\ ~ scheduler_started /\ task_count = 0
  BY DEF Init, Listed
<1>2. TypeOK
  <2>1. 0 \in Slots /\ 0 \in 0 .. 255 /\ BootStack \in Stacks /\ {"none", "timer_init"} \subseteq Labels
    BY Constants DEF Slots, Labels, Stacks, BootStack
  <2>2. NoTask \in task_t
    BY <2>1 DEF NoTask, task_t, interrupt_frame_t
  <2>3. cpu \in Registers
    BY <2>1 DEF Init, Registers
  <2>4. task_list \in [Slots -> task_t] /\ ticks \in 0 .. TICK_WRAP - 1 /\ task_count \in 0 .. MAX_TASKS
    BY <2>2, Constants DEF Init
  <2> QED BY <2>1, <2>3, <2>4 DEF Init, TypeOK
<1>3. Booting
  <2>1. Len(programs) \in Nat
    BY Constants DEF Init
  <2> QED BY <1>1, <2>1 DEF Init, Booting, BootLabels
<1> QED BY <1>1, <1>2, <1>3
        DEF Init, IInv, InterruptsEnded, CurrentIsRunning, DoneHalts, Tasked, PrivateStacks, Locals,
            FreedIsLeaving, OneReaper

\* IInv is an invariant of the scheduler, task_exit and the reaper.
THEOREM Invariant ==
  ASSUME Provided
  PROVE  Spec => []IInv
<1>1. ASSUME IInv, [Next]_vars
      PROVE  IInv'
  <2>1. CASE UNCHANGED vars
    <3>1. /\ programs' = programs /\ cpu' = cpu /\ task_list' = task_list
          /\ current_task' = current_task /\ task_count' = task_count
          /\ scheduler_started' = scheduler_started /\ scheduling_enabled' = scheduling_enabled
          /\ pit_registered' = pit_registered /\ ticks' = ticks
          /\ kernel_frame_template' = kernel_frame_template
          /\ freed' = freed /\ in_service' = in_service
      BY <2>1 DEF vars, task_vars, timer_vars
    <3>2. Listed' = Listed
      BY <3>1 DEF Listed
    <3>3. \A s : Rip(s)' = Rip(s) /\ Reg(s)' = Reg(s)
      BY <3>1 DEF Rip, Reg, OnCpu
    <3>4. TypeOK' /\ (cpu.cs = KERNEL_CS)' /\ InterruptsEnded'
      BY <1>1, <3>1 DEF IInv, TypeOK, InterruptsEnded
    <3>5. (scheduler_started => scheduling_enabled)' /\ CurrentIsRunning' /\ DoneHalts'
      BY <1>1, <3>1, <3>2 DEF IInv, CurrentIsRunning, DoneHalts
    <3>6. Booting'
      BY <1>1, <3>1, <3>2 DEF IInv, Booting
    <3>7. Tasked'
      BY <1>1, <3>1, <3>2, <3>3 DEF IInv, Tasked
    <3>8. PrivateStacks'
      BY <1>1, <3>1, <3>2 DEF IInv, PrivateStacks
    <3>9. Locals'
      BY <1>1, <3>1, <3>2, <3>3 DEF IInv, Locals
    <3>10. FreedIsLeaving'
      BY <1>1, <3>1, <3>2, <3>3 DEF IInv, FreedIsLeaving
    <3>11. OneReaper'
      BY <1>1, <3>2, <3>3 DEF IInv, OneReaper
    <3> QED BY <3>4, <3>5, <3>6, <3>7, <3>8, <3>9, <3>10, <3>11 DEF IInv
  <2> QED BY <1>1, <2>1, TickStep, TimerSteps, CreateStep, LocalSteps, MarkStep, FreeStep, RemoveStep
          DEF Next, Step
<1> QED BY <1>1, Initially, PTL DEF Spec

\* Through every switch, exit and shift of the list, slot current_task is the
\* task on the CPU, and every listed task keeps a stack and a context of its own.
THEOREM TasksKeepTheirContexts ==
  ASSUME Provided
  PROVE  Spec => [](CurrentIsRunning /\ ContextsDistinct)
<1>1. IInv => CurrentIsRunning /\ ContextsDistinct
  BY DEF IInv, Tasked, ContextsDistinct
<1> QED BY <1>1, Invariant, PTL

\* reap never gives back a stack that runs or that the scheduler can switch to,
\* and none twice, although it frees it with interrupts on.
THEOREM StacksOutliveTheirTasks ==
  ASSUME Provided
  PROVE  Spec => []NoFreedStackRuns
<1>1. ASSUME IInv PROVE NoFreedStackRuns
  <2>1. cpu.rsp \notin freed
    <3>1. CASE scheduler_started
      BY <1>1, <3>1 DEF IInv, CurrentIsRunning, FreedIsLeaving
    <3>2. CASE ~ scheduler_started
      BY <1>1, <3>2 DEF IInv, Booting
    <3> QED BY <3>1, <3>2
  <2>2. \A s \in Listed : task_list[s].state # TASK_DONE => task_list[s].stack_start \notin freed
    BY <1>1 DEF IInv, FreedIsLeaving
  <2>3. At("free") => task_list[cpu.reg].stack_start \notin freed
    <3> SUFFICES ASSUME At("free"), task_list[cpu.reg].stack_start \in freed PROVE FALSE
      OBVIOUS
    <3>1. scheduler_started /\ current_task \in Listed
      BY <1>1, Where DEF At, BootLabels, IInv, CurrentIsRunning
    <3>2. Rip(current_task) = "free" /\ Reg(current_task) = cpu.reg
      BY <3>1 DEF Rip, Reg, OnCpu, At
    <3>3. cpu.reg \in Listed
      BY <1>1, <3>1, <3>2 DEF IInv, Locals
    <3>4. PICK r \in Listed : Rip(r) = "remove"
      BY <1>1, <3>3 DEF IInv, FreedIsLeaving
    <3> QED BY <1>1, <3>1, <3>2, <3>4 DEF IInv, OneReaper, ReaperLabels
  <2> QED BY <2>1, <2>2, <2>3 DEF NoFreedStackRuns
<1> QED BY <1>1, Invariant, PTL

\* Every context an iretq can resume has the kernel's selectors, and no timer
\* interrupt stays in service.
THEOREM TicksAreHarmless ==
  ASSUME Provided
  PROVE  Spec => [](FramesAreLoadable /\ InterruptsEnded)
<1>1. IInv => FramesAreLoadable /\ InterruptsEnded
  BY DEF IInv, Tasked, FramesAreLoadable
<1> QED BY <1>1, Invariant, PTL
=============================================================================
