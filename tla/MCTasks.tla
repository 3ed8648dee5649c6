------------------------------ MODULE MCTasks -------------------------------
(* The task lists of kernel.c, and shorter ones, for TLC. *)
EXTENDS Tasks

a == "task_a"
r == "task_reaper"

\* The kernel's list (task_a, task_b, task_reaper), the reaper before and between
\* the tasks that exit, no reaper, no task, and a list too long for three slots.
MCAnyLists == {<<>>, <<a, a>>, <<a, r>>, <<r, a>>, <<a, a, r>>, <<r, a, a, a>>}
MCKernelList == {<<a, a, r>>}
=============================================================================
