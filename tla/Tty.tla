--------------------------------- MODULE Tty ---------------------------------
(***************************************************************************)
(* The terminal of kernel/arch/x86_64/tty.c: a cursor and the text buffer  *)
(* of the screen, which scrolls by one row when the cursor leaves it.      *)
(* printf, putchar and terminal_write all come down to terminal_put_char.  *)
(*                                                                         *)
(* Nothing locks the terminal, and a task may be preempted anywhere inside *)
(* it.  Every access to the shared cursor is a step of its own, as in the  *)
(* unoptimised build; clear_last_line moves one cell per step.             *)
(***************************************************************************)
EXTENDS Integers

CONSTANTS
  VGA_WIDTH, VGA_HEIGHT,
  Chars,          \* the characters that take up a cell
  Printers,       \* the contexts that print
  MaxSwitches     \* bound on the preemptions

ASSUME TtyConstants ==
  /\ VGA_WIDTH \in Nat \ {0} /\ VGA_HEIGHT \in Nat \ {0}
  /\ MaxSwitches \in Nat /\ Printers # {}
  /\ {"space", "newline", "return"} \cap Chars = {}

VARIABLES
  terminal_buffer,     \* the cells of the screen, row after row
  cursor_x, cursor_y,
  running,             \* the printer that has the CPU
  switches,            \* how often one was preempted by another
  pc, char,            \* per printer: its next access and the character it puts
  row, col             \* per printer: what it has loaded of the cursor

cursor == <<cursor_x, cursor_y>>
tty_vars == <<terminal_buffer, cursor, running, switches, pc, char, row, col>>

CellCount == VGA_WIDTH * VGA_HEIGHT
Cells == 0 .. CellCount - 1

\* A cell holds a character and the colour, which never changes after
\* terminal_init.
terminal_color == 15
vga_char(c, color) == <<c, color>>
blank == vga_char("space", terminal_color)

\* terminal_init and clear_screen.
TtyInit ==
  /\ cursor_x = 0 /\ cursor_y = 0
  /\ terminal_buffer = [k \in Cells |-> blank]
  /\ running \in Printers /\ switches = 0
  /\ pc = [p \in Printers |-> "idle"] /\ char = [p \in Printers |-> "space"]
  /\ row = [p \in Printers |-> 0] /\ col = [p \in Printers |-> 0]

Step(p, from, to) == running = p /\ pc[p] = from /\ pc' = [pc EXCEPT ![p] = to]

\* terminal_put_char(c) is called; every path starts with one of these accesses.
terminal_put_char(p, c) ==
  /\ Step(p, "idle", IF c = "newline" THEN "zero_x" ELSE IF c = "return" THEN "return" ELSE "index_y")
  /\ char' = [char EXCEPT ![p] = c]
  /\ UNCHANGED <<terminal_buffer, cursor, running, switches, row, col>>

LoadX(p) == col' = [col EXCEPT ![p] = cursor_x] /\ UNCHANGED <<terminal_buffer, cursor, row>>
LoadY(p) == row' = [row EXCEPT ![p] = cursor_y] /\ UNCHANGED <<terminal_buffer, cursor, col>>
StoreX(x) == cursor_x' = x /\ UNCHANGED <<terminal_buffer, cursor_y, row, col>>
StoreY(y) == cursor_y' = y /\ UNCHANGED <<terminal_buffer, cursor_x, row, col>>

\* index = cursor_y * VGA_WIDTH + cursor_x
index_y(p) == Step(p, "index_y", "index_x") /\ LoadY(p)
index_x(p) == Step(p, "index_x", "store") /\ LoadX(p)
Index(p) == row[p] * VGA_WIDTH + col[p]
\* A store past the screen goes to video memory that is not shown or read.
store(p) ==
  /\ Step(p, "store", "load_x")
  /\ terminal_buffer' =
       [k \in Cells |-> IF k = Index(p) THEN vga_char(char[p], terminal_color) ELSE terminal_buffer[k]]
  /\ UNCHANGED <<cursor, row, col>>

\* cursor_x++, and the wrap at the end of the row.
load_x(p) == Step(p, "load_x", "store_x") /\ LoadX(p)
store_x(p) == Step(p, "store_x", "check_x") /\ StoreX(col[p] + 1)
\* Mutant: the cursor may stay past the last column.
check_x_Late(p) ==
  /\ Step(p, "check_x", IF cursor_x > VGA_WIDTH THEN "zero_x" ELSE "check_y")
  /\ UNCHANGED <<terminal_buffer, cursor, row, col>>
check_x(p) ==
  /\ Step(p, "check_x", IF cursor_x >= VGA_WIDTH THEN "zero_x" ELSE "check_y")
  /\ UNCHANGED <<terminal_buffer, cursor, row, col>>

\* cursor_x = 0 and cursor_y++, of a wrap or a newline.
zero_x(p) == Step(p, "zero_x", "load_y") /\ StoreX(0)
load_y(p) == Step(p, "load_y", "store_y") /\ LoadY(p)
store_y(p) == Step(p, "store_y", "check_y") /\ StoreY(row[p] + 1)

put_return(p) == Step(p, "return", "check_y") /\ StoreX(0)

\* The test at the end of terminal_put_char; what was loaded is not used again.
check_y(p) ==
  /\ Step(p, "check_y", IF cursor_y >= VGA_HEIGHT THEN "scroll" ELSE "idle")
  /\ row' = [row EXCEPT ![p] = 0] /\ col' = [col EXCEPT ![p] = 0]
  /\ UNCHANGED <<terminal_buffer, cursor>>

\* Mutant: the last row is copied up but not cleared.
clear_last_line_Keeps(p) ==
  LET k == col[p]
  IN  /\ Step(p, "scroll", IF k = CellCount - 1 THEN "set_y" ELSE "scroll")
      /\ terminal_buffer' = [terminal_buffer EXCEPT ![k] =
           IF k < CellCount - VGA_WIDTH THEN terminal_buffer[k + VGA_WIDTH] ELSE @]
      /\ col' = [col EXCEPT ![p] = (k + 1) % CellCount]
      /\ UNCHANGED <<cursor, row>>
\* clear_last_line: cell by cell, every row moves up by one and the last becomes
\* blank.
clear_last_line(p) ==
  LET k == col[p]
  IN  /\ Step(p, "scroll", IF k = CellCount - 1 THEN "set_y" ELSE "scroll")
      /\ terminal_buffer' = [terminal_buffer EXCEPT ![k] =
           IF k < CellCount - VGA_WIDTH THEN terminal_buffer[k + VGA_WIDTH] ELSE blank]
      /\ col' = [col EXCEPT ![p] = (k + 1) % CellCount]
      /\ UNCHANGED <<cursor, row>>
set_y(p) == Step(p, "set_y", "reset_x") /\ StoreY(VGA_HEIGHT - 1)
reset_x(p) == Step(p, "reset_x", "idle") /\ StoreX(0)

tty_step(p) ==
  /\ \/ index_y(p) \/ index_x(p) \/ store(p) \/ load_x(p) \/ store_x(p) \/ check_x(p)
     \/ zero_x(p) \/ load_y(p) \/ store_y(p) \/ put_return(p) \/ check_y(p)
     \/ clear_last_line(p) \/ set_y(p) \/ reset_x(p)
  /\ UNCHANGED <<running, switches, char>>

\* The timer interrupt gives the CPU to another printer.
preempt ==
  /\ switches < MaxSwitches /\ switches' = switches + 1
  /\ running' \in Printers \ {running}
  /\ UNCHANGED <<terminal_buffer, cursor, pc, char, row, col>>

TtyNext ==
  \/ preempt
  \/ \E p \in Printers :
       tty_step(p) \/ \E c : terminal_put_char(p, c)

TtySpec == TtyInit /\ [][TtyNext]_tty_vars

-----------------------------------------------------------------------------
(* Properties *)

OnScreen == cursor_x \in 0 .. VGA_WIDTH - 1 /\ cursor_y \in 0 .. VGA_HEIGHT - 1

\* However printers interrupt each other, whenever none is inside
\* terminal_put_char the cursor is back on the screen: a stale cursor_x or
\* cursor_y that one of them stores is put right by its own tests.
IdleOnScreen == (\A p \in Printers : pc[p] = "idle") => OnScreen

\* A character is stored at most one row below and one column right of the screen
\* for every preemption so far: without one it is on the screen, and with a few
\* it is in the rest of video memory.  Nothing bounds it for all time, as two
\* printers can hand a stale cursor_y back and forth.
DriftIsBounded ==
  \A p \in Printers :
    pc[p] = "store" => row[p] < VGA_HEIGHT + switches /\ col[p] < VGA_WIDTH + switches
=============================================================================
