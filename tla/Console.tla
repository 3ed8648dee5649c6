------------------------------- MODULE Console -------------------------------
(***************************************************************************)
(* Printing as a whole: contexts that call printf, puts and snprintf, each *)
(* character of which goes through putchar to the terminal they share.     *)
(***************************************************************************)
EXTENDS Tty, Printf

CONSTANTS Crews       \* what the printers may be calling: functions to jobs

VARIABLES
  call,           \* the calls of this behaviour
  job,            \* how far each printer is in its own
  out,            \* what each printer has handed to the terminal
  gone, shown     \* rows that have scrolled off; the text up to the cursor

console_vars == <<call, job, out, gone, shown>>
vars == <<tty_vars, console_vars>>

\* A printer with nothing to print.
Silent == [printf(<<>>, <<>>) EXCEPT !.at = "returned"]
Alone == \E p \in Printers : \A q \in Printers \ {p} : call[q] = Silent

RowOf(buffer, r) == [k \in 1 .. VGA_WIDTH |-> buffer[r * VGA_WIDTH + k - 1]]
Screen == [k \in 1 .. cursor_y + 1 |-> RowOf(terminal_buffer, k - 1)]

Init ==
  /\ TtyInit
  /\ call \in Crews /\ job = call
  /\ call[running] # Silent
  /\ out = [p \in Printers |-> <<>>]
  /\ gone = <<>> /\ shown = [rows |-> Screen, col |-> 0]

\* One round of the loop of printf or snprintf.
format_step(p) ==
  /\ running = p /\ pc[p] = "idle" /\ job[p].at = "loop" /\ job[p].chunk = <<>>
  /\ job' = [job EXCEPT ![p] = IF @.fn = "printf" THEN PrintfStep(@) ELSE SnprintfStep(@)]
  /\ UNCHANGED <<tty_vars, call, out, gone, shown>>

\* print and putchar: the next character of the piece.
putchar(p) ==
  /\ job[p].chunk # <<>>
  /\ terminal_put_char(p, Head(job[p].chunk))
  /\ job' = [job EXCEPT ![p].chunk = Tail(@)]
  /\ out' = [out EXCEPT ![p] = Append(@, Head(job[p].chunk))]
  /\ UNCHANGED <<call, gone, shown>>

\* A step inside terminal_put_char.  For a printer that is alone the rows that
\* scroll off are recorded, and the text whenever terminal_put_char returns.
put_step(p) ==
  /\ tty_step(p)
  /\ gone' = IF Alone /\ pc[p] = "check_y" /\ pc'[p] = "scroll"
             THEN Append(gone, RowOf(terminal_buffer, 0)) ELSE gone
  /\ shown' = IF Alone /\ pc'[p] = "idle"
              THEN [rows |-> gone \o Screen', col |-> cursor_x'] ELSE shown
  /\ UNCHANGED <<call, job, out>>

\* panic_msg turns interrupts off and never returns.
Panicked == \E p \in Printers : job[p].at = "panic"

switch == preempt /\ ~ Panicked /\ call[running'] # Silent /\ UNCHANGED console_vars

Next == switch \/ (~ Panicked /\ \E p \in Printers : format_step(p) \/ putchar(p) \/ put_step(p))

Spec == Init /\ [][Next]_vars

-----------------------------------------------------------------------------
(* Properties *)

Numbers == {"x", "d"}
Meant(p, known) == Expected(call[p].format, call[p].args, known)

\* "we return the total amount of character written" (printf.c): what printf
\* hands to the terminal is what its format means, and it returns how much that
\* was, as long as that is at most INT_MAX.  The code goes by runs of plain text
\* and by buffers filled from the end; the meaning is given per character.
PrintsTheFormat ==
  \A p \in Printers :
    job[p].fn = "printf" /\ job[p].at # "loop" =>
      LET text == Meant(p, {"c", "s"} \cup Numbers)
      IN  IF Len(text) <= INT_MAX
          THEN job[p].at = "returned" /\ out[p] = text /\ job[p].ret = Len(text)
          ELSE job[p].at = "returned" /\ job[p].ret >= 0 => out[p] = text

\* "puts the characters into the buffer for how many times was defined in the
\* value parameter" (snprintf.c): nothing is written behind the first value
\* characters, the buffer is terminated and starts like the text; all of the
\* text is there if it fits, and the result is -1 or its length in the buffer.
StaysInBuffer ==
  \A p \in Printers :
    job[p].fn = "snprintf" /\ job[p].at = "returned" =>
      LET text == Meant(p, {"c", "s"})
          value == job[p].value
          buffer == job[p].buffer
      IN  /\ \A k \in value .. BUFFER - 1 : buffer[k] = "junk"
          /\ value > 0 =>
               \E n \in 0 .. value - 1 :
                 /\ buffer[n] = "nul" /\ IsPrefix([k \in 1 .. n |-> buffer[k - 1]], text)
                 /\ job[p].ret \in {n, -1}
                 /\ Len(text) < value => n = Len(text) /\ job[p].ret = n
                 /\ job[p].ret = n => n = value - 1 \/ n = Len(text)

\* With one printer the rows that have scrolled off, then the screen down to the
\* cursor, are the log of all that was printed: scrolling, wrapping and carriage
\* returns lose, repeat or reorder nothing (terminal_put_char, clear_last_line).
Log == INSTANCE TextLog
  WITH WIDTH <- VGA_WIDTH, Chars <- {vga_char(c, terminal_color) : c \in Chars}, Blank <- blank,
       rows <- shown.rows, col <- shown.col
IsLog == Log!LogSpec
=============================================================================
