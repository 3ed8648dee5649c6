---------------------------- MODULE ConsoleProofs ----------------------------
(***************************************************************************)
(* What is proved of the terminal holds for everything that printf prints. *)
(***************************************************************************)
EXTENDS Console, TtyProofs

LEMMA StepOfTty == [Next]_vars => [TtyNext]_tty_vars
<1>1. switch => preempt
  BY DEF switch
<1>2. ASSUME NEW p \in Printers, format_step(p)
      PROVE  UNCHANGED tty_vars
  BY <1>2 DEF format_step
<1>3. ASSUME NEW p \in Printers, putchar(p)
      PROVE  \E c : terminal_put_char(p, c)
  BY <1>3 DEF putchar
<1>4. ASSUME NEW p \in Printers, put_step(p)
      PROVE  tty_step(p)
  BY <1>4 DEF put_step
<1>5. UNCHANGED vars => UNCHANGED tty_vars
  BY DEF vars
<1>. QED
  BY <1>1, <1>2, <1>3, <1>4, <1>5 DEF Next, TtyNext

\* printf, puts and putchar use the terminal of tty.c only through
\* terminal_put_char, one character at a time.
THEOREM ConsoleUsesTty == Spec => TtySpec
<1>1. Init => TtyInit
  BY DEF Init
<1>. QED
  BY <1>1, StepOfTty, PTL DEF Spec, TtySpec

\* Whatever is printed and by however many tasks, the cursor comes back to the
\* screen, and no character is stored further off it than the preemptions allow.
THEOREM ConsoleKeepsCursor == Spec => [](IdleOnScreen /\ DriftIsBounded)
BY ConsoleUsesTty, CursorComesBack, DriftPerPreemption, PTL
=============================================================================
