----------------------------- MODULE TtyProofs ------------------------------
(***************************************************************************)
(* Proofs about module Tty, for every screen size, any set of printers and *)
(* any number of preemptions.                                              *)
(***************************************************************************)
EXTENDS Tty, TLAPS

Labels == {"idle", "index_y", "index_x", "store", "load_x", "store_x", "check_x", "zero_x",
           "load_y", "store_y", "return", "check_y", "scroll", "set_y", "reset_x"}

TypeOK ==
  /\ cursor_x \in Nat /\ cursor_y \in Nat /\ switches \in Nat /\ running \in Printers
  /\ pc \in [Printers -> Labels]
  /\ row \in [Printers -> Nat] /\ col \in [Printers -> Nat]

\* A printer at one of these will still test, or reset, the column or the row.
MendsX(p) == pc[p] \in {"check_x", "zero_x"}
MendsY(p) == pc[p] \in {"check_y", "scroll", "set_y"}

\* A cursor off the screen has a printer that will bring it back.
Mended ==
  /\ cursor_x >= VGA_WIDTH => \E p \in Printers : MendsX(p)
  /\ cursor_y >= VGA_HEIGHT => \E p \in Printers : MendsY(p)

\* The cursor is within the drift the preemptions so far allow, or one further
\* while the running printer is about to test it; what the printers have loaded
\* is within the drift.
Drift ==
  /\ cursor_x <= VGA_WIDTH + switches
  /\ cursor_x = VGA_WIDTH + switches => MendsX(running)
  /\ cursor_y <= VGA_HEIGHT + switches
  /\ cursor_y = VGA_HEIGHT + switches => MendsY(running)
  /\ \A p \in Printers :
       /\ pc[p] \in {"store", "store_x"} => col[p] < VGA_WIDTH + switches
       /\ pc[p] \in {"index_x", "store", "store_y"} => row[p] < VGA_HEIGHT + switches

IInv == TypeOK /\ Mended /\ Drift

LEMMA InitInv == TtyInit => IInv
BY TtyConstants DEF TtyInit, IInv, TypeOK, Mended, Drift, Labels, MendsX, MendsY

\* A call changes nothing but the caller's place in the code.
LEMMA CallStep ==
  ASSUME IInv, NEW p \in Printers, NEW c, terminal_put_char(p, c)
  PROVE  IInv'
<1>. USE TtyConstants DEF terminal_put_char, Step, IInv, cursor
<1>1. TypeOK'
  BY DEF TypeOK, Labels
<1>2. Mended'
  BY DEF TypeOK, Mended, MendsX, MendsY
<1>3. Drift'
  BY DEF TypeOK, Drift, MendsX, MendsY
<1>. QED
  BY <1>1, <1>2, <1>3

\* Loading the cursor, and the accesses that leave it alone.
LEMMA LoadStep ==
  ASSUME IInv, NEW p \in Printers, UNCHANGED <<running, switches, char>>,
         \/ index_y(p) \/ index_x(p) \/ store(p) \/ load_x(p) \/ load_y(p)
  PROVE  IInv'
<1>. USE TtyConstants DEF index_y, index_x, store, load_x, load_y, LoadX, LoadY, Step, IInv, cursor
<1>1. TypeOK'
  BY DEF TypeOK, Labels
<1>2. Mended'
  BY DEF TypeOK, Mended, MendsX, MendsY
<1>3. Drift'
  BY DEF TypeOK, Drift, MendsX, MendsY
<1>. QED
  BY <1>1, <1>2, <1>3

\* Storing the cursor.
LEMMA StoreStep ==
  ASSUME IInv, NEW p \in Printers, UNCHANGED <<running, switches, char>>,
         \/ store_x(p) \/ zero_x(p) \/ store_y(p) \/ put_return(p) \/ set_y(p) \/ reset_x(p)
  PROVE  IInv'
<1>. USE TtyConstants DEF store_x, zero_x, store_y, put_return, set_y, reset_x, StoreX, StoreY,
                          Step, IInv
<1>1. TypeOK'
  BY DEF TypeOK, Labels
<1>2. Mended'
  BY DEF TypeOK, Mended, MendsX, MendsY
<1>3. Drift'
  BY DEF TypeOK, Drift, MendsX, MendsY
<1>. QED
  BY <1>1, <1>2, <1>3

\* The tests, and the scrolling that may follow them.
LEMMA TestStep ==
  ASSUME IInv, NEW p \in Printers, UNCHANGED <<running, switches, char>>,
         check_x(p) \/ check_y(p) \/ clear_last_line(p)
  PROVE  IInv'
<1>. USE TtyConstants DEF Step, IInv, cursor
<1>0. CellCount \in Nat \ {0}
  BY DEF CellCount
<1>1. TypeOK'
  <2>1. CASE clear_last_line(p)
    <3>. DEFINE next == (col[p] + 1) % CellCount
    <3>1. next \in Nat
      BY <1>0 DEF TypeOK
    <3>2. col' = [col EXCEPT ![p] = next]
      BY <2>1 DEF clear_last_line
    <3>. HIDE DEF next
    <3>. QED
      BY <2>1, <3>1, <3>2 DEF clear_last_line, TypeOK, Labels
  <2>2. CASE check_x(p) \/ check_y(p)
    BY <2>2 DEF check_x, check_y, TypeOK, Labels
  <2>. QED
    BY <2>1, <2>2
<1>2. UNCHANGED <<cursor_x, cursor_y>>
  BY DEF check_x, check_y, clear_last_line
<1>3. /\ pc' = [pc EXCEPT ![p] = pc'[p]] /\ pc'[p] \notin {"store", "store_x", "index_x", "store_y"}
      /\ \A q \in Printers : q # p => col'[q] = col[q] /\ row'[q] = row[q]
  BY DEF check_x, check_y, clear_last_line, TypeOK
<1>4. /\ MendsX(p) => MendsX(p)' \/ cursor_x < VGA_WIDTH
      /\ MendsY(p) => MendsY(p)' \/ cursor_y < VGA_HEIGHT
  BY DEF check_x, check_y, clear_last_line, TypeOK, MendsX, MendsY
<1>5. Mended'
  BY <1>2, <1>3, <1>4 DEF TypeOK, Mended, MendsX, MendsY
<1>6. Drift'
  BY <1>2, <1>3, <1>4 DEF TypeOK, Drift, MendsX, MendsY
<1>. QED
  BY <1>1, <1>5, <1>6

\* A preemption allows one more row and one more column.
LEMMA PreemptStep == IInv /\ preempt => IInv'
<1>. SUFFICES ASSUME IInv, preempt
              PROVE  IInv'
  OBVIOUS
<1>1. TypeOK' /\ Mended'
  BY DEF preempt, IInv, TypeOK, Mended, MendsX, MendsY, cursor
<1>2. Drift'
  BY TtyConstants DEF preempt, IInv, TypeOK, Drift, cursor
<1>. QED
  BY <1>1, <1>2 DEF IInv

LEMMA NextInv == IInv /\ [TtyNext]_tty_vars => IInv'
<1>. SUFFICES ASSUME IInv, [TtyNext]_tty_vars
              PROVE  IInv'
  OBVIOUS
<1>1. CASE UNCHANGED tty_vars
  BY <1>1 DEF tty_vars, cursor, IInv, TypeOK, Mended, Drift, MendsX, MendsY
<1>2. CASE preempt
  BY <1>2, PreemptStep
<1>3. ASSUME NEW p \in Printers, tty_step(p)
      PROVE  IInv'
  BY <1>3, LoadStep, StoreStep, TestStep DEF tty_step
<1>4. ASSUME NEW p \in Printers, NEW c, terminal_put_char(p, c)
      PROVE  IInv'
  BY <1>4, CallStep
<1>. QED
  BY <1>1, <1>2, <1>3, <1>4 DEF TtyNext

\* What the two theorems below rest on.
THEOREM Invariant == TtySpec => []IInv
BY InitInv, NextInv, PTL DEF TtySpec

\* Between characters the cursor of tty.c is on the screen, for any number of
\* tasks that print at the same time.
THEOREM CursorComesBack == TtySpec => []IdleOnScreen
<1>1. IInv => IdleOnScreen
  BY TtyConstants DEF IInv, TypeOK, Mended, MendsX, MendsY, IdleOnScreen, OnScreen
<1>. QED
  BY <1>1, Invariant, PTL

\* terminal_put_char stores at most one row and one column off the screen per
\* preemption, and without any it stores on the screen.
THEOREM DriftPerPreemption == TtySpec => []DriftIsBounded
<1>1. IInv => DriftIsBounded
  BY DEF IInv, Drift, DriftIsBounded
<1>. QED
  BY <1>1, Invariant, PTL
=============================================================================
