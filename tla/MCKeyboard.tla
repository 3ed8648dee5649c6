----------------------------- MODULE MCKeyboard -----------------------------
(* Keys for TLC: 30 and 31 are letters, 1 is escape. *)
EXTENDS Keyboard

\* A letter, escape, a shift key down and up, and caps lock.
MCKeys == {30, 1, 42, 170, 58}
MCLetters == {30, 31}
=============================================================================
