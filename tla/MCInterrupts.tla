---------------------------- MODULE MCInterrupts ----------------------------
(* Lines of both chips, the last of the slave among them, and three masks a *)
(* firmware leaves: everything masked; the timer, keyboard, slave and drive  *)
(* lines open; the same without the timer and the keyboard.                  *)
EXTENDS Interrupts

MCLines == {0, 1, 6, 8, 15}
MCFirmwareMasks == {<<255, 255>>, <<184, 14>>, <<187, 14>>}
=============================================================================
