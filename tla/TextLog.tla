------------------------------ MODULE TextLog ------------------------------
(***************************************************************************)
(* What a terminal promises: everything written to it, laid out in rows of *)
(* a fixed width, none of which is ever lost or changed once the cursor    *)
(* has left it.                                                            *)
(***************************************************************************)
EXTENDS Integers, Sequences

CONSTANTS WIDTH, Chars, Blank

VARIABLES rows, col

logvars == <<rows, col>>

BlankRow == [k \in 1 .. WIDTH |-> Blank]

LogInit == rows = <<BlankRow>> /\ col = 0

NewRow(text) == rows' = Append(text, BlankRow) /\ col' = 0

Newline == NewRow(rows)
Return == col' = 0 /\ UNCHANGED rows
Put(c) ==
  LET written == [rows EXCEPT ![Len(rows)][col + 1] = c]
  IN  IF col + 1 = WIDTH THEN NewRow(written) ELSE rows' = written /\ col' = col + 1

LogNext == Newline \/ Return \/ \E c \in Chars : Put(c)

LogSpec == LogInit /\ [][LogNext]_logvars
=============================================================================
