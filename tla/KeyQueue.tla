------------------------------ MODULE KeyQueue ------------------------------
(***************************************************************************)
(* What the keyboard buffer promises its reader: a queue of characters     *)
(* that keeps the newest Capacity of them, discarding the oldest when it   *)
(* is full, and hands them out in the order they were typed.               *)
(***************************************************************************)
EXTENDS Integers, Sequences

CONSTANTS Capacity, Chars

VARIABLES queue, taken

Init == queue = <<>> /\ taken = <<>>

Newest(q) == IF Len(q) > Capacity THEN Tail(q) ELSE q

Push == /\ \E c \in Chars : queue' = Newest(Append(queue, c))
        /\ UNCHANGED taken

Take == /\ queue # <<>>
        /\ queue' = Tail(queue)
        /\ taken' = Append(taken, Head(queue))

Spec == Init /\ [][Push \/ Take]_<<queue, taken>>
=============================================================================
