------------------------------ MODULE MCInitrd ------------------------------
(***************************************************************************)
(* Initrd for TLC: three names, two of which share their first characters  *)
(* and one of which is too long for an entry; contents of none to three    *)
(* bytes; sectors of four cells, so that two files or a long one outgrow   *)
(* the smallest budget.                                                    *)
(***************************************************************************)
EXTENDS Initrd

MCNames == {<<"d">>, <<"d", "e">>, <<"d", "e", "f">>}
MCContents == {<<>>, <<"x">>, <<"y", "x", "y">>}
MCSettings == {[stage2 |-> s, initrd |-> i] : s \in 1 .. 2, i \in 1 .. 2}
=============================================================================
