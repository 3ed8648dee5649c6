----------------------------- MODULE MCConsole ------------------------------
(* Calls for TLC, on a screen of two rows of two. *)
EXTENDS Console

MCChars == Range(Digits) \cup {"%", "c", "s", "x", "d", "u", "a", "b", "-"}

\* Plain text, %%, every conversion, an unknown one and a lone % at the end.
Tokens ==
  {<<"a", "newline">>, <<"b", "return">>, <<"%", "%">>, <<"%", "c">>, <<"%", "s">>, <<"%", "x">>,
   <<"%", "d">>, <<"%", "u">>, <<"%">>}
Formats == {s \o t : s \in Tokens, t \in Tokens} \cup
           {<<"a">> \o t \o <<"%", "s">> : t \in Tokens} \cup {<<"a", "b", "a">> \o t : t \in Tokens}
\* These end at INT_MAX, or just behind it, at each kind of piece.
Long == {<<"%", "x", "a", "b">> \o t : t \in Tokens \cup {<<"a">>, <<"a", "b">>}} \cup
        {<<"%", "x", "%", "x">> \o t : t \in Tokens}

\* Arguments that fit a format, where numbers take a value of Values.
Conversions(format) ==
  {k \in 2 .. Len(format) : format[k - 1] = "%" /\ format[k] \in {"c", "s", "x", "d"}}
Args(format, n, string) ==
  LET order == SetToSortSeq(Conversions(format), <)
  IN  [k \in 1 .. Len(order) |->
         CASE format[order[k]] = "c" -> "b" [] format[order[k]] = "s" -> string [] OTHER -> n]

MCPrintf ==
  {printf(f, Args(f, n, s)) : f \in Formats \cup Long, n \in {42, -7}, s \in {<<>>, <<"a", "b">>}}
MCNumbers ==
  {printf(<<"%", k>>, <<n>>) :
     k \in {"x", "d"}, n \in {-2048, -2047, -1000, -100, -10, -9, -1, 0, 1, 9, 10, 16, 80, 101, 256, 257, 2047}}
MCSnprintf ==
  {snprintf(v, f, Args(f, 42, s)) : v \in 0 .. 5, f \in Formats, s \in {<<>>, <<"a", "b">>}}
MCSingle == MCPrintf \cup MCNumbers \cup MCSnprintf \cup {puts(<<"a", "b", "a", "b", "a">>)}

\* One printer with any of these calls, or two that print a few characters.
A == printf(<<"a", "a", "a">>, <<>>)
B == printf(<<"b", "newline">>, <<>>)
MCCrews ==
  {[p \in {1, 2} |-> IF p = 1 THEN j ELSE Silent] : j \in MCSingle}
    \cup {<<A, B>>, <<B, B>>}
=============================================================================
