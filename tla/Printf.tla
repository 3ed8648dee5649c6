------------------------------- MODULE Printf -------------------------------
(***************************************************************************)
(* Formatted output of the libc: printf, puts and snprintf of libc/stdio,  *)
(* as one step per round of their loops over the format.  A character is a *)
(* string of length one ("newline" and "return" are the control            *)
(* characters), a string is a sequence of characters without its           *)
(* terminator.                                                             *)
(*                                                                         *)
(* A job is one call: its parameters, the locals of the function, what it  *)
(* still has to hand to putchar, and the caller's buffer for snprintf.     *)
(***************************************************************************)
EXTENDS Integers, Sequences, SequencesExt

CONSTANTS
  INT_BITS,       \* width of an int, 32 in the code
  LONG_BITS,      \* width of the numbers %x and %d take, 64 in the code
  BUFFER          \* size of the memory around snprintf's buffer

ASSUME PrintfConstants ==
  INT_BITS \in Nat \ {0} /\ LONG_BITS \in Nat \ {0} /\ LONG_BITS % 4 = 0 /\ BUFFER \in Nat

Signed(n, bits) == ((n + 2^(bits - 1)) % 2^bits) - 2^(bits - 1)
INT_MAX == 2^(INT_BITS - 1) - 1
INT64_MIN == -(2^(LONG_BITS - 1))

Digits == <<"0", "1", "2", "3", "4", "5", "6", "7", "8", "9", "A", "B", "C", "D", "E", "F">>

\* Mutant: a zero inside the number is skipped like a leading one.
print_hex_NoStarted(hex) ==
  LET count == LONG_BITS \div 4
      nibble(k) == ((hex % 2^LONG_BITS) \div 16^(count - k)) % 16
      kept == SelectSeq([k \in 1 .. count |-> k], LAMBDA k : nibble(k) # 0 \/ k = count)
  IN  <<"0", "x">> \o [k \in 1 .. Len(kept) |-> Digits[nibble(kept[k]) + 1]]
\* From the highest nibble down, leading zeros skipped.
print_hex(hex) ==
  LET count == LONG_BITS \div 4
      nibble(k) == ((hex % 2^LONG_BITS) \div 16^(count - k)) % 16
      started(k) == \E l \in 1 .. k - 1 : nibble(l) # 0
      kept == SelectSeq([k \in 1 .. count |-> k],
                        LAMBDA k : nibble(k) # 0 \/ started(k) \/ k = count)
  IN  <<"0", "x">> \o [k \in 1 .. Len(kept) |-> Digits[nibble(kept[k]) + 1]]

\* The digits of a number above 0, last one first; none of a number below.
Extracted[dec \in Int] ==
  IF dec <= 0 THEN <<>> ELSE <<Digits[(dec % 10) + 1]>> \o Extracted[dec \div 10]

\* The negation of the least number is that number again.
print_decimal(dec) ==
  LET positive == IF dec < 0 THEN Signed(-dec, LONG_BITS) ELSE dec
      temp == IF positive = 0 THEN <<"0">> ELSE Extracted[positive]
  IN  (IF dec < 0 THEN <<"-">> ELSE <<>>) \o Reverse(temp)

-----------------------------------------------------------------------------
(* The pieces of a format *)

Conversion(format) == IF Len(format) > 1 THEN format[2] ELSE "end"
IsText(format) == format[1] # "%" \/ Conversion(format) = "%"
Rest(s, n) == SubSeq(s, n + 1, Len(s))

\* The plain text up to the next %, or the first limit characters of it.  Of %%
\* the second one is text.
Text(format, limit) ==
  LET t == IF format[1] = "%" THEN Tail(format) ELSE format
      n == Min({k \in 1 .. Len(t) : k = Len(t) \/ t[k + 1] = "%" \/ k = limit})
  IN  [text |-> SubSeq(t, 1, n), rest |-> Rest(t, n), used |-> 0]

Converted(format, text) == [text |-> text, rest |-> Rest(format, 2), used |-> 1]
Verbatim(format) == [text |-> format, rest |-> <<>>, used |-> 0]

\* The next piece of output, and what to do when it does not fit in an int.
PrintfPiece(format, args) ==
  CASE IsText(format)           -> [piece |-> Text(format, Len(format)), full |-> "panic"]
    [] Conversion(format) = "c" -> [piece |-> Converted(format, <<args[1]>>), full |-> "panic"]
    [] Conversion(format) = "s" -> [piece |-> Converted(format, args[1]), full |-> "error"]
    [] Conversion(format) = "x" -> [piece |-> Converted(format, print_hex(args[1])), full |-> "ignored"]
    [] Conversion(format) = "d" -> [piece |-> Converted(format, print_decimal(args[1])), full |-> "ignored"]
    [] OTHER                    -> [piece |-> Verbatim(format), full |-> "error"]

\* snprintf knows no numbers.
SnprintfPiece(format, args, limit) ==
  CASE IsText(format)           -> Text(format, limit)
    [] Conversion(format) = "c" -> Converted(format, <<args[1]>>)
    [] Conversion(format) = "s" -> Converted(format, args[1])
    [] OTHER                    -> Verbatim(format)

-----------------------------------------------------------------------------
(* Jobs *)

Job(fn, value, format, args) ==
  [fn |-> fn, value |-> value, format |-> format, args |-> args,
   written |-> 0, chunk |-> <<>>, at |-> "loop", ret |-> 0,
   buffer |-> [k \in 0 .. BUFFER - 1 |-> "junk"]]
printf(format, args) == Job("printf", 0, format, args)
puts(string) == printf(<<"%", "s", "newline">>, <<string>>)
snprintf(value, format, args) == Job("snprintf", value, format, args)

Return(j, ret) == [j EXCEPT !.at = "returned", !.ret = ret]
Consume(j, piece) ==
  [j EXCEPT !.format = piece.rest, !.args = Rest(@, piece.used),
            !.written = Signed(@ + Len(piece.text), INT_BITS)]

\* maxrem >= n, where maxrem is the int difference turned into a size_t.
Fits(j, n) == LET maxrem == Signed(INT_MAX - j.written, INT_BITS)
              IN  maxrem < 0 \/ n <= maxrem

PrintfStep(j) ==
  IF j.format = <<>> THEN Return(j, j.written)
  ELSE LET next == PrintfPiece(j.format, j.args)
       IN  CASE next.full = "ignored" \/ Fits(j, Len(next.piece.text))
                  -> [Consume(j, next.piece) EXCEPT !.chunk = next.piece.text]
             [] next.full = "panic" /\ ~ Fits(j, Len(next.piece.text)) -> [j EXCEPT !.at = "panic"]
             [] next.full = "error" /\ ~ Fits(j, Len(next.piece.text)) -> Return(j, -1)

\* write_to_buffer, and the terminator.
Written(buffer, text, from) ==
  [k \in DOMAIN buffer |-> IF k \in from .. from + Len(text) - 1 THEN text[k - from + 1] ELSE buffer[k]]
Terminated(j) == [j EXCEPT !.buffer = Written(@, <<"nul">>, j.written)]

\* Mutant: the terminator gets no room of its own.
Limit_Whole(value) == value
Limit(value) == value - 1

SnprintfStep(j) ==
  IF j.value = 0 THEN Return(j, 0)
  ELSE IF j.format = <<>> \/ j.written >= Limit(j.value) THEN Return(Terminated(j), j.written)
  ELSE LET piece == SnprintfPiece(j.format, j.args, Limit(j.value))
       IN  IF Limit(j.value) - j.written < Len(piece.text) THEN Return(Terminated(j), -1)
           ELSE [Consume(j, piece) EXCEPT !.buffer = Written(@, piece.text, j.written)]

-----------------------------------------------------------------------------
(* What a format means, character by character *)

\* The numeral of n in a base: as few digits as n needs, and at least one.
Numeral(n, base) ==
  LET size == CHOOSE k \in 1 .. LONG_BITS : n < base^k /\ (k = 1 \/ n >= base^(k - 1))
  IN  [k \in 1 .. size |-> Digits[((n \div base^(size - k)) % base) + 1]]

\* The least number has no numeral: only its sign is shown.
Meaning(conversion, arg) ==
  CASE conversion = "c" -> <<arg>>
    [] conversion = "s" -> arg
    [] conversion = "x" -> <<"0", "x">> \o Numeral(arg % 2^LONG_BITS, 16)
    [] conversion = "d" /\ arg >= 0 -> Numeral(arg, 10)
    [] conversion = "d" /\ arg < 0  ->
         <<"-">> \o IF arg = INT64_MIN THEN <<>> ELSE Numeral(-arg, 10)

\* The format read one character at a time: in plain text, after a %, or behind
\* a directive that is not among known, from where on the rest is taken as it is.
Expected(format, args, known) ==
  LET read(s, c) ==
        CASE s.mode = "text" /\ c = "%" -> [s EXCEPT !.mode = "percent"]
          [] s.mode = "percent" /\ c \in known ->
               [mode |-> "text", out |-> s.out \o Meaning(c, s.args[1]), args |-> Tail(s.args)]
          [] s.mode = "percent" /\ c = "%" -> [s EXCEPT !.mode = "text", !.out = Append(@, c)]
          [] s.mode = "percent" /\ c \notin known \cup {"%"} ->
               [s EXCEPT !.mode = "rest", !.out = @ \o <<"%", c>>]
          [] s.mode = "rest" \/ (s.mode = "text" /\ c # "%") -> [s EXCEPT !.out = Append(@, c)]
      end == FoldLeft(read, [mode |-> "text", out |-> <<>>, args |-> args], format)
  IN  IF end.mode = "percent" THEN Append(end.out, "%") ELSE end.out
=============================================================================
