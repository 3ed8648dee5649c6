--------------------------- MODULE KeyboardProofs ---------------------------
(***************************************************************************)
(* The ring buffer of the keyboard driver, with its interrupting writer    *)
(* and its reader of single accesses, implements the queue of module       *)
(* KeyQueue, for every size of the ring and every sequence of keys, as     *)
(* long as no key arrives at a full buffer while it is read.               *)
(***************************************************************************)
EXTENDS Keyboard, SequenceTheorems, TLAPS

Bytes == 0 .. 127

\* What the handler and the reader leave to each other.
IInv ==
  /\ keycache \in [Indices -> Bytes] /\ kbd_head \in Indices /\ kbd_tail \in Indices
  /\ kbd_shift \in {0, 1} /\ kbd_caps \in {0, 1}
  /\ wire \in Seq(0 .. 255) /\ port \in {Empty} \cup 0 .. 255
  /\ irq => port # Empty
  /\ pc \in {"init", "register"} => kbd_head = 0 /\ kbd_tail = 0 /\ ~ registered
  /\ pc = "compare" => reg = kbd_head \/ kbd_head # kbd_tail
  /\ Reading => kbd_head # kbd_tail
  /\ pc \in {"read", "store_tail"} => reg = kbd_tail
  /\ pc \in {"reload_tail", "store_tail"} => char = keycache[kbd_tail]

-----------------------------------------------------------------------------
(* The ring *)

LEMMA Size == KBD_BUFFER_SIZE \in Nat /\ KBD_BUFFER_SIZE > 1
BY KeyboardConstants

Mod(x) == x % KBD_BUFFER_SIZE

LEMMA SeqOfFunction ==
  ASSUME NEW S, NEW n \in Nat, NEW f \in [1 .. n -> S]
  PROVE  f \in Seq(S) /\ Len(f) = n
OBVIOUS

LEMMA Wrap ==
  ASSUME NEW x \in Int
  PROVE  /\ Mod(x) \in Indices
         /\ 0 <= x /\ x < KBD_BUFFER_SIZE => Mod(x) = x
         /\ KBD_BUFFER_SIZE <= x /\ x < KBD_BUFFER_SIZE + KBD_BUFFER_SIZE => Mod(x) = x - KBD_BUFFER_SIZE
         /\ -KBD_BUFFER_SIZE <= x /\ x < 0 => Mod(x) = x + KBD_BUFFER_SIZE
<1> DEFINE r == x % KBD_BUFFER_SIZE
<1>1. /\ r \in Indices
      /\ 0 <= x /\ x < KBD_BUFFER_SIZE => r = x
      /\ KBD_BUFFER_SIZE <= x /\ x < KBD_BUFFER_SIZE + KBD_BUFFER_SIZE => r = x - KBD_BUFFER_SIZE
      /\ -KBD_BUFFER_SIZE <= x /\ x < 0 => r = x + KBD_BUFFER_SIZE
  BY Size DEF Indices
<1> QED BY <1>1 DEF Mod

\* The indices without the modulus.
LEMMA Positions ==
  ASSUME NEW h \in Indices, NEW t \in Indices
  PROVE  /\ Next_index(h) = IF h = KBD_BUFFER_SIZE - 1 THEN 0 ELSE h + 1
         /\ Next_index(h) \in Indices /\ Next_index(h) # h
         /\ Mod(h - t) = IF h >= t THEN h - t ELSE h - t + KBD_BUFFER_SIZE
         /\ Mod(h - t) \in Indices
         /\ \A k \in 1 .. KBD_BUFFER_SIZE :
              /\ Mod(t + k - 1) \in Indices
              /\ Mod(t + k - 1) =
                   IF t + k - 1 < KBD_BUFFER_SIZE THEN t + k - 1 ELSE (t + k - 1) - KBD_BUFFER_SIZE
<1>1. h \in Int /\ t \in Int /\ h + 1 \in Int /\ h - t \in Int
  BY DEF Indices
<1>2. /\ Next_index(h) = IF h = KBD_BUFFER_SIZE - 1 THEN 0 ELSE h + 1
      /\ Next_index(h) \in Indices
  <2>1. Next_index(h) = Mod(h + 1)
    BY DEF Next_index, Mod
  <2> QED BY <1>1, <2>1, Wrap, Size DEF Indices
<1>3. /\ Mod(h - t) = IF h >= t THEN h - t ELSE h - t + KBD_BUFFER_SIZE
      /\ Mod(h - t) \in Indices
  BY <1>1, Wrap, Size DEF Indices
<1>4. ASSUME NEW k \in 1 .. KBD_BUFFER_SIZE
      PROVE  /\ Mod(t + k - 1) \in Indices
             /\ Mod(t + k - 1) =
                  IF t + k - 1 < KBD_BUFFER_SIZE THEN t + k - 1 ELSE (t + k - 1) - KBD_BUFFER_SIZE
  <2> DEFINE x == t + k - 1
  <2>1. x \in Int /\ 0 <= x /\ x < KBD_BUFFER_SIZE + KBD_BUFFER_SIZE
    BY <1>1, Size DEF Indices
  <2> HIDE DEF x
  <2>2. Mod(x) \in Indices /\ Mod(x) = IF x < KBD_BUFFER_SIZE THEN x ELSE x - KBD_BUFFER_SIZE
    BY <2>1, Wrap, Size
  <2> QED BY <2>2, Zenon DEF x
<1>5. Next_index(h) # h
  BY <1>1, <1>2, Size DEF Indices
<1> QED BY <1>2, <1>3, <1>4, <1>5

Ring(cache, h, t) ==
  [k \in 1 .. (h - t) % KBD_BUFFER_SIZE |-> cache[(t + k - 1) % KBD_BUFFER_SIZE]]

\* The characters from tail to head, as a sequence.
LEMMA RingContent ==
  ASSUME NEW cache \in [Indices -> Bytes], NEW h \in Indices, NEW t \in Indices
  PROVE  /\ Ring(cache, h, t) \in Seq(Bytes) /\ Len(Ring(cache, h, t)) = Mod(h - t)
         /\ \A k \in 1 .. Len(Ring(cache, h, t)) :
              Ring(cache, h, t)[k] = cache[Mod(t + k - 1)]
<1> DEFINE s == Ring(cache, h, t)
<1>1. Mod(h - t) \in Indices
  BY Positions
<1>2. Mod(h - t) \in Nat /\ Mod(h - t) < KBD_BUFFER_SIZE
  BY <1>1, Size DEF Indices
<1>3. \A k \in 1 .. Mod(h - t) : cache[Mod(t + k - 1)] \in Bytes
  <2>1. \A k \in 1 .. Mod(h - t) : k \in 1 .. KBD_BUFFER_SIZE
    BY <1>2, Size
  <2> QED BY <2>1, Positions
<1>4. s = [k \in 1 .. Mod(h - t) |-> cache[Mod(t + k - 1)]]
  BY DEF Mod, Ring
<1> HIDE DEF s
<1>5. s \in [1 .. Mod(h - t) -> Bytes]
  BY <1>3, <1>4
<1>6. s \in Seq(Bytes) /\ Len(s) = Mod(h - t)
  BY <1>2, <1>5, SeqOfFunction, Zenon
<1> QED BY <1>4, <1>6 DEF s

LEMMA ContentFacts ==
  /\ keycache \in [Indices -> Bytes] /\ kbd_head \in Indices /\ kbd_tail \in Indices =>
       /\ Content \in Seq(Bytes) /\ Len(Content) = Mod(kbd_head - kbd_tail)
       /\ \A k \in 1 .. Len(Content) : Content[k] = keycache[Mod(kbd_tail + k - 1)]
  /\ keycache' \in [Indices -> Bytes] /\ kbd_head' \in Indices /\ kbd_tail' \in Indices =>
       /\ Content' \in Seq(Bytes) /\ Len(Content') = Mod(kbd_head' - kbd_tail')
       /\ \A k \in 1 .. Len(Content') : Content'[k] = keycache'[Mod(kbd_tail' + k - 1)]
<1>1. Content = Ring(keycache, kbd_head, kbd_tail) /\ Content' = Ring(keycache', kbd_head', kbd_tail')
  BY DEF Content, Ring
<1> QED BY <1>1, RingContent, Zenon

\* A push appends to the queue, and drops the oldest character of a full one.
LEMMA PushAppends ==
  ASSUME keycache \in [Indices -> Bytes], kbd_head \in Indices, kbd_tail \in Indices,
         NEW c \in Bytes, kbd_buffer_push(c)
  PROVE  /\ keycache' \in [Indices -> Bytes] /\ kbd_head' \in Indices /\ kbd_tail' \in Indices
         /\ kbd_head' # kbd_tail'
         /\ Content' = Queue!Newest(Append(Content, c))
<1>1. /\ keycache' = [keycache EXCEPT ![kbd_head] = c] /\ kbd_head' = Next_index(kbd_head)
      /\ kbd_tail' = IF Full THEN Next_index(kbd_tail) ELSE kbd_tail
  BY DEF kbd_buffer_push, Full
<1>2. /\ keycache' \in [Indices -> Bytes] /\ kbd_head' \in Indices /\ kbd_tail' \in Indices
      /\ \A a \in Indices : keycache'[a] = IF a = kbd_head THEN c ELSE keycache[a]
  BY <1>1, Positions
<1>3. kbd_head' # kbd_tail'
  BY <1>1, Positions DEF Full
<1> DEFINE q == Append(Content, c)
<1>4. /\ Content \in Seq(Bytes) /\ Len(Content) = Mod(kbd_head - kbd_tail)
      /\ \A k \in 1 .. Len(Content) : Content[k] = keycache[Mod(kbd_tail + k - 1)]
      /\ Content' \in Seq(Bytes) /\ Len(Content') = Mod(kbd_head' - kbd_tail')
      /\ \A k \in 1 .. Len(Content') : Content'[k] = keycache'[Mod(kbd_tail' + k - 1)]
  BY <1>2, ContentFacts
<1>5. /\ q \in Seq(Bytes) /\ q # <<>> /\ Len(q) = Len(Content) + 1 /\ Len(Content) \in Nat
      /\ \A k \in 1 .. Len(Content) : q[k] = Content[k]
      /\ q[Len(Content) + 1] = c
  BY <1>4, AppendProperties
<1> HIDE DEF q
<1>6. /\ kbd_head \in 0 .. KBD_BUFFER_SIZE - 1 /\ kbd_tail \in 0 .. KBD_BUFFER_SIZE - 1
      /\ Mod(kbd_head - kbd_tail) =
           IF kbd_head >= kbd_tail THEN kbd_head - kbd_tail ELSE kbd_head - kbd_tail + KBD_BUFFER_SIZE
      /\ Next_index(kbd_head) = IF kbd_head = KBD_BUFFER_SIZE - 1 THEN 0 ELSE kbd_head + 1
      /\ Next_index(kbd_tail) = IF kbd_tail = KBD_BUFFER_SIZE - 1 THEN 0 ELSE kbd_tail + 1
  BY Positions DEF Indices
<1>7. /\ kbd_head' \in 0 .. KBD_BUFFER_SIZE - 1 /\ kbd_tail' \in 0 .. KBD_BUFFER_SIZE - 1
      /\ Mod(kbd_head' - kbd_tail') =
           IF kbd_head' >= kbd_tail' THEN kbd_head' - kbd_tail'
           ELSE kbd_head' - kbd_tail' + KBD_BUFFER_SIZE
  BY <1>2, Positions DEF Indices
\* What the queue held stays where it was; the new character is behind it.
<1>8. \A k \in 1 .. Len(q) : q[k] = keycache'[Mod(kbd_tail + k - 1)]
  <2>1. SUFFICES ASSUME NEW k \in 1 .. Len(q) PROVE q[k] = keycache'[Mod(kbd_tail + k - 1)]
    OBVIOUS
  <2>2. /\ Mod(kbd_tail + k - 1) \in Indices
        /\ Mod(kbd_tail + k - 1) = IF kbd_tail + k - 1 < KBD_BUFFER_SIZE THEN kbd_tail + k - 1
                                   ELSE (kbd_tail + k - 1) - KBD_BUFFER_SIZE
    <3>1. k \in 1 .. KBD_BUFFER_SIZE
      BY <1>4, <1>5, <1>6, Size
    <3> QED BY <3>1, Positions
  <2>3. CASE k = Len(Content) + 1
    <3>1. k \in Int /\ k - 1 = IF kbd_head >= kbd_tail THEN kbd_head - kbd_tail
                               ELSE kbd_head - kbd_tail + KBD_BUFFER_SIZE
      BY <1>4, <1>5, <1>6, <2>3
    <3>2. Mod(kbd_tail + k - 1) = kbd_head
      BY <1>6, <2>2, <3>1, Size
    <3> QED BY <1>2, <1>5, <2>3, <3>2
  <2>4. CASE k \in 1 .. Len(Content)
    <3>1. Mod(kbd_tail + k - 1) # kbd_head
      BY <1>4, <1>6, <2>2, <2>4, Size
    <3> QED BY <1>2, <1>4, <1>5, <2>2, <2>4, <3>1
  <2> QED BY <1>5, <2>3, <2>4
<1>9. CASE ~ Full
  <2>1. kbd_tail' = kbd_tail /\ kbd_head' = Next_index(kbd_head) /\ Next_index(kbd_head) # kbd_tail
    BY <1>1, <1>9 DEF Full
  <2>2. Len(Content') = Len(q) /\ ~ (Len(q) > KBD_BUFFER_SIZE - 1)
    BY <1>4, <1>5, <1>6, <1>7, <2>1, Size
  <2>3. Content' = q
    BY <1>4, <1>5, <1>8, <2>1, <2>2, SeqEqual
  <2> QED BY <1>2, <1>3, <2>2, <2>3 DEF Queue!Newest, q
<1>10. CASE Full
  <2>1. /\ kbd_tail' = Next_index(kbd_tail) /\ kbd_head' = Next_index(kbd_head)
        /\ Next_index(kbd_head) = kbd_tail
    BY <1>1, <1>10 DEF Full
  <2>2. Len(Content) = KBD_BUFFER_SIZE - 1 /\ Len(Content') = KBD_BUFFER_SIZE - 1
        /\ Len(q) > KBD_BUFFER_SIZE - 1 /\ Len(q) = KBD_BUFFER_SIZE
    BY <1>4, <1>5, <1>6, <1>7, <2>1, Size
  <2>3. /\ Tail(q) \in Seq(Bytes) /\ Len(Tail(q)) = Len(q) - 1
        /\ \A k \in 1 .. Len(Tail(q)) : Tail(q)[k] = q[k + 1]
    BY <1>5, HeadTailProperties
  <2>4. \A k \in 1 .. Len(Content') : Content'[k] = Tail(q)[k]
    <3>1. SUFFICES ASSUME NEW k \in 1 .. KBD_BUFFER_SIZE - 1 PROVE Content'[k] = Tail(q)[k]
      BY <2>2
    <3>2. k \in 1 .. KBD_BUFFER_SIZE /\ k + 1 \in 1 .. KBD_BUFFER_SIZE /\ k \in Int
      BY Size
    <3> DEFINE a == Mod(kbd_tail' + k - 1)
               b == Mod(kbd_tail + (k + 1) - 1)
    <3>3. a = IF kbd_tail' + k - 1 < KBD_BUFFER_SIZE THEN kbd_tail' + k - 1
              ELSE (kbd_tail' + k - 1) - KBD_BUFFER_SIZE
      BY <1>2, <3>2, Positions
    <3>4. b = IF kbd_tail + (k + 1) - 1 < KBD_BUFFER_SIZE THEN kbd_tail + (k + 1) - 1
              ELSE (kbd_tail + (k + 1) - 1) - KBD_BUFFER_SIZE
      BY <3>2, Positions
    <3> HIDE DEF a, b
    <3>5. a = b
      BY <1>6, <1>7, <2>1, <3>1, <3>3, <3>4, Size
    <3>6. Content'[k] = keycache'[a] /\ Tail(q)[k] = q[k + 1] /\ q[k + 1] = keycache'[b]
      BY <1>4, <1>8, <2>2, <2>3, <3>2 DEF a, b
    <3> QED BY <3>5, <3>6
  <2>5. Content' = Tail(q)
    BY <1>4, <2>2, <2>3, <2>4, SeqEqual
  <2> QED BY <1>2, <1>3, <2>2, <2>5 DEF Queue!Newest, q
<1> QED BY <1>9, <1>10

\* A take at a buffer that is not empty removes the oldest character.
LEMMA TakeRemoves ==
  ASSUME keycache \in [Indices -> Bytes], kbd_head \in Indices, kbd_tail \in Indices,
         kbd_head # kbd_tail, UNCHANGED <<keycache, kbd_head>>,
         kbd_tail' = Next_index(kbd_tail)
  PROVE  /\ kbd_tail' \in Indices
         /\ Content # <<>> /\ Content' = Tail(Content) /\ Head(Content) = keycache[kbd_tail]
<1>1. /\ kbd_tail' \in Indices /\ kbd_tail \in 0 .. KBD_BUFFER_SIZE - 1
      /\ kbd_head \in 0 .. KBD_BUFFER_SIZE - 1
      /\ kbd_tail' = IF kbd_tail = KBD_BUFFER_SIZE - 1 THEN 0 ELSE kbd_tail + 1
      /\ Mod(kbd_head - kbd_tail) =
           IF kbd_head >= kbd_tail THEN kbd_head - kbd_tail ELSE kbd_head - kbd_tail + KBD_BUFFER_SIZE
  BY Positions DEF Indices
<1>2. Mod(kbd_head - kbd_tail') =
        IF kbd_head >= kbd_tail' THEN kbd_head - kbd_tail' ELSE kbd_head - kbd_tail' + KBD_BUFFER_SIZE
  BY <1>1, Positions
<1>3. /\ Content \in Seq(Bytes) /\ Len(Content) = Mod(kbd_head - kbd_tail)
      /\ \A k \in 1 .. Len(Content) : Content[k] = keycache[Mod(kbd_tail + k - 1)]
      /\ Content' \in Seq(Bytes) /\ Len(Content') = Mod(kbd_head - kbd_tail')
      /\ \A k \in 1 .. Len(Content') : Content'[k] = keycache[Mod(kbd_tail' + k - 1)]
  BY <1>1, ContentFacts
<1>4. Len(Content) \in 1 .. KBD_BUFFER_SIZE - 1 /\ Len(Content') = Len(Content) - 1
  BY <1>1, <1>2, <1>3, Size
<1>5. /\ Content # <<>> /\ Head(Content) = Content[1]
      /\ Tail(Content) \in Seq(Bytes) /\ Len(Tail(Content)) = Len(Content) - 1
      /\ \A k \in 1 .. Len(Tail(Content)) : Tail(Content)[k] = Content[k + 1]
  BY <1>3, <1>4, HeadTailProperties
<1>6. Content[1] = keycache[kbd_tail]
  <2>1. Mod(kbd_tail + 1 - 1) = kbd_tail
    BY <1>1, Positions, Size
  <2> QED BY <1>3, <1>4, <2>1, Size
<1>7. \A k \in 1 .. Len(Content') : Content'[k] = Tail(Content)[k]
  <2>1. SUFFICES ASSUME NEW k \in 1 .. Len(Content') PROVE Content'[k] = Tail(Content)[k]
    OBVIOUS
  <2>2. /\ k \in 1 .. KBD_BUFFER_SIZE /\ k + 1 \in 1 .. KBD_BUFFER_SIZE /\ k \in Int
        /\ k + 1 \in 1 .. Len(Content)
    BY <1>4, Size
  <2> DEFINE a == Mod(kbd_tail' + k - 1)
             b == Mod(kbd_tail + (k + 1) - 1)
  <2>3. a = IF kbd_tail' + k - 1 < KBD_BUFFER_SIZE THEN kbd_tail' + k - 1
            ELSE (kbd_tail' + k - 1) - KBD_BUFFER_SIZE
    BY <1>1, <2>2, Positions
  <2>4. b = IF kbd_tail + (k + 1) - 1 < KBD_BUFFER_SIZE THEN kbd_tail + (k + 1) - 1
            ELSE (kbd_tail + (k + 1) - 1) - KBD_BUFFER_SIZE
    BY <2>2, Positions
  <2> HIDE DEF a, b
  <2>5. a = b
    BY <1>1, <2>2, <2>3, <2>4, Size
  <2>6. Content'[k] = keycache[a] /\ Tail(Content)[k] = Content[k + 1] /\ Content[k + 1] = keycache[b]
    BY <1>3, <1>4, <1>5, <2>1, <2>2 DEF a, b
  <2> QED BY <2>5, <2>6
<1>8. Content' = Tail(Content)
  BY <1>3, <1>4, <1>5, <1>7, SeqEqual
<1> QED BY <1>1, <1>5, <1>6, <1>8

-----------------------------------------------------------------------------
(* The handler *)

\* The tables hold 7-bit characters, and swapping case keeps them so.
LEMMA TranslateRange ==
  ASSUME NEW scancode \in 0 .. 127
  PROVE  Translate(scancode) \in Bytes
<1>1. /\ Len(scancode_ascii) = 58 /\ \A k \in 1 .. 58 : scancode_ascii[k] \in Bytes
  BY DEF scancode_ascii, Bytes
<1>2. \A k \in 1 .. 58 : scancode_ascii_shift[k] \in Bytes
  BY DEF scancode_ascii_shift, Bytes
<1>3. \A c \in Bytes : Swap_case(c) \in Bytes
  BY DEF Swap_case, Bytes
<1>4. 0 \in Bytes
  BY DEF Bytes
<1>5. scancode < 58 => scancode + 1 \in 1 .. 58
  OBVIOUS
<1> QED BY <1>1, <1>2, <1>3, <1>4, <1>5 DEF Translate


\* An interrupt leaves the buffer alone or pushes one character.
LEMMA HandlerPushes ==
  ASSUME IInv, irq1
  PROVE  /\ UNCHANGED buffer_vars \/ (registered /\ \E c \in Chars : kbd_buffer_push(c))
         /\ kbd_shift' \in {0, 1} /\ kbd_caps' \in {0, 1} /\ port' \in {Empty} \cup 0 .. 255
<1>1. port \in 0 .. 255 /\ kbd_shift \in {0, 1} /\ kbd_caps \in {0, 1}
  BY DEF IInv, irq1
<1>2. CASE ~ registered
  BY <1>1, <1>2 DEF irq1, shift_vars, buffer_vars
<1>3. CASE registered /\ port >= RELEASE
  BY <1>1, <1>3 DEF irq1, keyboard_handler, on_release
<1>4. CASE registered /\ ~ (port >= RELEASE)
  <2>1. port \in 0 .. 127 /\ port' = Empty /\ on_press(port)
    BY <1>1, <1>4 DEF irq1, keyboard_handler, RELEASE
  <2>2. CASE port \in SHIFT_KEYS
    BY <1>1, <2>1, <2>2 DEF on_press
  <2>3. CASE port \notin SHIFT_KEYS /\ port = CAPS_LOCK
    <3>1. kbd_caps' = 1 - kbd_caps /\ UNCHANGED <<kbd_shift, buffer_vars>>
      BY <2>1, <2>3 DEF on_press
    <3> QED BY <1>1, <2>1, <3>1
  <2>4. CASE port \notin SHIFT_KEYS /\ port # CAPS_LOCK
    <3>1. /\ IF Translate(port) = 0 THEN UNCHANGED buffer_vars ELSE kbd_buffer_push(Translate(port))
          /\ UNCHANGED shift_vars
      BY <2>1, <2>4 DEF on_press
    <3>2. Translate(port) # 0 => Translate(port) \in Chars
      <4>1. \A b \in Bytes : b # 0 => b \in Chars
        BY DEF Bytes, Chars
      <4> QED BY <2>1, <4>1, TranslateRange, Zenon
    <3> QED BY <1>1, <1>4, <2>1, <3>1, <3>2 DEF shift_vars
  <2> QED BY <2>2, <2>3, <2>4
<1> QED BY <1>2, <1>3, <1>4

\* A push that finds room, or no reader, leaves the reader what it counts on.
LEMMA PushIsHarmless ==
  ASSUME IInv, NEW c \in Chars, kbd_buffer_push(c), ~ (Reading /\ Full)
  PROVE  /\ keycache' \in [Indices -> Bytes] /\ kbd_head' \in Indices /\ kbd_tail' \in Indices
         /\ kbd_head' # kbd_tail' /\ Content' = Queue!Newest(Append(Content, c))
         /\ Reading => kbd_tail' = kbd_tail /\ keycache'[kbd_tail] = keycache[kbd_tail]
<1>1. c \in Bytes
  BY DEF Chars, Bytes
<1>2. keycache \in [Indices -> Bytes] /\ kbd_head \in Indices /\ kbd_tail \in Indices
  BY DEF IInv
<1>3. /\ keycache' \in [Indices -> Bytes] /\ kbd_head' \in Indices /\ kbd_tail' \in Indices
      /\ kbd_head' # kbd_tail' /\ Content' = Queue!Newest(Append(Content, c))
  BY <1>1, <1>2, PushAppends
<1>4. Reading => kbd_tail' = kbd_tail /\ keycache'[kbd_tail] = keycache[kbd_tail]
  BY <1>2 DEF IInv, kbd_buffer_push, Full
<1> QED BY <1>3, <1>4

-----------------------------------------------------------------------------
(* The invariant *)

LEMMA InitInv == Init => IInv
<1> SUFFICES ASSUME Init PROVE IInv
  OBVIOUS
<1>1. 0 \in Indices /\ 0 \in Bytes
  BY Size DEF Indices, Bytes
<1>2. keycache \in [Indices -> Bytes] /\ wire \in Seq(0 .. 255)
  BY <1>1 DEF Init
<1> QED BY <1>1, <1>2 DEF Init, IInv, Reading, Empty

LEMMA Irq1Inv ==
  ASSUME IInv, irq1, ~ PUSH_WHILE_READ
  PROVE  IInv'
<1>1. /\ kbd_shift' \in {0, 1} /\ kbd_caps' \in {0, 1} /\ port' \in {Empty} \cup 0 .. 255
      /\ UNCHANGED buffer_vars \/ (registered /\ \E c \in Chars : kbd_buffer_push(c))
  BY HandlerPushes
<1>2. /\ irq' = FALSE /\ UNCHANGED <<registered, reg, char, wire>>
      /\ pc' = IF pc = "asleep" THEN "load_head" ELSE pc
      /\ ~ (Reading /\ Full)
  BY DEF irq1, Wake
<1>3. CASE UNCHANGED buffer_vars
  BY <1>1, <1>2, <1>3 DEF IInv, Reading, buffer_vars
<1>4. CASE registered /\ \E c \in Chars : kbd_buffer_push(c)
  <2>1. /\ keycache' \in [Indices -> Bytes] /\ kbd_head' \in Indices /\ kbd_tail' \in Indices
        /\ kbd_head' # kbd_tail'
        /\ Reading => kbd_tail' = kbd_tail /\ keycache'[kbd_tail] = keycache[kbd_tail]
    BY <1>2, <1>4, PushIsHarmless
  <2> QED BY <1>1, <1>2, <1>4, <2>1 DEF IInv, Reading
<1> QED BY <1>1, <1>3, <1>4

LEMMA ReaderInv ==
  ASSUME IInv, Reader
  PROVE  IInv'
<1> USE DEF IInv, Reading, Not_reader, reader_step, buffer_vars, shift_vars, device_vars
<1>1. CASE keyboard_init
  <2>1. 0 \in Indices
    BY Size DEF Indices
  <2> QED BY <1>1, <2>1 DEF keyboard_init
<1>2. CASE register_interrupt_handler BY <1>2 DEF register_interrupt_handler
<1>3. CASE pic_clear_mask BY <1>3 DEF pic_clear_mask
<1>4. CASE load_head BY <1>4 DEF load_head
<1>5. CASE compare BY <1>5 DEF compare
<1>6. CASE hlt BY <1>6 DEF hlt
<1>7. CASE load_tail BY <1>7 DEF load_tail
<1>8. CASE read BY <1>8 DEF read
<1>9. CASE reload_tail BY <1>9 DEF reload_tail
<1>10. CASE store_tail
  <2>1. Next_index(reg) \in Indices
    BY <1>10, Positions DEF store_tail
  <2> QED BY <1>10, <2>1 DEF store_tail
<1>11. CASE key_returned BY <1>11 DEF key_returned
<1> QED BY <1>1, <1>2, <1>3, <1>4, <1>5, <1>6, <1>7, <1>8, <1>9, <1>10, <1>11 DEF Reader

LEMMA DeviceInv ==
  ASSUME IInv, irq0 \/ controller \/ (\E s \in Scancodes : Key(s)) \/ UNCHANGED vars
  PROVE  IInv'
<1> USE DEF Reading, buffer_vars, shift_vars, device_vars, reader_vars
<1>1. CASE irq0 BY <1>1 DEF irq0, Wake, IInv
<1>2. CASE controller
  <2>1. wire \in Seq(0 .. 255) /\ wire # <<>>
    BY <1>2 DEF controller, IInv
  <2>2. Head(wire) \in 0 .. 255 /\ Tail(wire) \in Seq(0 .. 255)
    BY <2>1, HeadTailProperties
  <2>3. port' \in 0 .. 255 /\ port' # Empty /\ wire' \in Seq(0 .. 255)
    <3>1. \A b \in 0 .. 255 : b # Empty
      BY DEF Empty
    <3>2. port' = Head(wire) /\ wire' = Tail(wire)
      BY <1>2 DEF controller
    <3> QED BY <2>2, <3>1, <3>2, Zenon
  <2> QED BY <1>2, <2>3 DEF controller, IInv
<1>3. CASE \E s \in Scancodes : Key(s)
  <2>1. PICK s \in Scancodes : Key(s)
    BY <1>3
  <2>2. wire' \in Seq(0 .. 255)
    BY <2>1, KeyboardConstants, AppendProperties DEF Key, IInv
  <2> QED BY <2>1, <2>2 DEF Key, IInv
<1>4. CASE UNCHANGED vars BY <1>4 DEF vars, IInv
<1> QED BY <1>1, <1>2, <1>3, <1>4

\* The reader's loaded index and character stay true to the buffer under the
\* handler (keyboard.c), and what it reads was not empty when it looked.
THEOREM Invariant ==
  ASSUME ~ PUSH_WHILE_READ
  PROVE  Spec => []IInv
<1>1. IInv /\ [Next]_vars => IInv'
  BY Irq1Inv, ReaderInv, DeviceInv DEF Next
<1> QED BY InitInv, <1>1, PTL DEF Spec

-----------------------------------------------------------------------------
(* The refinement *)

Bar == IF pc = "return" THEN Append(taken, char) ELSE taken

LEMMA StepRefines ==
  ASSUME IInv, [Next]_vars, ~ PUSH_WHILE_READ
  PROVE  [Queue!Push \/ Queue!Take]_<<Content, Bar>>
<1> USE DEF buffer_vars, Not_reader, reader_step, device_vars, reader_vars
<1>1. ASSUME UNCHANGED buffer_vars PROVE Content' = Content
  BY <1>1 DEF Content
<1>2. CASE irq1
  <2>1. Bar' = Bar
    BY <1>2 DEF irq1, Wake, Bar
  <2>2. CASE UNCHANGED buffer_vars
    BY <1>1, <2>1, <2>2
  <2>3. CASE \E c \in Chars : kbd_buffer_push(c)
    <3>1. \E c \in Chars : Content' = Queue!Newest(Append(Content, c))
      BY <1>2, <2>3, PushIsHarmless DEF irq1
    <3> QED BY <2>1, <3>1 DEF Queue!Push, Bar
  <2> QED BY <1>2, <2>2, <2>3, HandlerPushes
<1>3. CASE store_tail
  <2>1. /\ Content # <<>> /\ Content' = Tail(Content) /\ Head(Content) = keycache[kbd_tail]
    BY <1>3, TakeRemoves DEF store_tail, IInv, Reading
  <2>2. taken' = taken /\ char' = char /\ pc = "store_tail" /\ pc' = "return" /\ char = Head(Content)
    BY <1>3, <2>1 DEF store_tail, IInv
  <2>3. Bar' = Append(Bar, Head(Content))
    BY <2>2 DEF Bar
  <2> QED BY <2>1, <2>3 DEF Queue!Take, Bar
<1>4. CASE keyboard_init
  BY <1>1, <1>4 DEF keyboard_init, IInv, Bar
<1>5. CASE key_returned
  BY <1>1, <1>5 DEF key_returned, Bar
<1>6. CASE \/ register_interrupt_handler \/ pic_clear_mask \/ load_head \/ compare \/ hlt
           \/ load_tail \/ read \/ reload_tail
  <2>1. UNCHANGED buffer_vars /\ taken' = taken /\ pc # "return" /\ pc' # "return"
    BY <1>6 DEF register_interrupt_handler, pic_clear_mask, load_head, compare, hlt, load_tail,
                read, reload_tail
  <2> QED BY <1>1, <2>1 DEF Bar
<1>7. CASE irq0 \/ controller \/ (\E s \in Scancodes : Key(s)) \/ UNCHANGED vars
  <2>1. UNCHANGED buffer_vars /\ taken' = taken /\ char' = char
        /\ (pc' = "return" <=> pc = "return")
    BY <1>7 DEF irq0, Wake, controller, Key, vars
  <2> QED BY <1>1, <2>1 DEF Bar
<1> QED BY <1>2, <1>3, <1>4, <1>5, <1>6, <1>7 DEF Next, Reader

\* The ring of keyboard.c is the queue of KeyQueue, for every KBD_BUFFER_SIZE and
\* every keyboard, while no key arrives at a full buffer that is being read.
THEOREM RingIsQueue ==
  ASSUME ~ PUSH_WHILE_READ
  PROVE  Spec => IsQueue
<1>1. Init => Queue!Init
  <2>1. ASSUME Init PROVE Content = <<>> /\ Bar = <<>>
    <3>1. /\ Content \in Seq(Bytes) /\ Len(Content) = Mod(kbd_head - kbd_tail)
          /\ kbd_head = 0 /\ kbd_tail = 0 /\ 0 \in Indices
      BY <2>1, InitInv, ContentFacts, Size DEF Init, IInv, Indices
    <3>2. Mod(kbd_head - kbd_tail) = IF kbd_head >= kbd_tail THEN kbd_head - kbd_tail
                                     ELSE kbd_head - kbd_tail + KBD_BUFFER_SIZE
      BY <3>1, Positions
    <3>3. Len(Content) = 0
      BY <3>1, <3>2
    <3> QED BY <2>1, <3>1, <3>3, EmptySeq DEF Init, Bar
  <2> QED BY <2>1 DEF Queue!Init, Bar
<1>2. IInv /\ [Next]_vars => [Queue!Push \/ Queue!Take]_<<Content, Bar>>
  BY StepRefines
<1> QED BY <1>1, <1>2, Invariant, PTL DEF Spec, IsQueue, Queue!Spec, Bar

=============================================================================
