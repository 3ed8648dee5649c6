------------------------------ MODULE Keyboard ------------------------------
(***************************************************************************)
(* The keyboard driver, kernel/drivers/keyboard.c, and the loop of         *)
(* kernel.c that reads from it: the interrupt handler translates scancodes *)
(* and pushes characters into a ring buffer while keyboard_get_key, with   *)
(* interrupts on, takes them out.  The handler runs to its end; the reader *)
(* is one step per access to the shared indices, as compiled without       *)
(* optimisation.                                                           *)
(*                                                                         *)
(* The keyboard and its controller are external: the controller holds one  *)
(* scancode until port 0x60 is read, and raises IRQ1 when it gets one.     *)
(***************************************************************************)
EXTENDS Integers, Sequences

CONSTANTS
  KBD_BUFFER_SIZE,  \* slots of the ring, a power of 2
  Scancodes,        \* what the user's keys send
  MaxKeys,          \* bound: scancodes sent in all
  PUSH_WHILE_READ   \* may a key arrive at a full buffer while it is read?

ASSUME KeyboardConstants ==
  /\ KBD_BUFFER_SIZE \in Nat /\ KBD_BUFFER_SIZE > 1
  /\ Scancodes \subseteq 0 .. 255 /\ MaxKeys \in Nat
  /\ PUSH_WHILE_READ \in BOOLEAN

VARIABLES
  keycache, kbd_head, kbd_tail, kbd_shift, kbd_caps,
  registered,       \* is keyboard_handler the handler of vector 33?
  masked,           \* is IRQ1 masked in the interrupt controller?
  pc, reg, char,    \* the reader: where it is, a loaded index, the character
  taken,            \* characters keyboard_get_key has returned
  sent,             \* scancodes the user's keys have sent, in number
  held,             \* shift keys the user holds down
  wire,             \* scancodes on their way to the controller
  port,             \* the controller's output, or Empty
  irq               \* is IRQ1 requested?

buffer_vars == <<keycache, kbd_head, kbd_tail>>
shift_vars == <<kbd_shift, kbd_caps>>
reader_vars == <<pc, reg, char, taken>>
device_vars == <<sent, held, wire, port, irq>>
vars == <<buffer_vars, shift_vars, registered, masked, reader_vars, device_vars>>

Indices == 0 .. KBD_BUFFER_SIZE - 1
Empty == -1
ESC == 27
SHIFT_KEYS == {42, 54}
CAPS_LOCK == 58
RELEASE == 128

scancode_ascii ==
  <<0, 27, 49, 50, 51, 52, 53, 54, 55, 56, 57, 48, 45, 61, 8,
    9, 113, 119, 101, 114, 116, 122, 117, 105, 111, 112, 91, 93, 10,
    0, 97, 115, 100, 102, 103, 104, 106, 107, 108, 59, 39, 96,
    0, 92, 121, 120, 99, 118, 98, 110, 109, 44, 46, 47, 0,
    42, 0, 32>>
scancode_ascii_shift ==
  <<0, 27, 33, 64, 35, 36, 37, 94, 38, 42, 40, 41, 95, 43, 8,
    9, 81, 87, 69, 82, 84, 90, 85, 73, 79, 80, 123, 125, 10,
    0, 65, 83, 68, 70, 71, 72, 74, 75, 76, 58, 34, 126,
    0, 124, 89, 88, 67, 86, 66, 78, 77, 60, 62, 63, 0,
    42, 0, 32>>

Chars == 1 .. 127

Init ==
  /\ keycache = [i \in Indices |-> 0] /\ kbd_head = 0 /\ kbd_tail = 0
  /\ kbd_shift = 0 /\ kbd_caps = 0
  /\ registered = FALSE /\ masked \in BOOLEAN
  /\ pc = "init" /\ reg = 0 /\ char = 0 /\ taken = <<>>
  /\ sent = 0 /\ held = {} /\ wire = <<>> /\ port = Empty /\ irq = FALSE

-----------------------------------------------------------------------------
(* The interrupt handler *)

Next_index(i) == (i + 1) % KBD_BUFFER_SIZE

\* Mutant: the tail does not make room in a full buffer.
kbd_buffer_push_NoRoom(c) ==
  /\ keycache' = [keycache EXCEPT ![kbd_head] = c]
  /\ kbd_head' = Next_index(kbd_head)
  /\ UNCHANGED kbd_tail

kbd_buffer_push(c) ==
  /\ keycache' = [keycache EXCEPT ![kbd_head] = c]
  /\ kbd_head' = Next_index(kbd_head)
  /\ kbd_tail' = IF Next_index(kbd_head) = kbd_tail THEN Next_index(kbd_tail) ELSE kbd_tail

Swap_case(c) ==
  IF c \in 97 .. 122 THEN c - 32 ELSE IF c \in 65 .. 90 THEN c + 32 ELSE c

\* The character of a scancode under the current shift and caps lock, 0 if none.
Translate(scancode) ==
  LET key == IF scancode >= Len(scancode_ascii) THEN 0
             ELSE IF kbd_shift = 1 THEN scancode_ascii_shift[scancode + 1]
             ELSE scancode_ascii[scancode + 1]
  IN  IF kbd_caps = 1 THEN Swap_case(key) ELSE key

on_release(scancode) ==
  /\ kbd_shift' = IF scancode - RELEASE \in SHIFT_KEYS THEN 0 ELSE kbd_shift
  /\ UNCHANGED <<kbd_caps, buffer_vars>>

on_press(scancode) ==
  CASE scancode \in SHIFT_KEYS -> kbd_shift' = 1 /\ UNCHANGED <<kbd_caps, buffer_vars>>
    [] scancode = CAPS_LOCK -> kbd_caps' = 1 - kbd_caps /\ UNCHANGED <<kbd_shift, buffer_vars>>
    [] OTHER -> /\ IF Translate(scancode) = 0 THEN UNCHANGED buffer_vars
                   ELSE kbd_buffer_push(Translate(scancode))
                /\ UNCHANGED shift_vars

\* Mutant: the handler leaves the scancode in the controller.
keyboard_handler_NoRead ==
  /\ UNCHANGED port
  /\ IF port >= RELEASE THEN on_release(port) ELSE on_press(port)

\* The handler reads the port, which frees the controller, and acts on it.
keyboard_handler ==
  /\ port' = Empty
  /\ IF port >= RELEASE THEN on_release(port) ELSE on_press(port)

\* Any interrupt ends the hlt of a reader that sleeps.
Wake == pc' = IF pc = "asleep" THEN "load_head" ELSE pc

\* The buffer is full and the reader is inside keyboard_get_key's accesses.
Reading == pc \in {"load_tail", "read", "reload_tail", "store_tail"}
Full == Next_index(kbd_head) = kbd_tail

\* IRQ1: irq_handler calls the registered handler, if there is one.
irq1 ==
  /\ irq /\ ~ masked
  /\ PUSH_WHILE_READ \/ ~ (Reading /\ Full)
  /\ irq' = FALSE
  /\ IF registered THEN keyboard_handler ELSE UNCHANGED <<port, shift_vars, buffer_vars>>
  /\ Wake
  /\ UNCHANGED <<registered, masked, reg, char, taken, sent, held, wire>>

\* IRQ0, which the firmware left running, has no handler yet but ends a hlt.
irq0 ==
  /\ Wake
  /\ UNCHANGED <<buffer_vars, shift_vars, registered, masked, reg, char, taken, device_vars>>

-----------------------------------------------------------------------------
(* The reader: keyboard_kernel *)

reader_step(from, to) == pc = from /\ pc' = to
Not_reader == <<shift_vars, registered, masked, device_vars>>

\* keyboard_init runs with interrupts on; the firmware may have left IRQ1 open.
keyboard_init ==
  /\ reader_step("init", "register")
  /\ kbd_head' = 0 /\ kbd_tail' = 0 /\ kbd_caps' = 0 /\ kbd_shift' = 0
  /\ UNCHANGED <<keycache, registered, masked, reg, char, taken, device_vars>>
register_interrupt_handler ==
  /\ reader_step("register", "clear_mask")
  /\ registered' = TRUE
  /\ UNCHANGED <<buffer_vars, shift_vars, masked, reg, char, taken, device_vars>>
pic_clear_mask ==
  /\ reader_step("clear_mask", "load_head")
  /\ masked' = FALSE
  /\ UNCHANGED <<buffer_vars, shift_vars, registered, reg, char, taken, device_vars>>

\* while (kbd_head == kbd_tail) hlt
load_head ==
  /\ reader_step("load_head", "compare")
  /\ reg' = kbd_head
  /\ UNCHANGED <<buffer_vars, char, taken, Not_reader>>
compare ==
  /\ reader_step("compare", IF reg = kbd_tail THEN "hlt" ELSE "load_tail")
  /\ UNCHANGED <<buffer_vars, reg, char, taken, Not_reader>>
hlt ==
  /\ reader_step("hlt", "asleep")
  /\ UNCHANGED <<buffer_vars, reg, char, taken, Not_reader>>

\* char character = keycache[kbd_tail]
load_tail ==
  /\ reader_step("load_tail", "read")
  /\ reg' = kbd_tail
  /\ UNCHANGED <<buffer_vars, char, taken, Not_reader>>
read ==
  /\ reader_step("read", "reload_tail")
  /\ char' = keycache[reg]
  /\ UNCHANGED <<buffer_vars, reg, taken, Not_reader>>

\* kbd_tail = (kbd_tail + 1) & (KBD_BUFFER_SIZE - 1)
reload_tail ==
  /\ reader_step("reload_tail", "store_tail")
  /\ reg' = kbd_tail
  /\ UNCHANGED <<buffer_vars, char, taken, Not_reader>>
store_tail ==
  /\ reader_step("store_tail", "return")
  /\ kbd_tail' = Next_index(reg)
  /\ UNCHANGED <<keycache, kbd_head, reg, char, taken, Not_reader>>

\* keyboard_kernel prints the character and reads on until escape.
key_returned ==
  /\ reader_step("return", IF char = ESC THEN "done" ELSE "load_head")
  /\ taken' = Append(taken, char)
  /\ UNCHANGED <<buffer_vars, reg, char, Not_reader>>

Reader ==
  \/ keyboard_init \/ register_interrupt_handler \/ pic_clear_mask \/ load_head \/ compare \/ hlt \/ load_tail \/ read
  \/ reload_tail \/ store_tail \/ key_returned

-----------------------------------------------------------------------------
(* The keyboard and its controller *)

\* A key goes down or comes up; a shift key only when it was up or down.
Key(scancode) ==
  /\ sent < MaxKeys /\ sent' = sent + 1
  /\ scancode - RELEASE \in SHIFT_KEYS => scancode - RELEASE \in held
  /\ scancode \notin held
  /\ held' = (held \cup ({scancode} \cap SHIFT_KEYS)) \ {scancode - RELEASE}
  /\ wire' = Append(wire, scancode)
  /\ UNCHANGED <<buffer_vars, shift_vars, registered, masked, reader_vars, port, irq>>

\* The controller takes the next scancode once its output has been read.
controller ==
  /\ port = Empty /\ wire # <<>>
  /\ port' = Head(wire) /\ wire' = Tail(wire) /\ irq' = TRUE
  /\ UNCHANGED <<buffer_vars, shift_vars, registered, masked, reader_vars, sent, held>>

Next == irq1 \/ irq0 \/ Reader \/ controller \/ \E s \in Scancodes : Key(s)

Spec == Init /\ [][Next]_vars

\* Interrupts are taken, the controller passes scancodes on, the timer keeps
\* ticking and the reader, alone on the CPU, goes on.
Fairness == WF_vars(irq1) /\ WF_vars(controller) /\ WF_vars(irq0) /\ WF_vars(Reader)
FairSpec == Spec /\ Fairness

-----------------------------------------------------------------------------
(* Properties *)

\* The characters between tail and head, oldest first.
Content == [k \in 1 .. (kbd_head - kbd_tail) % KBD_BUFFER_SIZE |->
              keycache[(kbd_tail + k - 1) % KBD_BUFFER_SIZE]]

Queue == INSTANCE KeyQueue WITH
  Capacity <- KBD_BUFFER_SIZE - 1,
  queue <- Content,
  taken <- IF pc = "return" THEN Append(taken, char) ELSE taken

\* The ring with its interrupting writer and its reader is a queue that keeps
\* the newest characters and returns each of them once, in order: a push is one
\* step of the handler, a take is keyboard_get_key's store to kbd_tail.
IsQueue == Queue!Spec

\* No key is hit while IRQ1 is open and has no handler.  irq_handler would
\* acknowledge it without reading the port, and the controller, still full,
\* would raise nothing more.
Heard == [](~ registered /\ ~ masked => sent = 0)

\* "wait until a key gets typed" (keyboard.c): everything the keys send is read
\* off the controller and out of the buffer, keys that wait behind the firmware's
\* mask included, although the wake-up of a key that comes between the test and
\* the hlt is lost.
Pending == wire # <<>> \/ port # Empty \/ kbd_head # kbd_tail
KeysGetRead == Heard => (Pending ~> (~ Pending \/ pc = "done"))

\* "discard the oldest character" (keyboard.c): a push at a full buffer costs
\* one character, so what was pushed and not returned stays, up to the ring's
\* capacity.  Stated for keys that each push one character.
Pushed == sent - Len(wire) - (IF port = Empty THEN 0 ELSE 1)
OverflowCostsOne ==
  pc = "load_head" =>
    Len(Content) >= (IF Pushed < KBD_BUFFER_SIZE THEN Pushed ELSE KBD_BUFFER_SIZE - 1)
                      - Len(taken)

=============================================================================
