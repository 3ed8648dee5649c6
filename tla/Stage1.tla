------------------------------- MODULE Stage1 -------------------------------
(***************************************************************************)
(* The boot sector (Doomboot/src/stage1.asm): it turns on the A20 line by  *)
(* one of three methods, testing after each, and reads the second stage    *)
(* from the disk.                                                          *)
(*                                                                         *)
(* Interrupts are off, but the keyboard controller works at its own pace:  *)
(* it takes a command some time after it was written, and the line it      *)
(* switches may settle later still, in the middle of a test.               *)
(***************************************************************************)
EXTENDS Integers, Sequences

CONSTANTS
  BOOT_DRIVE,     \* what the firmware leaves in dl
  OUTPUT_PORT,    \* the controller's output port at boot, A20 (bit 1) off
  Waiting,        \* key codes that may be in the controller's buffer at boot
  Methods         \* sets of the methods that switch the line on some machine

ASSUME Stage1Constants ==
  /\ BOOT_DRIVE \in 1 .. 254
  /\ OUTPUT_PORT \in 0 .. 255 /\ OUTPUT_PORT % 2 = 1 /\ (OUTPUT_PORT \div 2) % 2 = 0
  /\ Waiting \subseteq 0 .. 255
  /\ Methods \subseteq SUBSET {"default", "bios", "keyboard", "fast"}

VARIABLES
  pc1,            \* the next step of stage 1
  tried,          \* how many methods have been tried
  works,          \* the methods that switch the line on this machine
  on,             \* the methods that have been used
  low, high,      \* the bytes at 0000:0500 and FFFF:0510
  kept,           \* the two bytes check_a20 has pushed
  bx, al,
  kbc             \* the keyboard controller

vars1 == <<pc1, tried, works, on, low, high, kept, bx, al, kbc>>

a20 == on \cap works # {}

NoByte == -1
\* command: what the CPU wrote, not yet taken; buffer: what the CPU may read.
Controller(byte) ==
  [command |-> NoByte, isData |-> FALSE, buffer |-> byte, expects |-> FALSE,
   port |-> OUTPUT_PORT, settling |-> {}, had |-> byte]

Init1 ==
  /\ pc1 = "save low" /\ tried = 0
  /\ works \in Methods /\ on = {"default"}
  /\ low = BOOT_DRIVE /\ high = 85
  /\ kept = <<>> /\ bx = 0 /\ al = 0
  /\ \E byte \in Waiting \cup {NoByte} : kbc = Controller(byte)

-----------------------------------------------------------------------------
(* check_a20 *)

\* Below, an access through FFFF:0510 reaches the low byte while A20 is off.
ReadHigh == IF a20 THEN high ELSE low
WriteHigh(byte) ==
  IF a20 THEN high' = byte /\ UNCHANGED low ELSE low' = byte /\ UNCHANGED high

save_low ==
  /\ pc1 = "save low" /\ pc1' = "save high"
  /\ kept' = <<low>>
  /\ UNCHANGED <<tried, works, on, low, high, bx, al, kbc>>
save_high ==
  /\ pc1 = "save high" /\ pc1' = "clear low"
  /\ kept' = Append(kept, ReadHigh)
  /\ UNCHANGED <<tried, works, on, low, high, bx, al, kbc>>
clear_low ==
  /\ pc1 = "clear low" /\ pc1' = "set high"
  /\ low' = 0
  /\ UNCHANGED <<tried, works, on, high, kept, bx, al, kbc>>
set_high ==
  /\ pc1 = "set high" /\ pc1' = "compare"
  /\ WriteHigh(255)
  /\ UNCHANGED <<tried, works, on, kept, bx, al, kbc>>
\* Mutant: the comparison is the wrong way round.
compare_Not ==
  /\ pc1 = "compare" /\ pc1' = "restore high"
  /\ bx' = IF low = 255 THEN 1 ELSE 0
  /\ UNCHANGED <<tried, works, on, low, high, kept, al, kbc>>
compare ==
  /\ pc1 = "compare" /\ pc1' = "restore high"
  /\ bx' = IF low = 255 THEN 0 ELSE 1
  /\ UNCHANGED <<tried, works, on, low, high, kept, al, kbc>>
restore_high ==
  /\ pc1 = "restore high" /\ pc1' = "restore low"
  /\ WriteHigh(kept[2])
  /\ UNCHANGED <<tried, works, on, kept, bx, al, kbc>>

\* The methods in the order the label a20 tries them.
NextMethod == <<"bios supported", "keyboard off", "fast", "a20_completely_failed">>[tried + 1]
AfterCheck == IF bx # 0 THEN "a20_enabled" ELSE NextMethod
\* Mutant: the byte popped last is not written back.
restore_low_Not ==
  /\ pc1 = "restore low" /\ pc1' = AfterCheck
  /\ kept' = <<>>
  /\ tried' = IF bx # 0 THEN tried ELSE tried + 1
  /\ UNCHANGED <<works, on, low, high, bx, al, kbc>>
restore_low ==
  /\ pc1 = "restore low" /\ pc1' = AfterCheck
  /\ low' = kept[1] /\ kept' = <<>>
  /\ tried' = IF bx # 0 THEN tried ELSE tried + 1
  /\ UNCHANGED <<works, on, high, bx, al, kbc>>

-----------------------------------------------------------------------------
(* The three methods; each ends in another check_a20 *)

\* int 0x15 may fail, say the line is on already, or switch it.
enable_a20_bios ==
  /\ \/ pc1 = "bios supported" /\ pc1' \in {"save low", "bios status"} /\ UNCHANGED on
     \/ pc1 = "bios status" /\ pc1' \in {"save low", "bios enable"} /\ UNCHANGED on
     \/ pc1 = "bios enable" /\ pc1' = "save low" /\ on' \in {on, on \cup {"bios"}}
  /\ UNCHANGED <<tried, works, low, high, kept, bx, al, kbc>>

\* a20wait, then a byte to the command port 0x64 or the data port 0x60.
Send(here, byte, isData, next) ==
  /\ pc1 = here /\ kbc.command = NoByte
  /\ kbc' = [kbc EXCEPT !.command = byte, !.isData = isData]
  /\ pc1' = next
  /\ UNCHANGED <<tried, works, on, low, high, kept, bx, al>>

\* a20wait2 and the read.
\* Mutant: no wait, so the answer may not be there yet.
read_output_port_NoWait ==
  /\ pc1 = "read port" /\ pc1' = "write port"
  /\ al' = IF kbc.buffer = NoByte THEN 0 ELSE kbc.buffer
  /\ kbc' = [kbc EXCEPT !.buffer = NoByte]
  /\ UNCHANGED <<tried, works, on, low, high, kept, bx>>
read_output_port ==
  /\ pc1 = "read port" /\ pc1' = "write port"
  /\ kbc.buffer # NoByte
  /\ al' = kbc.buffer
  /\ kbc' = [kbc EXCEPT !.buffer = NoByte]
  /\ UNCHANGED <<tried, works, on, low, high, kept, bx>>

WithBit1(byte) == IF (byte \div 2) % 2 = 1 THEN byte ELSE byte + 2

\* Mutant: the answer is waited for without having been asked for.
enable_a20_keyboard_NotAsked ==
  \/ Send("keyboard off", 173, FALSE, "read port")
  \/ read_output_port
  \/ Send("write port", 209, FALSE, "new value")
  \/ Send("new value", WithBit1(al), TRUE, "keyboard on")
  \/ Send("keyboard on", 174, FALSE, "cleanup")
  \/ /\ pc1 = "cleanup" /\ kbc.command = NoByte /\ pc1' = "save low"
     /\ UNCHANGED <<tried, works, on, low, high, kept, bx, al, kbc>>
\* Commands 0xAD, 0xD0, 0xD1 with its byte, and 0xAE.
enable_a20_keyboard ==
  \/ Send("keyboard off", 173, FALSE, "ask port")
  \/ Send("ask port", 208, FALSE, "read port")
  \/ read_output_port
  \/ Send("write port", 209, FALSE, "new value")
  \/ Send("new value", WithBit1(al), TRUE, "keyboard on")
  \/ Send("keyboard on", 174, FALSE, "cleanup")
  \/ /\ pc1 = "cleanup" /\ kbc.command = NoByte /\ pc1' = "save low"
     /\ UNCHANGED <<tried, works, on, low, high, kept, bx, al, kbc>>

\* Port 0x92: bit 1 is set unless it is set already.  The line may follow late;
\* the code tests it a single time.
enable_a20_fast ==
  /\ pc1 = "fast" /\ pc1' = "save low"
  /\ kbc' = [kbc EXCEPT !.settling = @ \cup {"fast"}]
  /\ UNCHANGED <<tried, works, on, low, high, kept, bx, al>>

\* The message is printed, which leaves al at its final 0; then the second stage
\* is read, or the disk reports an error.
a20_enabled ==
  /\ pc1 = "a20_enabled" /\ pc1' \in {"stage2", "disk_error"}
  /\ al' = 0
  /\ UNCHANGED <<tried, works, on, low, high, kept, bx, kbc>>

-----------------------------------------------------------------------------
(* The keyboard controller *)

\* It takes what was written.  A data byte goes to the output port: bit 1 then
\* reaches the A20 line, and bit 0 cleared resets the machine.
controller ==
  /\ kbc.command # NoByte /\ pc1 # "reset"
  /\ LET k == [kbc EXCEPT !.command = NoByte]
     IN  kbc' = CASE kbc.isData /\ kbc.expects ->
                       [k EXCEPT !.port = kbc.command, !.expects = FALSE, !.settling = @ \cup {"keyboard"}]
                  [] kbc.command = 208 -> [k EXCEPT !.buffer = kbc.port]
                  [] kbc.command = 209 -> [k EXCEPT !.expects = TRUE]
                  [] OTHER -> k
  /\ pc1' = IF kbc.isData /\ kbc.command % 2 = 0 THEN "reset" ELSE pc1
  /\ UNCHANGED <<tried, works, on, low, high, kept, bx, al>>
\* A line that a method has switched follows some time later.
settle ==
  /\ pc1 # "reset"
  /\ \E method \in kbc.settling :
       /\ kbc' = [kbc EXCEPT !.settling = @ \ {method}]
       /\ on' = on \cup {method}
  /\ UNCHANGED <<pc1, tried, works, low, high, kept, bx, al>>

check_a20 ==
  save_low \/ save_high \/ clear_low \/ set_high \/ compare \/ restore_high \/ restore_low
cpu1 == check_a20 \/ enable_a20_bios \/ enable_a20_keyboard \/ enable_a20_fast \/ a20_enabled
Next1 == cpu1 \/ controller \/ settle

Ended1 == pc1 \in {"stage2", "disk_error", "a20_completely_failed", "reset"}

-----------------------------------------------------------------------------
(* Properties *)

\* "it will be 0xFF if a20 is disabled (because it wraps around)" (check_a20):
\* the second stage, which uses memory above 1 MB, is entered only with the
\* line on, though the line may change in the middle of the test.
Stage2HasA20 == pc1 \in {"a20_enabled", "stage2"} => a20

\* "we can set bit 1 to 1 with Oring while leaving everything untouched"
\* (enable_a20_keyboard): the controller's output port, whose bit 0 resets the
\* machine, changes in bit 1 alone, unless a key code was waiting to be read.
OutputPortKept ==
  kbc.had = NoByte => kbc.port \in {OUTPUT_PORT, OUTPUT_PORT + 2} /\ pc1 # "reset"

=============================================================================
