---------------------------- MODULE FrameSender ----------------------------
(***************************************************************************)
(* What asic/src/uart_tx.v promises in its first lines: 8N1 frames, the    *)
(* least significant bit first, one frame for each byte taken while idle,  *)
(* Divisor clock cycles for each bit, and a line that idles high.          *)
(***************************************************************************)
EXTENDS Integers

CONSTANTS Divisor,  \* clock cycles per bit
          Bytes     \* the bytes that may be offered, functions from 0..7

VARIABLES tx,       \* the level of the line
          sending,  \* whether a frame is on the line
          byte,     \* the byte of the frame, or of the last one
          bit,      \* which of its ten bits is on the line, 0 the start bit
          cycle     \* for how many cycles it has been there

vars == <<tx, sending, byte, bit, cycle>>

Level(b, k) ==
  IF k = 0 THEN 0 ELSE IF k = 9 THEN 1 ELSE b[k - 1]

Init == /\ tx = 1
        /\ sending = FALSE
        /\ byte \in Bytes
        /\ bit = 9
        /\ cycle = Divisor - 1

Take == /\ ~sending
        /\ sending' = TRUE
        /\ byte' \in Bytes
        /\ bit' = 0
        /\ cycle' = 0
        /\ tx' = Level(byte', 0)

Hold == /\ sending
        /\ cycle < Divisor - 1
        /\ cycle' = cycle + 1
        /\ tx' = Level(byte, bit)
        /\ UNCHANGED <<sending, byte, bit>>

NextBit == /\ sending
           /\ cycle = Divisor - 1
           /\ bit < 9
           /\ bit' = bit + 1
           /\ cycle' = 0
           /\ tx' = Level(byte, bit + 1)
           /\ UNCHANGED <<sending, byte>>

End == /\ sending
       /\ cycle = Divisor - 1
       /\ bit = 9
       /\ sending' = FALSE
       /\ tx' = 1
       /\ UNCHANGED <<byte, bit, cycle>>

\* The reset of the chip ends a frame anywhere.
Abort == /\ sending' = FALSE
         /\ tx' = 1
         /\ bit' = 9
         /\ cycle' = Divisor - 1
         /\ UNCHANGED byte

Next == Take \/ Hold \/ NextBit \/ End \/ Abort

Spec == Init /\ [][Next]_vars
============================================================================
