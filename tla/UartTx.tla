------------------------------- MODULE UartTx -------------------------------
(***************************************************************************)
(* The transmitter of the chip (asic/src/uart_tx.v) as project.v wires it, *)
(* one step for each clock edge, and the receiver of its test bench        *)
(* (asic/test/test.py, rx_frame), which looks at the line at each edge.    *)
(*                                                                         *)
(* The inputs of an edge are chosen in the step: the reset, the send pin   *)
(* and the byte on ui_in, which may all change from edge to edge. A byte   *)
(* is a function from 0..7 to levels, bit 0 the least significant.         *)
(***************************************************************************)
EXTENDS Integers

CONSTANTS Divisor,      \* DIVISOR, the clock cycles per bit
          CounterSize,  \* 2^$clog2(DIVISOR), how many values baud_cnt has
          Bytes         \* the bytes offered on ui_in

\* With a divisor of 1 $clog2 would leave the counter no bit.
ASSUME DivisorAssumption == /\ Divisor \in Nat
                            /\ Divisor >= 2
                            /\ CounterSize \in Nat
                            /\ CounterSize >= Divisor
ASSUME BytesAssumption == /\ Bytes # {}
                          /\ Bytes \subseteq [0..7 -> {0, 1}]

VARIABLES baud_cnt, bit_idx, shifter, active, \* the registers of uart_tx
          taken,  \* history: the byte of the frame, or of the last one
          rx,     \* the receiver: what it samples next, 0 the start bit, 9 the
                  \* stop bit, Idle between frames; after how many edges; and
                  \* the byte as read so far
          synced  \* history: no frame was cut by a reset while the receiver read

tx_vars == <<baud_cnt, bit_idx, shifter, active, taken>>
vars == <<baud_cnt, bit_idx, shifter, active, taken, rx, synced>>

Idle == 10
Levels == {0, 1}
Receivers == [next : 0..Idle, left : 0..Divisor, byte : [0..7 -> Levels]]

----------------------------------------------------------------------------
\* The outputs, which are functions of the registers.

busy == active
tx == IF active THEN shifter[0] ELSE 1

\* Mutant: the most significant bit first.
FrameReversed(data) ==
  [i \in 0..9 |-> IF i = 0 THEN 0 ELSE IF i = 9 THEN 1 ELSE data[8 - i]]

\* {1'b1, data, 1'b0}
FrameOf(data) ==
  [i \in 0..9 |-> IF i = 0 THEN 0 ELSE IF i = 9 THEN 1 ELSE data[i - 1]]

\* {1'b1, shifter[9:1]}
Shifted == [i \in 0..9 |-> IF i = 9 THEN 1 ELSE shifter[i + 1]]

\* Mutant: a counter that is one bit too narrow.
ReloadNarrow == (Divisor - 1) % (CounterSize \div 2)

Reload == (Divisor - 1) % CounterSize

----------------------------------------------------------------------------
\* One clock edge of the transmitter.

Reset == /\ active' = FALSE
         /\ baud_cnt' = 0
         /\ bit_idx' = 0
         /\ shifter' = [i \in 0..9 |-> 1]
         /\ UNCHANGED taken

Load(data) == /\ ~active
              /\ shifter' = FrameOf(data)
              /\ bit_idx' = 9
              /\ baud_cnt' = Reload
              /\ active' = TRUE
              /\ taken' = data

Rest == ~active /\ UNCHANGED tx_vars

Count == /\ active
         /\ baud_cnt # 0
         /\ baud_cnt' = baud_cnt - 1
         /\ UNCHANGED <<bit_idx, shifter, active, taken>>

\* Mutant: the stop bit is left to the idle line.
EndWithoutStop == /\ active
                  /\ baud_cnt = 0
                  /\ bit_idx = 1
                  /\ active' = FALSE
                  /\ UNCHANGED <<baud_cnt, bit_idx, shifter, taken>>

EndFrame == /\ active
            /\ baud_cnt = 0
            /\ bit_idx = 0
            /\ active' = FALSE
            /\ UNCHANGED <<baud_cnt, bit_idx, shifter, taken>>

\* Mutant: the test for the last bit is dropped, and bit_idx wraps.
ShiftOn == /\ active
           /\ baud_cnt = 0
           /\ shifter' = Shifted
           /\ bit_idx' = (bit_idx - 1) % 16
           /\ baud_cnt' = Reload
           /\ UNCHANGED <<active, taken>>

Shift == /\ active
         /\ baud_cnt = 0
         /\ bit_idx # 0
         /\ shifter' = Shifted
         /\ bit_idx' = (bit_idx - 1) % 16
         /\ baud_cnt' = Reload
         /\ UNCHANGED <<active, taken>>

\* project.v offers a byte only while the transmitter is not busy.
Run == \/ \E send \in BOOLEAN, data \in Bytes :
             IF send /\ ~busy THEN Load(data) ELSE Rest
       \/ Count
       \/ EndFrame
       \/ Shift

----------------------------------------------------------------------------
\* One clock edge of the receiver: it sees the line as it was before the edge.

StartSeen == /\ rx.next = Idle
             /\ tx = 0
             /\ rx' = [rx EXCEPT !.next = 0, !.left = Divisor \div 2]

NoStart == /\ rx.next = Idle
           /\ tx = 1
           /\ UNCHANGED rx

Waits == /\ rx.next # Idle
         /\ rx.left > 1
         /\ rx' = [rx EXCEPT !.left = @ - 1]

SampleStart == /\ rx.next = 0
               /\ rx.left = 1
               /\ rx' = [rx EXCEPT !.next = 1, !.left = Divisor]

SampleBit == /\ rx.next \in 1..8
             /\ rx.left = 1
             /\ rx' = [next |-> rx.next + 1, left |-> Divisor,
                       byte |-> [rx.byte EXCEPT ![rx.next - 1] = tx]]

SampleStop == /\ rx.next = 9
              /\ rx.left = 1
              /\ rx' = [rx EXCEPT !.next = Idle, !.left = 0]

Receive == \/ StartSeen \/ NoStart \/ Waits
           \/ SampleStart \/ SampleBit \/ SampleStop

----------------------------------------------------------------------------
Init == /\ baud_cnt = 0
        /\ bit_idx = 0
        /\ shifter = [i \in 0..9 |-> 1]
        /\ active = FALSE
        /\ taken \in Bytes
        /\ rx = [next |-> Idle, left |-> 0, byte |-> [i \in 0..7 |-> 0]]
        /\ synced = TRUE

\* A reset while the receiver reads leaves it in the middle of nothing; it is
\* in step again once both rest.
EdgeInReset == /\ Reset
               /\ Receive
               /\ synced' = (~active /\ rx.next = Idle /\ synced)

EdgeRunning == /\ Run
               /\ Receive
               /\ synced' = (synced \/ (~active /\ rx.next = Idle))

Edge == EdgeInReset \/ EdgeRunning

Next == Edge

Spec == Init /\ [][Next]_vars

\* The clock runs.
FairSpec == Spec /\ WF_vars(Edge)
----------------------------------------------------------------------------
\* The registers stay in their widths, and the counters in what a frame needs.
TypeOK == /\ baud_cnt \in 0..(Divisor - 1)
          /\ bit_idx \in 0..9
          /\ shifter \in [0..9 -> Levels]
          /\ active \in BOOLEAN
          /\ taken \in Bytes
          /\ rx \in Receivers
          /\ rx.next # Idle => rx.left >= 1
          /\ synced \in BOOLEAN

\* What rx_frame asserts: at the centre of the start bit the line is low, at
\* the centre of the stop bit it is high, and then the byte is the one that was
\* on ui_in when the transmitter took it.
ReadsTheByte ==
  synced /\ rx.left = 1 =>
    /\ rx.next = 0 => tx = 0
    /\ rx.next = 9 => tx = 1 /\ rx.byte = taken

\* A frame that no reset cuts has been read when the transmitter ends it, so a
\* byte that is taken at the next edge begins with the receiver waiting for it.
EveryFrameRead ==
  [][active /\ ~active' /\ synced' => rx'.next = Idle /\ rx.byte = taken]_vars

\* The transmitter sends frames of the bytes it took, each bit for Divisor
\* cycles, and nothing else (the comment that uart_tx.v begins with).
Sender == INSTANCE FrameSender WITH
            sending <- active, byte <- taken,
            bit <- 9 - bit_idx, cycle <- (Divisor - 1) - baud_cnt
KeepsFrames == Sender!Spec

\* busy clears: every frame ends while the clock runs, whatever is offered.
FrameEnds == active ~> ~active

============================================================================
