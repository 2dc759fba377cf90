---------------------------- MODULE UartTx_proofs ----------------------------
(***************************************************************************)
(* Theorems about UartTx, for any divisor of at least 2, any width of the  *)
(* counter that holds it, and any bytes.                                   *)
(***************************************************************************)
EXTENDS UartTx, TLAPS

----------------------------------------------------------------------------
(* The inductive invariant.                                                *)

\* What the shifter still holds is the frame of the byte taken, from the bit
\* that is on the line, and ones behind it.
ShifterHoldsFrame ==
  active => \A i \in 0..9 :
    shifter[i] = IF i <= bit_idx THEN FrameOf(taken)[i + (9 - bit_idx)] ELSE 1

Bit == 9 - bit_idx
Cycle == (Divisor - 1) - baud_cnt

\* Between frames the receiver waits, and while a frame starts or its stop bit
\* ends; otherwise it is behind the line by the rest of half a bit.
InStep ==
  synced =>
    \/ /\ rx.next = Idle
       /\ active => \/ Bit = 0 /\ Cycle = 0
                    \/ Bit = 9 /\ Cycle > Divisor \div 2 /\ rx.byte = taken
    \/ /\ rx.next # Idle
       /\ active
       /\ \/ rx.next = Bit /\ Cycle + rx.left = (Divisor \div 2) + 1
          \/ rx.next = Bit + 1 /\ Cycle + rx.left = Divisor + (Divisor \div 2) + 1

\* The bits sampled are those of the byte.
ReadSoFar ==
  synced /\ rx.next # Idle => \A i \in 0..7 : i + 1 < rx.next => rx.byte[i] = taken[i]

IInv == TypeOK /\ ShifterHoldsFrame /\ InStep /\ ReadSoFar

----------------------------------------------------------------------------
(* The registers.                                                          *)

\* The counter is wide enough for its reload value.
LEMMA ReloadFits == Reload = Divisor - 1
  BY DivisorAssumption, SMT DEF Reload

\* A frame is ten levels, the start bit low and the stop bit high.
LEMMA FrameLevels ==
  ASSUME NEW b \in Bytes
  PROVE /\ FrameOf(b) \in [0..9 -> Levels]
        /\ FrameOf(b)[0] = 0
        /\ FrameOf(b)[9] = 1
        /\ \A i \in 0..7 : FrameOf(b)[i + 1] = b[i]
  <1>1. b \in [0..7 -> {0, 1}]
    BY BytesAssumption
  <1> QED
    BY <1>1, SMT DEF FrameOf, Levels

\* The line carries the bit of the frame that bit_idx counts.
LEMMA LineCarries ==
  ASSUME TypeOK, ShifterHoldsFrame
  PROVE /\ active => tx = FrameOf(taken)[Bit]
        /\ ~active => tx = 1
        /\ tx \in Levels
  <1>1. CASE active
    <2>1. shifter[0] = FrameOf(taken)[0 + (9 - bit_idx)]
      BY <1>1, SMT DEF ShifterHoldsFrame, TypeOK
    <2>2. 0 + (9 - bit_idx) = Bit
      BY SMT DEF Bit, TypeOK
    <2>3. shifter[0] \in Levels
      BY SMT DEF TypeOK
    <2> QED
      BY <1>1, <2>1, <2>2, <2>3 DEF tx
  <1>2. CASE ~active
    BY <1>2 DEF tx, Levels
  <1> QED
    BY <1>1, <1>2

LEMMA AllOnes == [i \in 0..9 |-> 1] \in [0..9 -> Levels]
  BY DEF Levels

LEMMA InitRegisters == Init => TypeOK
  <1> SUFFICES ASSUME Init PROVE TypeOK
    OBVIOUS
  <1>1. rx \in Receivers /\ rx.next = Idle
    BY DivisorAssumption, SMT DEF Init, Receivers, Idle, Levels
  <1>2. baud_cnt \in 0..(Divisor - 1) /\ bit_idx \in 0..9
    BY DivisorAssumption, SMT DEF Init
  <1>3. shifter \in [0..9 -> Levels]
    BY AllOnes DEF Init
  <1>4. active \in BOOLEAN /\ synced \in BOOLEAN /\ taken \in Bytes
    BY DEF Init
  <1> QED
    BY <1>1, <1>2, <1>3, <1>4 DEF TypeOK

\* The types of the registers, for each action of the transmitter.
RegistersOK == /\ baud_cnt \in 0..(Divisor - 1)
               /\ bit_idx \in 0..9
               /\ shifter \in [0..9 -> Levels]
               /\ active \in BOOLEAN
               /\ taken \in Bytes

LEMMA RegistersKept ==
  ASSUME TypeOK, Reset \/ Run
  PROVE RegistersOK'
  <1> USE DEF RegistersOK
  <1>0. RegistersOK
    BY DEF TypeOK
  <1>a. 0 \in 0..(Divisor - 1) /\ Reload \in 0..(Divisor - 1)
    BY ReloadFits, DivisorAssumption, SMT
  <1>1. CASE Reset
    <2>1. baud_cnt' \in 0..(Divisor - 1) /\ bit_idx' \in 0..9
      BY <1>1, <1>a, SMT DEF Reset
    <2> QED
      BY <1>0, <1>1, <2>1, AllOnes DEF Reset
  <1>2. ASSUME NEW data \in Bytes, Load(data) PROVE RegistersOK'
    <2>1. baud_cnt' \in 0..(Divisor - 1) /\ bit_idx' \in 0..9
      BY <1>2, <1>a, SMT DEF Load
    <2> QED
      BY <1>2, <2>1, FrameLevels DEF Load
  <1>3. CASE Rest
    BY <1>3, <1>0 DEF Rest, tx_vars
  <1>4. CASE Count
    <2>1. baud_cnt' \in 0..(Divisor - 1)
      BY <1>0, <1>4, DivisorAssumption, SMT DEF Count
    <2> QED
      BY <1>0, <1>4, <2>1 DEF Count
  <1>5. CASE EndFrame
    BY <1>0, <1>5 DEF EndFrame
  <1>6. CASE Shift
    <2>1. Shifted \in [0..9 -> Levels]
      BY <1>0, SMT DEF Shifted, Levels
    <2>2. bit_idx' \in 0..9
      BY <1>0, <1>6, SMT DEF Shift
    <2> QED
      BY <1>0, <1>a, <1>6, <2>1, <2>2 DEF Shift
  <1> QED
    BY <1>1, <1>2, <1>3, <1>4, <1>5, <1>6 DEF Run

\* The receiver counts within a bit.
LEMMA ReceiverKept ==
  ASSUME TypeOK, ShifterHoldsFrame, Receive
  PROVE /\ rx' \in Receivers
        /\ rx'.next # Idle => rx'.left >= 1
  <1>1. tx \in Levels
    BY LineCarries
  <1>2. Divisor \div 2 \in 0..Divisor /\ Divisor \div 2 >= 1 /\ Divisor >= 1
    BY DivisorAssumption, SMT
  <1>3. /\ rx.next \in 0..Idle
        /\ rx.left \in 0..Divisor
        /\ rx.byte \in [0..7 -> Levels]
        /\ rx = [next |-> rx.next, left |-> rx.left, byte |-> rx.byte]
        /\ rx.next # Idle => rx.left >= 1
    BY DEF TypeOK, Receivers
  <1>4. ASSUME NEW k \in 0..Idle, NEW l \in 0..Divisor, NEW b \in [0..7 -> Levels],
               rx' = [next |-> k, left |-> l, byte |-> b],
               k # Idle => l >= 1
        PROVE  /\ rx' \in Receivers
               /\ rx'.next # Idle => rx'.left >= 1
    BY <1>4 DEF Receivers
  <1>5. CASE StartSeen
    <2>1. rx' = [next |-> 0, left |-> Divisor \div 2, byte |-> rx.byte]
      BY <1>3, <1>5 DEF StartSeen
    <2>2. 0 \in 0..Idle
      BY SMT DEF Idle
    <2> QED
      BY <1>2, <1>3, <1>4, <2>1, <2>2
  <1>6. CASE NoStart
    BY <1>6, <1>3, <1>4 DEF NoStart
  <1>7. CASE Waits
    <2>1. rx' = [next |-> rx.next, left |-> rx.left - 1, byte |-> rx.byte]
      BY <1>3, <1>7 DEF Waits
    <2>2. rx.left - 1 \in 0..Divisor /\ rx.left - 1 >= 1
      BY <1>3, <1>7, DivisorAssumption, SMT DEF Waits
    <2> QED
      BY <1>3, <1>4, <2>1, <2>2
  <1>8. Divisor \in 0..Divisor
    BY DivisorAssumption, SMT
  <1>9. CASE SampleStart
    <2>1. rx' = [next |-> 1, left |-> Divisor, byte |-> rx.byte]
      BY <1>3, <1>9 DEF SampleStart
    <2>2. 1 \in 0..Idle
      BY SMT DEF Idle
    <2> QED
      BY <1>2, <1>3, <1>4, <1>8, <2>1, <2>2
  <1>10. CASE SampleBit
    <2>1. [rx.byte EXCEPT ![rx.next - 1] = tx] \in [0..7 -> Levels]
      BY <1>1, <1>3
    <2>2. rx.next + 1 \in 0..Idle
      BY <1>10, SMT DEF SampleBit, Idle
    <2> QED
      BY <1>2, <1>4, <1>8, <1>10, <2>1, <2>2 DEF SampleBit
  <1>11. CASE SampleStop
    <2>1. rx' = [next |-> Idle, left |-> 0, byte |-> rx.byte]
      BY <1>3, <1>11 DEF SampleStop
    <2>2. Idle \in 0..Idle /\ 0 \in 0..Divisor
      BY DivisorAssumption, SMT DEF Idle
    <2> QED
      BY <1>3, <1>4, <2>1, <2>2
  <1> QED
    BY <1>5, <1>6, <1>7, <1>9, <1>10, <1>11 DEF Receive

LEMMA SyncedKept ==
  ASSUME TypeOK, Edge
  PROVE synced' \in BOOLEAN
  BY DEF Edge, EdgeInReset, EdgeRunning, TypeOK

LEMMA ShifterKept ==
  ASSUME TypeOK, ShifterHoldsFrame, Reset \/ Run
  PROVE ShifterHoldsFrame'
  <1>1. CASE Reset
    BY <1>1 DEF Reset, ShifterHoldsFrame
  <1>2. ASSUME NEW data \in Bytes, Load(data) PROVE ShifterHoldsFrame'
    BY <1>2, SMT DEF Load, ShifterHoldsFrame
  <1>3. CASE Rest
    BY <1>3 DEF Rest, tx_vars, ShifterHoldsFrame
  <1>4. CASE Count
    BY <1>4 DEF Count, ShifterHoldsFrame
  <1>5. CASE EndFrame
    BY <1>5 DEF EndFrame, ShifterHoldsFrame
  <1>6. CASE Shift
    <2>1. bit_idx' = bit_idx - 1
      BY <1>6, SMT DEF Shift, TypeOK
    <2>2. shifter' = Shifted /\ taken' = taken /\ active
      BY <1>6 DEF Shift
    <2>3. ASSUME NEW i \in 0..9
          PROVE shifter'[i] = IF i <= bit_idx' THEN FrameOf(taken')[i + (9 - bit_idx')] ELSE 1
      <3>1. CASE i = 9
        BY <3>1, <2>1, <2>2, SMT DEF Shifted, TypeOK
      <3>2. CASE i # 9
        <4>1. i + 1 \in 0..9 /\ (i + 1 <= bit_idx <=> i <= bit_idx')
              /\ (i + 1) + (9 - bit_idx) = i + (9 - bit_idx')
          BY <3>2, <2>1, SMT DEF TypeOK
        <4>2. shifter'[i] = shifter[i + 1]
          BY <3>2, <2>2, SMT DEF Shifted
        <4> QED
          BY <4>1, <4>2, <2>2 DEF ShifterHoldsFrame
      <3> QED
        BY <3>1, <3>2
    <2> QED
      BY <2>3 DEF ShifterHoldsFrame
  <1> QED
    BY <1>1, <1>2, <1>3, <1>4, <1>5, <1>6 DEF Run

----------------------------------------------------------------------------
(* The receiver and the line.                                              *)

\* An idle line is high, a start bit low, a stop bit high.
LEMMA LineLevels ==
  ASSUME TypeOK, ShifterHoldsFrame
  PROVE /\ ~active => tx = 1
        /\ active /\ Bit = 0 => tx = 0
        /\ active /\ Bit = 9 => tx = 1
        /\ \A k \in 1..8 : active /\ Bit = k => tx = taken[k - 1]
  <1>1. taken \in Bytes
    BY DEF TypeOK
  <1>2. ASSUME NEW k \in 1..8 PROVE FrameOf(taken)[k] = taken[k - 1]
    <2>1. k - 1 \in 0..7 /\ (k - 1) + 1 = k
      BY SMT
    <2> QED
      BY <1>1, <2>1, FrameLevels
  <1> QED
    BY <1>1, <1>2, LineCarries, FrameLevels

\* Between frames the receiver only looks.
LEMMA RestingReceiver ==
  ASSUME TypeOK, ShifterHoldsFrame, InStep, Edge, synced', ~active
  PROVE rx.next = Idle /\ rx' = rx
  <1>1. rx.next = Idle
    BY DEF Edge, EdgeInReset, EdgeRunning, InStep
  <1>2. tx = 1
    BY LineLevels
  <1>3. CASE StartSeen
    BY <1>2, <1>3 DEF StartSeen
  <1>4. ~(Waits \/ SampleStart \/ SampleBit \/ SampleStop)
    BY <1>1, SMT DEF Waits, SampleStart, SampleBit, SampleStop, Idle
  <1> QED
    BY <1>1, <1>3, <1>4 DEF Edge, EdgeInReset, EdgeRunning, Receive, NoStart

\* The steps of the transmitter in terms of the place in the frame.
LEMMA Places ==
  ASSUME TypeOK, active, Run
  PROVE /\ taken' = taken
        /\ \/ active' /\ Bit' = Bit /\ Cycle' = Cycle + 1 /\ Cycle < Divisor - 1
           \/ active' /\ Bit' = Bit + 1 /\ Bit < 9 /\ Cycle = Divisor - 1 /\ Cycle' = 0
           \/ ~active' /\ Bit = 9 /\ Cycle = Divisor - 1
  <1>1. CASE Count
    <2>1. Bit' = Bit /\ Cycle' = Cycle + 1 /\ Cycle < Divisor - 1
      BY <1>1, DivisorAssumption, SMT DEF Count, TypeOK, Bit, Cycle
    <2> QED
      BY <1>1, <2>1 DEF Count
  <1>2. CASE EndFrame
    <2>1. Bit = 9 /\ Cycle = Divisor - 1
      BY <1>2, DivisorAssumption, SMT DEF EndFrame, Bit, Cycle
    <2> QED
      BY <1>2, <2>1 DEF EndFrame
  <1>3. CASE Shift
    <2>1. Bit' = Bit + 1 /\ Bit < 9
      BY <1>3, SMT DEF Shift, TypeOK, Bit
    <2>2. Cycle = Divisor - 1 /\ Cycle' = 0
      BY <1>3, ReloadFits, DivisorAssumption, SMT DEF Shift, Cycle
    <2> QED
      BY <1>3, <2>1, <2>2 DEF Shift
  <1> QED
    BY <1>1, <1>2, <1>3 DEF Run, Load, Rest, busy

\* The ranges the arithmetic below needs.
LEMMA Ranges ==
  ASSUME TypeOK
  PROVE /\ Bit \in 0..9
        /\ Cycle \in 0..(Divisor - 1)
        /\ Divisor \in Nat /\ Divisor >= 2
        /\ Divisor \div 2 \in Nat /\ Divisor \div 2 >= 1
        /\ Divisor \div 2 <= Divisor - 1
        /\ rx.next \in 0..10 /\ rx.left \in 0..Divisor
        /\ rx.next # 10 => rx.left >= 1
  BY DivisorAssumption, SMT DEF TypeOK, Bit, Cycle, Receivers, Idle

\* When the receiver samples it is at the centre of the bit it means to sample.
LEMMA AtCentre ==
  ASSUME TypeOK, InStep, synced, rx.next # Idle, rx.left = 1
  PROVE active /\ rx.next = Bit /\ Cycle = Divisor \div 2
  <1>1. /\ active
        /\ \/ rx.next = Bit /\ Cycle + rx.left = (Divisor \div 2) + 1
           \/ rx.next = Bit + 1 /\ Cycle + rx.left = Divisor + (Divisor \div 2) + 1
    BY DEF InStep
  <1>2. rx.next = Bit /\ Cycle = Divisor \div 2
    BY <1>1, Ranges, SMT
  <1> QED
    BY <1>1, <1>2

\* A sampled bit is the bit of the byte, so the byte grows to the one taken.
LEMMA ReadKept ==
  ASSUME IInv, Edge, UNCHANGED taken
  PROVE synced /\ synced' /\ rx'.next # Idle =>
          \A i \in 0..7 : i + 1 < rx'.next => rx'.byte[i] = taken[i]
  <1> SUFFICES ASSUME synced, rx'.next # Idle, NEW i \in 0..7, i + 1 < rx'.next
               PROVE rx'.byte[i] = taken[i]
    OBVIOUS
  <1> USE DEF IInv
  <1>0. Receive
    BY DEF Edge, EdgeInReset, EdgeRunning
  <1>1. rx.next # Idle => (i + 1 < rx.next => rx.byte[i] = taken[i])
    BY DEF ReadSoFar
  <1>2. rx.byte \in [0..7 -> Levels] /\ rx \in Receivers
    BY DEF TypeOK, Receivers
  <1>3. CASE StartSeen \/ SampleStart
    <2>1. rx'.next \in {0, 1}
      BY <1>2, <1>3 DEF StartSeen, SampleStart, Receivers
    <2> QED
      BY <2>1, SMT
  <1>4. CASE NoStart
    BY <1>4 DEF NoStart
  <1>5. CASE Waits
    BY <1>1, <1>2, <1>5 DEF Waits, Receivers
  <1>6. CASE SampleBit
    <2>1. rx.next \in 1..8 /\ rx.left = 1 /\ rx.next # Idle
      BY <1>6, SMT DEF SampleBit, Idle
    <2>2. tx = taken[rx.next - 1]
      BY <2>1, AtCentre, LineLevels
    <2>3. rx'.next = rx.next + 1 /\ rx'.byte = [rx.byte EXCEPT ![rx.next - 1] = tx]
      BY <1>6 DEF SampleBit
    <2>4. CASE i = rx.next - 1
      BY <1>2, <2>2, <2>3, <2>4
    <2>5. CASE i # rx.next - 1
      <3>1. i + 1 < rx.next
        BY <2>1, <2>3, <2>5, SMT
      <3> QED
        BY <1>1, <1>2, <2>1, <2>3, <2>5, <3>1
    <2> QED
      BY <2>4, <2>5
  <1>7. CASE SampleStop
    BY <1>2, <1>7 DEF SampleStop, Receivers
  <1> QED
    BY <1>0, <1>3, <1>4, <1>5, <1>6, <1>7 DEF Receive

\* After a step in a frame the receiver is where it should be again.
Behind ==
  \/ rx.next = Bit /\ Cycle + rx.left = (Divisor \div 2) + 1
  \/ rx.next = Bit + 1 /\ Cycle + rx.left = Divisor + (Divisor \div 2) + 1

LEMMA StartFound ==
  ASSUME IInv, synced, active, rx.next = Idle, Run, Receive
  PROVE \/ active' /\ rx'.next = 0 /\ Behind'
        \/ rx' = rx /\ (active' => Bit' = 9 /\ Cycle' > Divisor \div 2 /\ rx.byte = taken)
  <1> USE DEF IInv
  <1>1. ~(Waits \/ SampleStart \/ SampleBit \/ SampleStop)
    BY SMT DEF Waits, SampleStart, SampleBit, SampleStop, Idle
  <1>2. CASE Bit = 0 /\ Cycle = 0
    <2>1. StartSeen
      BY <1>1, <1>2, LineLevels, SMT DEF Receive, NoStart
    <2>2. rx'.next = 0 /\ rx'.left = Divisor \div 2
      BY <2>1 DEF StartSeen, TypeOK, Receivers
    <2>3. active' /\ Bit' = 0 /\ Cycle' = 1
      BY <1>2, Places, Ranges, SMT
    <2> QED
      BY <2>2, <2>3, Ranges, SMT DEF Behind
  <1>3. CASE Bit = 9 /\ Cycle > Divisor \div 2 /\ rx.byte = taken
    <2>1. rx' = rx
      BY <1>1, <1>3, LineLevels, SMT DEF Receive, StartSeen, NoStart
    <2>2. active' => Bit' = 9 /\ Cycle' > Divisor \div 2
      BY <1>3, Places, Ranges, SMT
    <2> QED
      BY <1>3, <2>1, <2>2
  <1> QED
    BY <1>2, <1>3 DEF InStep

LEMMA WaitKept ==
  ASSUME IInv, synced, rx.next # Idle, Run, Waits
  PROVE active' /\ rx'.next # Idle /\ Behind'
  <1> USE DEF IInv
  <1>1. active /\ Behind
    BY DEF InStep, Behind
  <1>2. rx'.next = rx.next /\ rx'.left = rx.left - 1 /\ rx.left > 1
    BY DEF Waits, TypeOK, Receivers
  <1>3. rx.next # 10
    BY DEF Idle
  <1>4. CASE active' /\ Bit' = Bit /\ Cycle' = Cycle + 1 /\ Cycle < Divisor - 1
    BY <1>1, <1>2, <1>3, <1>4, Ranges, SMT DEF Behind, Idle
  <1>5. CASE active' /\ Bit' = Bit + 1 /\ Bit < 9 /\ Cycle = Divisor - 1 /\ Cycle' = 0
    BY <1>1, <1>2, <1>3, <1>5, Ranges, SMT DEF Behind, Idle
  <1>6. ~(Bit = 9 /\ Cycle = Divisor - 1)
    BY <1>1, <1>2, <1>3, Ranges, SMT DEF Behind
  <1> QED
    BY <1>1, <1>4, <1>5, <1>6, Places

LEMMA SampleKept ==
  ASSUME IInv, synced, rx.next # Idle, Run, SampleStart \/ SampleBit
  PROVE active' /\ rx'.next # Idle /\ Behind'
  <1> USE DEF IInv
  <1>1. rx.left = 1 /\ rx'.next = rx.next + 1 /\ rx'.left = Divisor /\ rx.next \in 0..8
    <2>1. CASE SampleStart
      BY <2>1, SMT DEF SampleStart, TypeOK, Receivers
    <2>2. CASE SampleBit
      <3>1. rx.left = 1 /\ rx'.next = rx.next + 1 /\ rx'.left = Divisor
        BY <2>2 DEF SampleBit
      <3>2. rx.next \in 0..8
        BY <2>2, SMT DEF SampleBit
      <3> QED
        BY <3>1, <3>2
    <2> QED
      BY <2>1, <2>2
  <1>2. active /\ rx.next = Bit /\ Cycle = Divisor \div 2
    BY <1>1, AtCentre
  <1>3. CASE active' /\ Bit' = Bit /\ Cycle' = Cycle + 1 /\ Cycle < Divisor - 1
    BY <1>1, <1>2, <1>3, Ranges, SMT DEF Behind, Idle
  <1>4. CASE active' /\ Bit' = Bit + 1 /\ Bit < 9 /\ Cycle = Divisor - 1 /\ Cycle' = 0
    BY <1>1, <1>2, <1>4, Ranges, SMT DEF Behind, Idle
  <1>5. Bit # 9
    BY <1>1, <1>2, Ranges, SMT
  <1> QED
    BY <1>2, <1>3, <1>4, <1>5, Places

LEMMA StopRead ==
  ASSUME IInv, synced, rx.next # Idle, Run, SampleStop
  PROVE /\ rx'.next = Idle /\ rx'.byte = taken
        /\ active' => Bit' = 9 /\ Cycle' > Divisor \div 2
  <1> USE DEF IInv
  <1>1. rx.left = 1 /\ rx.next = 9 /\ rx'.next = Idle /\ rx'.byte = rx.byte
    BY DEF SampleStop, TypeOK, Receivers
  <1>2. active /\ rx.next = Bit /\ Cycle = Divisor \div 2
    BY <1>1, AtCentre
  <1>3. rx.byte = taken
    <2>1. rx.byte \in [0..7 -> Levels] /\ taken \in [0..7 -> Levels]
      BY BytesAssumption DEF TypeOK, Receivers, Levels
    <2>2. ASSUME NEW i \in 0..7 PROVE i + 1 < rx.next
      BY <1>1, SMT
    <2>3. \A i \in 0..7 : rx.byte[i] = taken[i]
      BY <2>2 DEF ReadSoFar
    <2> QED
      BY <2>1, <2>3
  <1>4. active' => Bit' = 9 /\ Cycle' > Divisor \div 2
    BY <1>1, <1>2, Places, Ranges, SMT
  <1> QED
    BY <1>1, <1>3, <1>4

LEMMA InStepKept ==
  ASSUME IInv, Edge
  PROVE InStep' /\ ReadSoFar'
  <1> USE DEF IInv
  <1>1. CASE ~synced'
    BY <1>1 DEF InStep, ReadSoFar
  <1>2. CASE synced' /\ ~active
    <2>1. rx' = rx /\ rx.next = Idle
      BY <1>2, RestingReceiver
    <2>2. Reset \/ Run
      BY DEF Edge, EdgeInReset, EdgeRunning
    <2>3. active' => Bit' = 0 /\ Cycle' = 0
      <3>1. CASE Reset
        BY <3>1 DEF Reset
      <3>2. CASE Rest
        BY <1>2, <3>2 DEF Rest, tx_vars
      <3>3. ASSUME NEW data \in Bytes, Load(data) PROVE Bit' = 0 /\ Cycle' = 0
        BY <3>3, ReloadFits, DivisorAssumption, SMT DEF Load, Bit, Cycle
      <3> QED
        BY <1>2, <2>2, <3>1, <3>2, <3>3 DEF Run, Count, EndFrame, Shift
    <2> QED
      BY <2>1, <2>3 DEF InStep, ReadSoFar
  <1>3. CASE synced' /\ active
    <2>1. synced /\ Run /\ Receive
      BY <1>3 DEF Edge, EdgeInReset, EdgeRunning
    <2>2. ReadSoFar'
      <3>1. taken' = taken
        BY <1>3, <2>1, Places
      <3> QED
        BY <1>3, <2>1, <3>1, ReadKept DEF ReadSoFar
    <2>3. CASE rx.next = Idle
      <3>1. CASE active' /\ rx'.next = 0 /\ Behind'
        <4>1. rx'.next # Idle
          BY <3>1, SMT DEF Idle
        <4> QED
          BY <2>2, <3>1, <4>1 DEF InStep, Behind
      <3>2. CASE rx' = rx /\ (active' => Bit' = 9 /\ Cycle' > Divisor \div 2 /\ rx.byte = taken)
        <4>1. taken' = taken
          BY <1>3, <2>1, Places
        <4> QED
          BY <2>2, <2>3, <3>2, <4>1 DEF InStep
      <3> QED
        BY <1>3, <2>1, <2>3, <3>1, <3>2, StartFound
    <2>4. CASE rx.next # Idle
      <3>1. CASE Waits
        BY <2>1, <2>2, <2>4, <3>1, WaitKept DEF InStep, Behind
      <3>2. CASE SampleStart \/ SampleBit
        BY <2>1, <2>2, <2>4, <3>2, SampleKept DEF InStep, Behind
      <3>3. CASE SampleStop
        <4>1. taken' = taken
          BY <1>3, <2>1, Places
        <4> QED
          BY <2>1, <2>2, <2>4, <3>3, <4>1, StopRead DEF InStep
      <3> QED
        BY <2>1, <2>4, <3>1, <3>2, <3>3 DEF Receive, StartSeen, NoStart
    <2> QED
      BY <2>3, <2>4
  <1> QED
    BY <1>1, <1>2, <1>3

LEMMA Initially == Init => IInv
  <1> SUFFICES ASSUME Init PROVE IInv
    OBVIOUS
  <1>1. ~active /\ rx.next = Idle
    BY DEF Init
  <1> QED
    BY <1>1, InitRegisters DEF IInv, ShifterHoldsFrame, InStep, ReadSoFar

LEMMA Inductive == IInv /\ [Next]_vars => IInv'
  <1> SUFFICES ASSUME IInv, [Next]_vars PROVE IInv'
    OBVIOUS
  <1> USE DEF IInv
  <1>1. CASE Edge
    <2>1. (Reset \/ Run) /\ Receive
      BY <1>1 DEF Edge, EdgeInReset, EdgeRunning
    <2>2. TypeOK'
      BY <1>1, <2>1, RegistersKept, ReceiverKept, SyncedKept DEF TypeOK, RegistersOK
    <2> QED
      BY <1>1, <2>1, <2>2, ShifterKept, InStepKept
  <1>2. CASE UNCHANGED vars
    BY <1>2 DEF vars, TypeOK, ShifterHoldsFrame, InStep, ReadSoFar, Bit, Cycle
  <1> QED
    BY <1>1, <1>2 DEF Next

LEMMA Always == Spec => []IInv
  BY Initially, Inductive, PTL DEF Spec

----------------------------------------------------------------------------
(* The theorems.                                                           *)

\* The registers of the transmitter and of the receiver keep their types: no
\* counter leaves 0..Divisor-1 and no bit index 0..9.
THEOREM TypesKept == Spec => []TypeOK
  <1>1. IInv => TypeOK
    BY DEF IInv
  <1> QED
    BY <1>1, Always, PTL

\* Whatever the divisor, the receiver of the test bench reads the byte that was
\* on ui_in when the transmitter took it, and finds the start and stop bits.
THEOREM AlwaysReadsTheByte == Spec => []ReadsTheByte
  <1>1. IInv => ReadsTheByte
    <2> SUFFICES ASSUME IInv, synced, rx.left = 1
                 PROVE /\ rx.next = 0 => tx = 0
                       /\ rx.next = 9 => tx = 1 /\ rx.byte = taken
      BY DEF ReadsTheByte
    <2> USE DEF IInv
    <2>1. ASSUME rx.next = 0 PROVE tx = 0
      <3>1. rx.next # Idle
        BY <2>1, SMT DEF Idle
      <3> QED
        BY <2>1, <3>1, AtCentre, LineLevels
    <2>2. ASSUME rx.next = 9 PROVE tx = 1 /\ rx.byte = taken
      <3>1. rx.next # Idle
        BY <2>2, SMT DEF Idle
      <3>2. rx.byte \in [0..7 -> Levels] /\ taken \in [0..7 -> Levels]
        BY BytesAssumption DEF TypeOK, Receivers, Levels
      <3>3. ASSUME NEW i \in 0..7 PROVE rx.byte[i] = taken[i]
        BY <2>2, <3>1, SMT DEF ReadSoFar
      <3> QED
        BY <2>2, <3>1, <3>2, <3>3, AtCentre, LineLevels
    <2> QED
      BY <2>1, <2>2
  <1> QED
    BY <1>1, Always, PTL

\* A frame that no reset cuts has been read when it ends, so frames that follow
\* each other at once never overlap for the receiver.
THEOREM EveryFrameIsRead == Spec => EveryFrameRead
  <1>1. IInv /\ [Next]_vars =>
          [active /\ ~active' /\ synced' => rx'.next = Idle /\ rx.byte = taken]_vars
    <2> SUFFICES ASSUME IInv, Edge, active, ~active', synced'
                 PROVE rx'.next = Idle /\ rx.byte = taken
      BY DEF Next
    <2> USE DEF IInv
    <2>1. synced /\ Run /\ Receive
      BY DEF Edge, EdgeInReset, EdgeRunning
    <2>2. CASE rx.next = Idle
      <3>1. rx.byte = taken
        <4>1. CASE Bit = 0 /\ Cycle = 0
          BY <2>1, <4>1, Places, Ranges, SMT
        <4> QED
          BY <2>1, <2>2, <4>1 DEF InStep
      <3>2. rx'.next # 0
        BY <2>1, <2>2, <3>1, StartFound, Places, Ranges DEF Idle
      <3> QED
        BY <2>1, <2>2, <3>1, <3>2, StartFound
    <2>3. CASE rx.next # Idle
      <3>1. SampleStop
        BY <2>1, <2>3, WaitKept, SampleKept DEF Receive, StartSeen, NoStart
      <3> QED
        BY <2>1, <2>3, <3>1, StopRead DEF SampleStop, TypeOK, Receivers
    <2> QED
      BY <2>2, <2>3
  <1> QED
    BY <1>1, Always, PTL DEF Spec, EveryFrameRead

\* The line as the sender of frames has it.
LineLevel == active => tx = Sender!Level(taken, 9 - bit_idx)

\* Every step of the transmitter is a step of the sender of frames, or none.
THEOREM AlwaysKeepsFrames == Spec => KeepsFrames
  <1>1. IInv => LineLevel
    <2> SUFFICES ASSUME IInv, active PROVE tx = Sender!Level(taken, 9 - bit_idx)
      BY DEF LineLevel
    <2>1. tx = FrameOf(taken)[Bit]
      BY LineCarries DEF IInv
    <2>2. Bit \in 0..9
      BY SMT DEF IInv, TypeOK, Bit
    <2> QED
      BY <2>1, <2>2, SMT DEF FrameOf, Sender!Level, Bit
  <1>2. IInv' => LineLevel'
    BY <1>1, PTL
  <1>3. Init => Sender!Init
    <2> SUFFICES ASSUME Init PROVE Sender!Init
      OBVIOUS
    <2>1. 9 - bit_idx = 9 /\ (Divisor - 1) - baud_cnt = Divisor - 1
      BY DivisorAssumption, SMT DEF Init
    <2> QED
      BY <2>1 DEF Init, Sender!Init, tx
  <1>4. IInv /\ IInv' /\ [Next]_vars => [Sender!Next]_(Sender!vars)
    <2> SUFFICES ASSUME IInv, IInv', [Next]_vars PROVE [Sender!Next]_(Sender!vars)
      OBVIOUS
    <2> USE DEF IInv
    <2>1. CASE UNCHANGED vars
      BY <2>1 DEF vars, Sender!vars, tx
    <2>2. CASE Reset
      <3>1. (9 - bit_idx)' = 9 /\ ((Divisor - 1) - baud_cnt)' = Divisor - 1
        BY <2>2, DivisorAssumption, SMT DEF Reset
      <3> QED
        BY <2>2, <3>1 DEF Reset, Sender!Next, Sender!Abort, tx
    <2>3. ASSUME NEW data \in Bytes, Load(data) PROVE Sender!Take
      <3>1. (9 - bit_idx)' = 0 /\ ((Divisor - 1) - baud_cnt)' = 0
        BY <2>3, ReloadFits, DivisorAssumption, SMT DEF Load
      <3>2. tx' = 0
        BY <2>3, FrameLevels DEF Load, tx
      <3> QED
        BY <2>3, <3>1, <3>2 DEF Load, Sender!Take, Sender!Level
    <2>4. CASE Rest
      BY <2>4 DEF Rest, tx_vars, Sender!vars, tx
    <2>5. active' => tx' = Sender!Level(taken', (9 - bit_idx)')
      BY <1>2 DEF LineLevel
    <2>6. CASE Count
      <3>1. /\ (Divisor - 1) - baud_cnt < Divisor - 1
            /\ ((Divisor - 1) - baud_cnt)' = ((Divisor - 1) - baud_cnt) + 1
        BY <2>6, DivisorAssumption, SMT DEF Count, TypeOK
      <3> QED
        BY <2>5, <2>6, <3>1 DEF Count, Sender!Next, Sender!Hold
    <2>7. CASE EndFrame
      <3>1. (Divisor - 1) - baud_cnt = Divisor - 1 /\ 9 - bit_idx = 9
        BY <2>7, DivisorAssumption, SMT DEF EndFrame
      <3> QED
        BY <2>7, <3>1 DEF EndFrame, Sender!Next, Sender!End, tx
    <2>8. CASE Shift
      <3>1. /\ (Divisor - 1) - baud_cnt = Divisor - 1
            /\ ((Divisor - 1) - baud_cnt)' = 0
            /\ 9 - bit_idx < 9
            /\ (9 - bit_idx)' = (9 - bit_idx) + 1
        BY <2>8, ReloadFits, DivisorAssumption, SMT DEF Shift, TypeOK
      <3> QED
        BY <2>5, <2>8, <3>1 DEF Shift, Sender!Next, Sender!NextBit
    <2> QED
      BY <2>1, <2>2, <2>3, <2>4, <2>6, <2>7, <2>8
         DEF Next, Edge, EdgeInReset, EdgeRunning, Run, Sender!Next
  <1> QED
    BY <1>3, <1>4, Always, PTL DEF Spec, KeepsFrames, Sender!Spec
============================================================================
