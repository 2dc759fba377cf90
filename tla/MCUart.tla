------------------------------- MODULE MCUart -------------------------------
EXTENDS UartTx

\* The two bytes of the test, 0xA5 and 0x52, and the two without an edge.
Hex(bits) == [i \in 0..7 |-> bits[8 - i]]
MCBytes == {Hex(<<1,0,1,0,0,1,0,1>>), Hex(<<0,1,0,1,0,0,1,0>>),
            [i \in 0..7 |-> 0], [i \in 0..7 |-> 1]}
============================================================================
