------------------------------ MODULE PortOutputs ------------------------------
(***************************************************************************)
(* What the board promises of its digital outputs (main/main.ino): each    *)
(* port has a value set by commands, and its pins move one at a time to    *)
(* the levels the value calls for, and to no other level.                  *)
(***************************************************************************)
EXTENDS Integers

CONSTANTS
    NPorts,   \* number of ports; P1A, P1B, P2A, P2B in the code
    Pbit,     \* number of pins of a port
    MaxValue  \* largest value of a port; 255 in the code

VARIABLES
    val,     \* commanded value of each port
    pin      \* level of each pin of each port

PortIds == 1 .. NPorts
Bits    == 0 .. Pbit - 1
Bytes   == 0 .. MaxValue
Levels  == {"LOW", "HIGH"}

\* bit_test: the outputs are active low, a pin is LOW when its bit is set.
Level(v, b) == IF (v \div 2^b) % 2 = 1 THEN "LOW" ELSE "HIGH"

\* The power-up values: what setup() leaves on the outputs.
InitialVal == [p \in PortIds |-> 0]
InitialPin == [p \in PortIds |-> [b \in Bits |-> "HIGH"]]

PinsMatch == \A p \in PortIds, b \in Bits : pin[p][b] = Level(val[p], b)

Init == val = InitialVal /\ pin = InitialPin

\* A command gives a port a new value.
Command(p, v) ==
    /\ val' = [val EXCEPT ![p] = v]
    /\ UNCHANGED pin

\* A pin that differs from what its port's value calls for is corrected.
Drive(p, b) ==
    /\ pin[p][b] # Level(val[p], b)
    /\ pin' = [pin EXCEPT ![p][b] = Level(val[p], b)]
    /\ UNCHANGED val

\* The board restarts; setup() drives the outputs again.
Restart == val' = InitialVal /\ pin' = InitialPin

Next ==
    \/ Restart
    \/ \E p \in PortIds, v \in Bytes : Command(p, v)
    \/ \E p \in PortIds, b \in Bits : Drive(p, b)

SafeSpec == Init /\ [][Next]_<<val, pin>>

\* Every pin is corrected in the end.
Spec ==
    /\ SafeSpec
    /\ \A p \in PortIds, b \in Bits : WF_<<val, pin>>(Drive(p, b))
=============================================================================
