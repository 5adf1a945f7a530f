---------------------------- MODULE MCPortControl ----------------------------
(* A small instance of PortControl for TLC: two ports of two pins, so that   *)
(* the loop has an inner and an outer step, and the values 0 to 3.           *)
EXTENDS PortControl

Cmd(p, n) == [cmd |-> p, len |-> 2, num |-> n]

\* Accepted values that differ in one bit or in both, a value one above the
\* largest, a letter alone (which only asks), five characters, no port letter.
SmallLines ==
    { Cmd(1, 1), Cmd(2, 3), Cmd(1, 4), Cmd(0, 1),
      [cmd |-> 2, len |-> 1, num |-> 0], [cmd |-> 1, len |-> 5, num |-> 3] }

Request(args) == [args |-> args, terminated |-> TRUE]
SmallRequests ==
    { Request(<<Cmd(1, 3)>>), Request(<<Cmd(2, 0)>>),
      [args |-> <<Cmd(2, 2)>>, terminated |-> FALSE] }
\* Every command a request can carry.
AnyRequest == { Request(<<Cmd(p, n)>>) : p \in 0 .. 2, n \in 0 .. 4 } \cup SmallRequests

\* The request of the comment: one argument for each port.
FullRequests == { Request(<<Cmd(1, 3), Cmd(2, 3)>>), Request(<<Cmd(1, 1)>>) }

BothCallers == {"loop", "heartBeat"}
LoopOnly    == {"loop"}
=============================================================================
