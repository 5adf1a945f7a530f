--------------------------- MODULE MCRemoteControl ---------------------------
(* A small instance of RemoteControl for TLC: two ports of two pins, commands *)
(* that toggle a bit of the first port and both bits of the second, and one   *)
(* line on the serial port that moves a pin of each kind.                     *)
EXTENDS RemoteControl

FewCommands == << <<1, 0>>, <<0, 3>> >>
OneLine     == { [cmd |-> 2, len |-> 2, num |-> 1] }
AllWorlds   == {"quiet", "serial", "faulty"}
=============================================================================
