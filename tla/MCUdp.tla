--------------------------------- MODULE MCUdp ---------------------------------
(* A small instance of Udp for TLC: two datagrams fit in the queue, a size   *)
(* that overflows uint16_t, and a packet that fills the buffer.              *)
EXTENDS Udp

OneOrTwo  == {1, 2}
UpToThree == {1, 3}
WithEmpty == {0, 1}
TwoOrNine == {2, 9}
Careful   == {"careful"}
Heedless  == {"heedless"}
=============================================================================
