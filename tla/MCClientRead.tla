----------------------------- MODULE MCClientRead -----------------------------
(* A small instance of ClientRead for TLC: a stream longer than the buffer,  *)
(* every third byte a '\r'.                                                  *)
EXTENDS ClientRead

AnySegments == 1 .. MaxBytes
SecondBytes == {k \in 1 .. MaxBytes : k % 3 = 2}
AnySize     == 1 .. socket_size + 1
Both        == {"careful", "line"}
Line        == {"line"}
=============================================================================
