------------------------------- MODULE MCClient -------------------------------
(* A small instance of Client for TLC: as many entries as clients, so that a *)
(* hasty program fills the table; SndBuf + 1 is a write that never fits.     *)
EXTENDS Client

SomeWrites == {1, SndBuf, SndBuf + 1}
AllSettings == {"regular", "hasty", "failing"}
Regular == {"regular"}
HastyOrStalled == {"hasty", "stalled"}
Failing == {"failing"}
=============================================================================
