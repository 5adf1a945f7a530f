------------------------------ MODULE MCThreads ------------------------------
(* A small instance of Threads for TLC: three slots and three added threads,  *)
(* so that a slot is reused while another thread is still in its own.         *)
EXTENDS Threads

\* Callers that use the library as its documentation assumes, on stacks that
\* may be too small.
Overflow == {"overflow"}
NoLiberties == {}
\* A thread calls kill(id()).
SelfKill == {"selfKill"}
\* Slices of 0 (wraps) and 1 tick.
SmallSlices == {0, 1}
ZeroSlice == {0}
\* Threads wait for the thread in slot 1.
FirstSlot == {1}
=============================================================================
