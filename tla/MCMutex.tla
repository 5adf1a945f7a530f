------------------------------- MODULE MCMutex -------------------------------
(* A small instance of Mutex for TLC: main and two added threads contend for *)
(* the mutex, so that one holds it while two are inside lock().              *)
EXTENDS Mutex

NoLiberties == {}
Overflow    == {"overflow"}
NoSlots     == {}
EveryTask   == {0, 1, 2}
AddedTasks  == {1, 2}
LocksOnly   == {}
AllCalls    == {"kill", "scope", "unlock"}
=============================================================================
