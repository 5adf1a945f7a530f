------------------------------- MODULE MCBringup -------------------------------
(* Bringup for TLC: every setting of the switches. *)
EXTENDS Bringup

AllSettings == SUBSET {"SW1", "SW2"}
TwoSettings == {{}, {"SW1"}}
BothModes   == {"dhcp", "static"}
DhcpOnly    == {"dhcp"}
AllFaults   == {"fnet", "dhcp"}
NoFaults    == {}
=============================================================================
