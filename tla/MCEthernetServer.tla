--------------------------- MODULE MCEthernetServer ---------------------------
(* A small instance of EthernetServer for TLC: a table that the peers can fill. *)
EXTENDS EthernetServer

CONSTANTS p1, p2

TwoPeers    == {p1, p2}
AllFailures == {"create", "bind", "listen"}
NoFailures  == {}
AllWeathers == {"rough", "crowded", "calm"}
OnlyCalm    == {"calm"}
RoughOrCrowded == {"rough", "crowded"}
BothPrograms == {"web", "accept"}
WebOnly      == {"web"}
=============================================================================
