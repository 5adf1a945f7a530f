----------------------------- MODULE MCHostControl -----------------------------
(* A small instance of HostControl for TLC: three ports of two bits.          *)
EXTENDS HostControl

\* A command for one bit of a port, a second bit, one of another port, one
\* that toggles nothing (AMP A0).
FewCommands == << <<1, 0, 0>>, <<2, 0, 0>>, <<0, 0, 1>>, <<0, 0, 0>> >>
AllDisturbances == {"fail", "restart", "serial"}
OnlyFail        == {"fail"}
=============================================================================
