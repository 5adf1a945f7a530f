------------------------------ MODULE HostControl ------------------------------
(***************************************************************************)
(* "test script/CTRL attenuator.py": the script keeps a copy of the four   *)
(* port values, toggles bits of it and writes every port to the board, one *)
(* HTTP request after the other.  Requests may fail, the board may restart *)
(* and may be commanded by others.                                         *)
(*                                                                         *)
(* The board is external to the script: a value for each port (module      *)
(* PortControl has what happens inside it).  The window and the colours of *)
(* its buttons are left out.                                               *)
(***************************************************************************)
EXTENDS Integers

CONSTANTS
    NPorts,       \* number of ports
    MaxValue,     \* largest value of a port, 2^n - 1
    NEntries,     \* entries of the board's socket table
    tableVal,     \* for each command, the bits it toggles in each port
    Disturbances  \* "fail": a request ends in an exception; "restart": the
                  \* board restarts; "serial": others command the board

Ports   == 1 .. NPorts
Values  == 0 .. MaxValue
Entries == 1 .. NEntries
Zero    == [p \in Ports |-> 0]

VARIABLES
    shadow,     \* portA .. portD of the script
    board,      \* port values of the board
    port,       \* port whose request is under way, or 0 between commands
    req,        \* the request: not made, sent, applied, or never answered
    late,       \* for each entry of the table, the request in it that the
                \* script has given up and the board has not carried out
    resetting,  \* the script has not opened its window yet
    ok          \* auxiliary: no request of the last command failed, and no port
                \* was changed after the command's request for it, be it by a
                \* given-up request, by others, or by a restart

vars == << shadow, board, port, req, late, resetting, ok >>

Requests  == [port : Ports, value : Values]
NoRequest == [port |-> 0, value |-> 0]
Nothing   == [e \in Entries |-> NoRequest]

TypeOK ==
    /\ shadow \in [Ports -> Values]
    /\ board \in [Ports -> Values]
    /\ port \in 0 .. NPorts
    /\ req \in {"none", "sent", "applied", "silent"}
    /\ late \in [Entries -> Requests \cup {NoRequest}]
    /\ resetting \in BOOLEAN
    /\ ok \in BOOLEAN

\* The script starts by writing its zeros, to a board in any state.
Init ==
    /\ shadow = Zero
    /\ board \in [Ports -> Values]
    /\ port = 1
    /\ req = "none"
    /\ late = Nothing
    /\ resetting = TRUE
    /\ ok = TRUE

\* "^" of Python, bit by bit from the lowest.
Xor[v \in Values, bits \in Values] ==
    IF v = 0 /\ bits = 0 THEN 0
    ELSE ((v + bits) % 2) + 2 * Xor[v \div 2, bits \div 2]

Toggled(v, bits) == Xor[v, bits]

\* The last port is written; in the faulty variant it never is.
LastPortEarly == port >= NPorts - 1
LastPort == port = NPorts

\* setDevice finds the command, updatePort toggles its bits in the copy.
Command(c) ==
    /\ port = 0
    /\ shadow' = [p \in Ports |-> Toggled(shadow[p], tableVal[c][p])]
    /\ port' = 1
    /\ ok' = TRUE
    /\ UNCHANGED << board, req, late, resetting >>

\* portWrite: make the request ...
Send ==
    /\ port # 0 /\ req = "none"
    /\ req' = "sent"
    /\ UNCHANGED << shadow, board, port, late, resetting, ok >>

\* The board handles one request after the other.  Each has an entry of its
\* own, and nothing makes the board read them in the order they were sent.
Free == {e \in Entries : late[e] = NoRequest}

Take ==
    /\ req = "sent" /\ Free # {}
    /\ board' = [board EXCEPT ![port] = shadow[port]]
    /\ req' = "applied"
    /\ UNCHANGED << shadow, port, late, resetting, ok >>

\* ... and go on to the next port, when it was answered or threw.
NextPort ==
    /\ req' = "none"
    /\ port' = IF LastPort THEN 0 ELSE port + 1
    /\ resetting' = (resetting /\ ~LastPort)
    /\ UNCHANGED << shadow, board >>

Answer ==
    /\ req = "applied"
    /\ NextPort
    /\ UNCHANGED << late, ok >>

\* A request that fails may be lost; or it has reached the board, which keeps
\* it unread in its entry, also when the connection is closed, and may read it
\* when the script is at the next port or at the next command.
Fail ==
    /\ "fail" \in Disturbances
    /\ req \in {"sent", "applied"}
    /\ NextPort
    /\ \/ UNCHANGED late
       \/ /\ req = "sent"
          /\ \E e \in Free : late' = [late EXCEPT ![e] = [port |-> port, value |-> shadow[port]]]
    /\ ok' = FALSE

\* The command's request for port p was carried out.
Done(p) == port = 0 \/ p < port \/ (p = port /\ req = "applied")

TakeLate(e) ==
    /\ late[e] # NoRequest
    /\ board' = [board EXCEPT ![late[e].port] = late[e].value]
    /\ late' = [late EXCEPT ![e] = NoRequest]
    /\ ok' = (ok /\ ~ Done(late[e].port))
    /\ UNCHANGED << shadow, port, req, resetting >>

\* The connection of an unread request is reset, or its entry is taken for
\* another connection, the last resort of socketBegin on a full table.
Drop(e) ==
    /\ late[e] # NoRequest
    /\ late' = [late EXCEPT ![e] = NoRequest]
    /\ UNCHANGED << shadow, board, port, req, resetting, ok >>

\* A board that restarts has forgotten every request; requests.get, which has no
\* timeout, then waits for ever unless the connection was yet to be made or the
\* answer was on its way.
Restart ==
    /\ "restart" \in Disturbances
    /\ board' = Zero
    /\ late' = Nothing
    /\ req' \in IF req = "none" THEN {"none"} ELSE {req, "silent"}
    /\ ok' = (ok /\ \A p \in Ports : ~ Done(p))
    /\ UNCHANGED << shadow, port, resetting >>

SerialLine ==
    /\ "serial" \in Disturbances
    /\ \E p \in Ports, v \in Values :
          /\ board' = [board EXCEPT ![p] = v]
          /\ ok' = (ok /\ ~ Done(p))
    /\ UNCHANGED << shadow, port, req, late, resetting >>

Next ==
    \/ \E c \in DOMAIN tableVal : Command(c)
    \/ Send \/ Take \/ Answer \/ Fail
    \/ \E e \in Entries : TakeLate(e) \/ Drop(e)
    \/ Restart \/ SerialLine

Spec == Init /\ [][Next]_vars

-----------------------------------------------------------------------------
(* Properties. *)

\* A command none of whose requests failed leaves the board with the script's
\* values in every port, the ones it does not toggle included, whatever failed
\* before, was changed by others, or was carried out late before the command's
\* request for that port.  A port changed after its request stays changed: the
\* board reads a request whenever it comes to its entry (NothingStale).
BoardFollowsScript == port = 0 /\ ok => board = shadow

\* A port that the command has written keeps its value until the next command,
\* when nobody else commands the board and it does not restart.  The script
\* takes it for granted; a request it gave up earlier may undo it.
NothingStale == [][\A p \in Ports : ok /\ Done(p) => board'[p] = board[p]]_vars

\* "reset the board": when the script opens its window the outputs are zero,
\* unless others have commanded the board.
BoardIsReset == [][resetting /\ ~resetting' => board' = Zero]_vars
=============================================================================
