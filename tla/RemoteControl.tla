----------------------------- MODULE RemoteControl -----------------------------
(***************************************************************************)
(* The host's script and the board together: the script of HostControl     *)
(* commands the decodeData of PortControl, and every request is answered   *)
(* with the report of clientResponse (main/ethFunctions.ino).              *)
(*                                                                         *)
(* loop() handles one request at a time: it decodes the request, then      *)
(* reads the port values one after the other into the report.  The serial  *)
(* port commands the board from heartBeatThread meanwhile.  Requests whose *)
(* exception reached the script may still be unread in the socket table,   *)
(* several of them, or in the loop's hands.                                *)
(*                                                                         *)
(* The composition implements HostControl, whose board is the port values, *)
(* and, as long as loop() is alone, the outputs of PortOutputs.            *)
(***************************************************************************)
EXTENDS Integers, Sequences

CONSTANTS
    NPorts, Pbit, MaxValue,  \* as in PortOutputs
    NEntries, tableVal,      \* as in HostControl
    Lines,                   \* as in PortControl
    Worlds                   \* what happens besides: "quiet", nothing;
                             \* "serial", commands on the serial port;
                             \* "faulty", requests fail and the board restarts

VARIABLES
    world,
    shadow, port, req, late, resetting, ok,
                                        \* the script, see HostControl
    build, val, pin, pc, data, reply, copy, pos, request, alone, clean,
                                        \* the board, see PortControl
    mine,       \* the script still waits for the request the loop has, or for
                \* its answer
    hand,       \* entry of the given-up request that the loop has read and not
                \* carried out, 0 when there is none
    answer,     \* the answer to the script's request is on its way
    reporting,  \* port the loop reads next for its report, 0 when it makes none
    report      \* port values it has read

scriptVars == << shadow, port, req, late, resetting, ok >>
portVars   == << build, val, pin, pc, data, reply, copy, pos, request, alone, clean >>
netVars    == << mine, hand, answer >>
reportVars == << reporting, report >>
vars == << world, scriptVars, portVars, netVars, reportVars >>

Callers == {"loop", "heartBeat"}

\* "/portVal=" + port + str(val) + "&": the letter of the port, and the value
\* in decimal, which decodeData takes apart again.
Digits(v) == IF v < 10 THEN 1 ELSE IF v < 100 THEN 2 ELSE 3
Written(p, v) == [cmd |-> p, len |-> 1 + Digits(v), num |-> v]
Request(p, v) == [args |-> << Written(p, v) >>, terminated |-> TRUE]
ScriptRequests == {Request(p, v) : p \in 1 .. NPorts, v \in 0 .. MaxValue}

Board == INSTANCE PortControl WITH Requests <- ScriptRequests

Host == INSTANCE HostControl
    WITH board <- val, Disturbances <- {"fail", "restart", "serial"}

\* MaxValue is 2^n - 1, so that toggling bits of a value gives one.
ASSUME RemoteAssumption ==
    /\ NPorts \in Nat \ {0} /\ Pbit \in Nat \ {0} /\ MaxValue \in 0 .. 999
    /\ NEntries \in Nat \ {0}
    /\ \A b \in 0 .. Pbit - 1 : 2^b \in Nat \ {0}  \* as in PortControl
    /\ \A c \in DOMAIN tableVal : tableVal[c] \in [1 .. NPorts -> 0 .. MaxValue]
    /\ \A v, bits \in 0 .. MaxValue : Host!Toggled(v, bits) \in 0 .. MaxValue
    /\ Lines \subseteq Board!Data
    /\ Worlds \subseteq {"quiet", "serial", "faulty"}

\* PortOutputs speaks of a board whose loop() is alone: with a serial port in
\* use nothing is claimed of the outputs here (see PortControl).
Outputs == INSTANCE PortOutputs
    WITH val <- IF world = "serial" THEN Board!Outputs!InitialVal ELSE val,
         pin <- IF world = "serial" THEN Board!Outputs!InitialPin ELSE pin

TypeOK ==
    /\ world \in Worlds
    /\ Host!TypeOK
    /\ Board!TypeOK
    /\ mine \in BOOLEAN
    /\ hand \in 0 .. NEntries
    /\ answer \in BOOLEAN
    /\ reporting \in 0 .. NPorts
    /\ report \in [1 .. NPorts -> 0 .. MaxValue]

Init ==
    /\ world \in Worlds
    /\ Board!Init
    /\ shadow = Host!Zero
    /\ port = 1
    /\ req = "none"
    /\ late = Host!Nothing
    /\ resetting = TRUE
    /\ ok = TRUE
    /\ mine = FALSE
    /\ hand = 0
    /\ answer = FALSE
    /\ reporting = 0
    /\ report = Host!Zero

-----------------------------------------------------------------------------
(* The script. *)

Command ==
    /\ UNCHANGED << world, portVars, netVars, reportVars >>
    /\ \E c \in DOMAIN tableVal : Host!Command(c)

Send ==
    /\ UNCHANGED << world, portVars, netVars, reportVars >>
    /\ Host!Send

Answer ==
    /\ answer
    /\ req = "applied"
    /\ mine' = FALSE
    /\ answer' = FALSE
    /\ UNCHANGED << world, hand, portVars, reportVars >>
    /\ Host!NextPort
    /\ UNCHANGED << late, ok >>

\* requests.get throws.  A request that the loop has not carried out yet is in
\* its hands, unread in the table, or lost on the way.
GivenUp(e) == late' = [late EXCEPT ![e] = [port |-> port, value |-> shadow[port]]]

Fail ==
    /\ world = "faulty"
    /\ \/ /\ req = "sent" /\ mine
          /\ \E e \in Host!Free : GivenUp(e) /\ hand' = e
       \/ /\ req = "sent" /\ ~ mine
          /\ UNCHANGED late \/ \E e \in Host!Free : GivenUp(e)
          /\ UNCHANGED hand
       \/ /\ req = "applied"
          /\ UNCHANGED << late, hand >>
    /\ mine' = FALSE
    /\ answer' = FALSE
    /\ UNCHANGED << world, portVars, reportVars >>
    /\ Host!NextPort
    /\ ok' = FALSE

-----------------------------------------------------------------------------
(* loop(). *)

LoopIdle == pc["loop"] = "idle" /\ reporting = 0

\* handleWebServer finds the request for port p: the one the script waits for,
\* or one it has given up, in whatever entry available() chose.
Enter(p, v) ==
    LET r == Request(p, v) IN
      /\ Board!Enter("loop", Board!FilterString(r))
      /\ request' = r.args

Deliver ==
    /\ req = "sent" /\ ~ mine
    /\ Host!Free # {}
    /\ LoopIdle
    /\ Enter(port, shadow[port])
    /\ mine' = TRUE
    /\ UNCHANGED << world, scriptVars, hand, answer, reportVars >>

DeliverLate(e) ==
    /\ late[e] # Host!NoRequest
    /\ LoopIdle
    /\ Enter(late[e].port, late[e].value)
    /\ hand' = e
    /\ UNCHANGED << world, scriptVars, mine, answer, reportVars >>

\* An unread request is lost with its connection or entry.
Drop(e) ==
    /\ e # hand
    /\ UNCHANGED << world, portVars, netVars, reportVars >>
    /\ Host!Drop(e)

\* handleWebServer finds "getValues", which the script's READ and the page in a
\* browser ask for: a report without a command.
Query ==
    /\ LoopIdle
    /\ reporting' = 1
    /\ report' = Host!Zero
    /\ UNCHANGED << world, scriptVars, portVars, netVars >>

\* One step of decodeData: its assignment carries the request out, and the
\* report follows its last step.
CarryOut ==
    IF hand = 0
    THEN /\ req' = "applied"
         /\ UNCHANGED << late, hand, ok >>
    ELSE /\ late' = [late EXCEPT ![hand] = Host!NoRequest]
         /\ hand' = 0
         /\ ok' = (ok /\ ~ Host!Done(late[hand].port))
         /\ UNCHANGED req

Decode ==
    /\ Board!Step("loop")
    /\ IF pc["loop"] = "assign" THEN CarryOut
       ELSE UNCHANGED << req, late, hand, ok >>
    /\ IF pc'["loop"] = "idle"
       THEN reporting' = 1 /\ report' = Host!Zero
       ELSE UNCHANGED reportVars
    /\ UNCHANGED << world, shadow, port, resetting, mine, answer >>

\* clientResponse reads the next value; the answer goes out with the last one.
\* The first definition is a faulty variant that reads the first port always.
ReadFirst == val[1]
ReadNext == val[reporting]

Report ==
    /\ reporting # 0
    /\ report' = [report EXCEPT ![reporting] = ReadNext]
    /\ IF reporting = NPorts
       THEN /\ reporting' = 0
            /\ answer' = (mine /\ req = "applied")
       ELSE /\ reporting' = reporting + 1
            /\ UNCHANGED answer
    /\ UNCHANGED << world, scriptVars, portVars, mine, hand >>

-----------------------------------------------------------------------------
(* heartBeatThread, and the board's power. *)

SerialLine ==
    /\ world = "serial"
    /\ Board!SerialLine
    /\ UNCHANGED << world, scriptVars, netVars, reportVars >>

\* The line's value is stored over what the script may have written already.
Overwrites(d) == Board!Accepts(d) /\ Host!Done(d.cmd)

HeartBeat ==
    /\ Board!Step("heartBeat")
    /\ ok' = (ok /\ ~ (pc["heartBeat"] = "assign" /\ Overwrites(data["heartBeat"])))
    /\ UNCHANGED << world, shadow, port, req, late, resetting, netVars, reportVars >>

\* All the board had in hand is gone, and its outputs are as setup() left them.
Restart ==
    /\ world = "faulty"
    /\ build' = build
    /\ val' = Board!Outputs!InitialVal
    /\ pin' = Board!Outputs!InitialPin
    /\ pc' = [c \in Callers |-> "idle"]
    /\ data' = [c \in Callers |-> Board!NoData]
    /\ reply' = [c \in Callers |-> Board!NoReply]
    /\ copy' = [c \in Callers |-> Board!Outputs!InitialVal]
    /\ pos' = [c \in Callers |-> Board!Start]
    /\ request' = <<>>
    /\ alone' = {}
    /\ clean' = TRUE
    /\ reporting' = 0
    /\ report' = Host!Zero
    /\ \/ /\ answer \/ req = "none" \/ (req = "sent" /\ ~ mine)
          /\ UNCHANGED << mine, answer, req >>
       \/ /\ req # "none"
          /\ req' = "silent"
          /\ mine' = FALSE
          /\ answer' = FALSE
    /\ late' = Host!Nothing
    /\ hand' = 0
    /\ ok' = (ok /\ \A p \in Host!Ports : ~ Host!Done(p))
    /\ UNCHANGED << world, shadow, port, resetting >>

Next ==
    \/ Command \/ Send \/ Answer \/ Fail
    \/ Deliver \/ Query \/ Decode \/ Report
    \/ \E e \in Host!Entries : DeliverLate(e) \/ Drop(e)
    \/ SerialLine \/ HeartBeat \/ Restart

\* The threads run again and again (RoundRobin of Threads), and what a peer
\* sends is read in the end although others ask as well (RequestRead of
\* EthernetServer).
Fairness ==
    /\ WF_vars(Send) /\ WF_vars(Answer)
    /\ SF_vars(Deliver) /\ WF_vars(Decode) /\ WF_vars(Report)
    /\ WF_vars(HeartBeat)

Spec == Init /\ [][Next]_vars /\ Fairness

-----------------------------------------------------------------------------
(* Properties. *)

\* The composition implements the script against an abstract board: a request
\* is carried out once or not at all, one at a time and whole, the ones given up
\* in any order and at any time after; only serial commands and restarts change
\* the board otherwise.
ImplementsHost == Host!Init /\ [][Host!Next]_(Host!vars)

\* With loop() alone the outputs are those of PortOutputs, restarts and failed
\* requests included: pins only move to the level their value calls for, and
\* all of them do in the end.
ImplementsOutputs == Outputs!Spec

\* A command none of whose requests failed leaves the board with the script's
\* values, whatever failed, was lost or was carried out late before its requests;
\* nothing is said of a port changed after the command's request for it.
BoardFollowsScript == Host!BoardFollowsScript

\* ... and its pins at the levels of those values, from the script's copy to
\* the output, once the calls that overlapped were followed by one alone.
PinsFollowScript ==
    port = 0 /\ ok /\ clean /\ Board!Idle =>
        \A p \in 1 .. NPorts, b \in 0 .. Pbit - 1 :
            pin[p][b] = Board!Outputs!Level(shadow[p], b)

\* When the answer goes out, it tells the script's values of the ports that the
\* command has written, unless one of them was changed since; and without serial
\* commands the report, though read value by value, is what the board has.
AnswerTellsBoard ==
    [][~ answer /\ answer' =>
          /\ ok => \A p \in 1 .. port : report'[p] = shadow[p]
          /\ world # "serial" => report' = val]_vars

\* A command of the script comes to its end, as long as no request fails and
\* the board does not restart, whoever else uses the board.
CommandEnds == world # "faulty" /\ port # 0 ~> port = 0
=============================================================================
