------------------------------ MODULE PortControl ------------------------------
(***************************************************************************)
(* decodeData of main/main.ino and its two callers: loop() through         *)
(* handleWebServer (main/ethFunctions.ino) and heartBeatThread.            *)
(*                                                                         *)
(* The scheduler can take the processor from either caller between any two *)
(* accesses to a port variable or a pin, and nothing in the code keeps the *)
(* callers apart.  The loop that writes the pins reads the variables       *)
(* without synchronisation: a build may load a variable before every write *)
(* ("reload") or keep the four values in registers for the whole loop      *)
(* ("hoist"), since no opaque call stands between the writes.              *)
(***************************************************************************)
EXTENDS Integers, Sequences

CONSTANTS
    NPorts, Pbit, MaxValue,  \* as in PortOutputs
    Callers,                 \* who calls decodeData: "loop", "heartBeat", or both
    Lines,                   \* what the serial port may receive
    Requests                 \* the portVal arguments of the web requests

\* One command, as decodeData sees it: the port its first letter selects (0
\* for any other letter), its length, and toInt() of the rest.
Data == [cmd : 0 .. NPorts, len : Nat, num : Int]

ASSUME PortControlAssumption ==
    /\ NPorts \in Nat \ {0} /\ Pbit \in Nat \ {0} /\ MaxValue \in Nat
    /\ \A b \in 0 .. Pbit - 1 : 2^b \in Nat \ {0}  \* arithmetic the prover lacks
    /\ Callers \subseteq {"loop", "heartBeat"}
    /\ Lines \subseteq Data
    /\ \A r \in Requests : r.terminated \in BOOLEAN /\ r.args \in Seq(Data) /\ r.args # <<>>

VARIABLES
    build,    \* which of the two builds is running
    val,      \* P1A_val, P1B_val, P2A_val, P2B_val
    pin,      \* levels on the output pins
    pc,       \* where each caller is in decodeData
    data,     \* its argument receivedData
    reply,    \* its local returnString
    copy,     \* the port values it holds in registers
    pos,      \* bit and port of the loop's next statement
    request,  \* arguments of the web request being handled
    alone,    \* auxiliary: callers whose call has met no other call
    clean     \* auxiliary: every call since the last one alone was alone

vars == << build, val, pin, pc, data, reply, copy, pos, request, alone, clean >>

Outputs == INSTANCE PortOutputs

PortIds == 1 .. NPorts
Bits    == 0 .. Pbit - 1
Bytes   == 0 .. MaxValue
Level(v, b) == Outputs!Level(v, b)
PinsMatch   == Outputs!PinsMatch

NoData  == [cmd |-> 0, len |-> 0, num |-> 0]
NoReply == [port |-> 0, value |-> 0]
Start   == [bit |-> 0, port |-> 1]
Builds  == {"reload", "hoist"}

TypeOK ==
    /\ build \in Builds
    /\ val \in [PortIds -> Bytes]
    /\ pin \in [PortIds -> [Bits -> Outputs!Levels]]
    /\ pc \in [Callers -> {"idle", "assign", "reply", "load", "write"}]
    /\ data \in [Callers -> Data]
    /\ reply \in [Callers -> [port : 0 .. NPorts, value : Bytes]]
    /\ copy \in [Callers -> [PortIds -> Bytes]]
    /\ pos \in [Callers -> [bit : Bits, port : PortIds]]
    /\ request \in Seq(Data)
    /\ alone \subseteq Callers
    /\ clean \in BOOLEAN

\* setup() drives every output HIGH; the port variables are 0.
Init ==
    /\ build \in Builds
    /\ val = Outputs!InitialVal
    /\ pin = Outputs!InitialPin
    /\ pc = [c \in Callers |-> "idle"]
    /\ data = [c \in Callers |-> NoData]
    /\ reply = [c \in Callers |-> NoReply]
    /\ copy = [c \in Callers |-> Outputs!InitialVal]
    /\ pos = [c \in Callers |-> Start]
    /\ request = <<>>
    /\ alone = {}
    /\ clean = TRUE

-----------------------------------------------------------------------------
(* Decoding a command. *)

\* The number is parsed only from strings of two to four characters.
ReceivedValue(d) == IF d.len < 5 /\ d.len > 1 THEN d.num ELSE -1

\* Faulty variants: without the upper bound, and with one that is too low.
AcceptsBelow(d) == d.cmd # 0 /\ ReceivedValue(d) >= 0 /\ ReceivedValue(d) < MaxValue
AcceptsUnbounded(d) == d.cmd # 0 /\ ReceivedValue(d) >= 0
Accepts(d) ==
    /\ d.cmd # 0
    /\ ReceivedValue(d) >= 0
    /\ ReceivedValue(d) <= MaxValue

\* httpFilterString: the text between the first "=" and the next "&"; with no
\* "&" it runs to the end of the request line, too long to be a number.
FilterString(r) ==
    IF r.terminated THEN Head(r.args)
    ELSE [Head(r.args) EXCEPT !.len = @ + 9]

-----------------------------------------------------------------------------
(* The steps of a call. *)

InCall(c) == pc[c] # "idle"
Others(c) == {d \in Callers \ {c} : InCall(d)}

\* A caller enters decodeData.
Enter(c, d) ==
    /\ pc[c] = "idle"
    /\ pc' = [pc EXCEPT ![c] = "assign"]
    /\ data' = [data EXCEPT ![c] = d]
    /\ alone' = IF Others(c) = {} THEN alone \cup {c} ELSE {}
    /\ clean' = (clean /\ Others(c) = {})
    /\ UNCHANGED << build, val, pin, reply, copy, pos >>

\* heartBeatThread reads a line from the serial port.
SerialLine ==
    /\ "heartBeat" \in Callers
    /\ \E d \in Lines : Enter("heartBeat", d)
    /\ UNCHANGED request

\* handleWebServer finds "portVal=" in the first line of a request.
WebRequest ==
    /\ "loop" \in Callers
    /\ \E r \in Requests :
          /\ Enter("loop", FilterString(r))
          /\ request' = r.args

\* The switch on the command letter stores an accepted value ...
Assign(c) ==
    /\ pc[c] = "assign"
    /\ val' = IF Accepts(data[c])
              THEN [val EXCEPT ![data[c].cmd] = ReceivedValue(data[c])]
              ELSE val
    /\ pc' = [pc EXCEPT ![c] = "reply"]
    /\ UNCHANGED << build, pin, data, reply, copy, pos, request, alone, clean >>

\* ... and formats the value the variable has by then.  In the faulty variant
\* every case of the switch formats the variable of the first.
ReplyTextFirst(d) == IF d.cmd = 0 THEN NoReply ELSE [port |-> d.cmd, value |-> val[1]]
ReplyText(d) == IF d.cmd = 0 THEN NoReply ELSE [port |-> d.cmd, value |-> val[d.cmd]]

Reply(c) ==
    /\ pc[c] = "reply"
    /\ reply' = [reply EXCEPT ![c] = ReplyText(data[c])]
    /\ pc' = [pc EXCEPT ![c] = "load"]
    /\ UNCHANGED << build, val, pin, data, copy, pos, request, alone, clean >>

-----------------------------------------------------------------------------
(* The loop that writes the pins, one statement per bit and port. *)

\* The order of the statements: the ports of a bit, then the next bit.
LastPort(s) == s.port = NPorts
\* Faulty variants: the loop ends one bit early, and the index is not advanced.
LastStatementEarly(s) == LastPort(s) /\ s.bit >= Pbit - 2
LastStatement(s) == LastPort(s) /\ s.bit = Pbit - 1
FollowingSame(s) == IF LastPort(s) THEN [s EXCEPT !.port = 1] ELSE [s EXCEPT !.port = @ + 1]
Following(s) ==
    IF LastPort(s) THEN [bit |-> s.bit + 1, port |-> 1]
    ELSE [s EXCEPT !.port = @ + 1]

\* Load a port variable: for the statement to come, or for the whole loop.
Load(c) ==
    /\ pc[c] = "load"
    /\ copy' = [copy EXCEPT ![c][pos[c].port] = val[pos[c].port]]
    /\ \/ /\ build = "reload" \/ LastPort(pos[c])
          /\ pc' = [pc EXCEPT ![c] = "write"]
          /\ pos' = IF build = "reload" THEN pos ELSE [pos EXCEPT ![c] = Start]
       \/ /\ build = "hoist" /\ ~LastPort(pos[c])
          /\ pos' = [pos EXCEPT ![c].port = @ + 1]
          /\ UNCHANGED pc
    /\ UNCHANGED << build, val, pin, data, reply, request, alone, clean >>

\* In the faulty variant every statement tests the first port's value.
WritePinFirst(c) ==
    pin' = [pin EXCEPT ![pos[c].port][pos[c].bit] = Level(copy[c][1], pos[c].bit)]
WritePin(c) ==
    pin' = [pin EXCEPT ![pos[c].port][pos[c].bit] =
              Level(copy[c][pos[c].port], pos[c].bit)]

WriteNext(c) ==
    /\ pc[c] = "write"
    /\ ~LastStatement(pos[c])
    /\ WritePin(c)
    /\ pos' = [pos EXCEPT ![c] = Following(@)]
    /\ pc' = [pc EXCEPT ![c] = IF build = "reload" THEN "load" ELSE "write"]
    /\ UNCHANGED << build, val, data, reply, copy, request, alone, clean >>

\* The last statement of the loop, and the return to the caller.
WriteLast(c) ==
    /\ pc[c] = "write"
    /\ LastStatement(pos[c])
    /\ WritePin(c)
    /\ pc' = [pc EXCEPT ![c] = "idle"]
    /\ data' = [data EXCEPT ![c] = NoData]
    /\ reply' = [reply EXCEPT ![c] = NoReply]
    /\ copy' = [copy EXCEPT ![c] = Outputs!InitialVal]
    /\ pos' = [pos EXCEPT ![c] = Start]
    /\ request' = IF c = "loop" THEN <<>> ELSE request
    /\ clean' = (clean \/ c \in alone)
    /\ alone' = alone \ {c}
    /\ UNCHANGED << build, val >>

Step(c) == Assign(c) \/ Reply(c) \/ Load(c) \/ WriteNext(c) \/ WriteLast(c)

Next == SerialLine \/ WebRequest \/ \E c \in Callers : Step(c)

Spec == Init /\ [][Next]_vars

\* The scheduler gives each caller the processor again and again (RoundRobin of
\* Threads); commands may or may not arrive.
FairSpec == Spec /\ \A c \in Callers : WF_vars(Step(c))

-----------------------------------------------------------------------------
(* Properties. *)

Idle == \A c \in Callers : ~InCall(c)

\* The outputs repair themselves: whatever two overlapping calls left behind,
\* once a call ran alone, and until calls overlap again, the pins of every port
\* show its value whenever no call is under way.
RepairedWhenClean == Idle /\ clean => PinsMatch

\* While calls have not overlapped, a command moves pins of its own port only:
\* rewriting the other ports never makes one of their pins flicker.
NoGlitch ==
    [][clean => \A p \in PortIds, b \in Bits :
          pin'[p][b] # pin[p][b] =>
             \E c \in Callers : pc[c] = "write" /\ data[c].cmd = p]_vars

\* The answer to a command that met no other call is the value it set.
ReplyTellsCommand ==
    \A c \in alone : reply[c] # NoReply /\ Accepts(data[c]) =>
        reply[c] = [port |-> data[c].cmd, value |-> data[c].num]

\* Every call returns.
CallsReturn == \A c \in Callers : InCall(c) ~> ~InCall(c)

\* A single caller implements the promise of PortOutputs.
ImplementsOutputs == Outputs!Spec

\* "Write Ports": when no call is under way the pins show the port values.
PinsMatchWhenQuiet == Idle => PinsMatch

\* Every portVal argument of a web request is applied to its port.
EveryArgumentApplied ==
    [][\A k \in DOMAIN request :
          "loop" \in alone /\ pc["loop"] = "write" /\ pc'["loop"] = "idle"
             /\ Accepts(request[k])
          => val'[request[k].cmd] = request[k].num]_vars
=============================================================================
