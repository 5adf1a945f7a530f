-------------------------- MODULE RemoteControl_proofs --------------------------
(***************************************************************************)
(* Proofs about the script and the board together, for every number of     *)
(* ports, pins and values, every table of commands and every input on the  *)
(* serial port.  What decodeData guarantees comes from PortControl_proofs. *)
(***************************************************************************)
EXTENDS RemoteControl, TLAPS

Decoder == INSTANCE PortControl_proofs WITH Requests <- ScriptRequests

PortIds == 1 .. NPorts
Bytes   == 0 .. MaxValue

-----------------------------------------------------------------------------
(* The board inside the composition. *)

LEMMA WrittenType ==
    ASSUME NEW p \in PortIds, NEW v \in Bytes
    PROVE  Written(p, v) \in Decoder!Data
BY RemoteAssumption DEF Written, Digits, Decoder!Data, PortIds, Bytes

\* The script's requests are such as decodeData is proved for.
LEMMA BoardAssumption == Decoder!PortControlAssumption
<1>1. ASSUME NEW r \in ScriptRequests
      PROVE  r.terminated \in BOOLEAN /\ r.args \in Seq(Decoder!Data) /\ r.args # <<>>
  <2>1. PICK p \in PortIds, v \in Bytes : r = Request(p, v)
    BY DEF ScriptRequests, PortIds, Bytes
  <2>2. r.terminated \in BOOLEAN /\ r.args = << Written(p, v) >>
    BY <2>1 DEF Request
  <2> QED
    BY <2>2, WrittenType
<1>2. /\ NPorts \in Nat \ {0} /\ Pbit \in Nat \ {0} /\ MaxValue \in Nat
      /\ Callers \subseteq {"loop", "heartBeat"}
      /\ \A b \in 0 .. Pbit - 1 : 2^b \in Nat \ {0}
  BY RemoteAssumption DEF Callers
<1>3. Lines \subseteq Decoder!Data
  BY RemoteAssumption DEF Board!Data, Decoder!Data
<1> QED
  BY <1>1, <1>2, <1>3 DEF Decoder!PortControlAssumption

\* A step of the composition is a step of decodeData and its callers, leaves
\* the board alone, or restarts it.
LEMMA SameSteps ==
    /\ \A c, d : Board!Enter(c, d) <=> Decoder!Enter(c, d)
    /\ \A c : Board!Step(c) <=> Decoder!Step(c)
    /\ Board!SerialLine <=> Decoder!SerialLine
<1>1. \A c, d : Board!Enter(c, d) <=> Decoder!Enter(c, d)
  BY DEF Board!Enter, Decoder!Enter, Board!Others, Decoder!Others, Board!InCall, Decoder!InCall
<1>2. Board!SerialLine <=> Decoder!SerialLine
  BY <1>1 DEF Board!SerialLine, Decoder!SerialLine
<1>3. \A c : Board!Assign(c) <=> Decoder!Assign(c)
  BY DEF Board!Assign, Decoder!Assign, Board!Accepts, Decoder!Accepts,
         Board!ReceivedValue, Decoder!ReceivedValue
<1>4. \A c : Board!Reply(c) <=> Decoder!Reply(c)
  BY DEF Board!Reply, Decoder!Reply, Board!ReplyText, Decoder!ReplyText,
         Board!NoReply, Decoder!NoReply
<1>5. \A c : Board!Load(c) <=> Decoder!Load(c)
  BY DEF Board!Load, Decoder!Load, Board!LastPort, Decoder!LastPort, Board!Start, Decoder!Start
<1>6. \A c : Board!WritePin(c) <=> Decoder!WritePin(c)
  BY DEF Board!WritePin, Decoder!WritePin, Board!Level, Decoder!Level,
         Board!Outputs!Level, Decoder!Outputs!Level
<1>7. \A c : Board!WriteNext(c) <=> Decoder!WriteNext(c)
  BY <1>6 DEF Board!WriteNext, Decoder!WriteNext, Board!LastStatement, Decoder!LastStatement,
         Board!LastPort, Decoder!LastPort, Board!Following, Decoder!Following
<1>8. \A c : Board!WriteLast(c) <=> Decoder!WriteLast(c)
  BY <1>6 DEF Board!WriteLast, Decoder!WriteLast, Board!LastStatement, Decoder!LastStatement,
         Board!LastPort, Decoder!LastPort, Board!NoData, Decoder!NoData,
         Board!NoReply, Decoder!NoReply, Board!Start, Decoder!Start,
         Board!Outputs!InitialVal, Decoder!Outputs!InitialVal,
         Board!Outputs!PortIds, Decoder!Outputs!PortIds
<1> QED
  BY <1>1, <1>2, <1>3, <1>4, <1>5, <1>7, <1>8 DEF Board!Step, Decoder!Step

\* After a restart the board is as at the start of decodeData's proofs.
LEMMA PowerUp == Decoder!Init' => Decoder!TypeOK' /\ Decoder!RepairInv'
<1>1. Decoder!Init => Decoder!TypeOK /\ Decoder!RepairInv
  BY BoardAssumption, Decoder!InitTypes, Decoder!InitRepair
<1> QED
  BY <1>1, PTL

LEMMA SameTypes == Board!TypeOK <=> Decoder!TypeOK
BY DEF Board!TypeOK, Decoder!TypeOK, Board!Data, Decoder!Data, Board!PortIds, Decoder!PortIds,
       Board!Bytes, Decoder!Bytes, Board!Bits, Decoder!Bits, Board!Builds, Decoder!Builds,
       Board!Outputs!Levels, Decoder!Outputs!Levels

-----------------------------------------------------------------------------
(* Types, and what the script and the loop know of each other. *)

\* The request the loop has in hand is the one the script is at, and then a
\* free entry is its own, or one that the script has given up.  The answer
\* belongs to the request the script is at.
HandInv ==
    pc["loop"] = "assign" =>
        \/ /\ hand = 0 /\ mine /\ req = "sent" /\ Host!Free # {}
           /\ data["loop"] = Written(port, shadow[port])
        \/ /\ hand \in Host!Entries /\ late[hand] # Host!NoRequest
           /\ data["loop"] = Written(late[hand].port, late[hand].value)

RequestInv ==
    /\ req # "none" => port # 0
    /\ mine => req \in {"sent", "applied"}
    /\ mine /\ req = "sent" => pc["loop"] = "assign" /\ hand = 0
    /\ hand # 0 => pc["loop"] = "assign"
    /\ reporting # 0 => pc["loop"] = "idle"
    /\ answer => mine /\ req = "applied"

ScriptTypes ==
    /\ world \in Worlds
    /\ shadow \in [PortIds -> Bytes]
    /\ port \in 0 .. NPorts
    /\ req \in {"none", "sent", "applied", "silent"}
    /\ reporting \in 0 .. NPorts
    /\ report \in [PortIds -> Bytes]

LateTypes ==
    /\ late \in [Host!Entries -> Host!Requests \cup {Host!NoRequest}]
    /\ hand \in 0 .. NEntries

FlagTypes ==
    /\ resetting \in BOOLEAN /\ ok \in BOOLEAN
    /\ mine \in BOOLEAN /\ answer \in BOOLEAN

Inv == ScriptTypes /\ LateTypes /\ FlagTypes /\ Decoder!TypeOK /\ RequestInv /\ HandInv

\* Entry 0 is none, and no request is for port 0.
LEMMA EntryFacts ==
    /\ 0 \notin Host!Entries /\ Host!Entries \subseteq 0 .. NEntries
    /\ Host!NoRequest \notin Host!Requests
BY RemoteAssumption DEF Host!Entries, Host!NoRequest, Host!Requests, Host!Ports

\* What the loop is given is a request of the script.
LEMMA OwnRequest ==
    ASSUME Inv, req # "none"
    PROVE  port \in PortIds /\ shadow[port] \in Bytes
BY DEF Inv, ScriptTypes, RequestInv, PortIds

LEMMA LateRequest ==
    ASSUME Inv, NEW e \in Host!Entries, late[e] # Host!NoRequest
    PROVE  /\ late[e] \in Host!Requests
           /\ late[e].port \in PortIds /\ late[e].value \in Bytes
<1>1. late[e] \in Host!Requests
  BY DEF Inv, LateTypes
<1> QED
  BY <1>1 DEF Host!Requests, Host!Ports, Host!Values, PortIds, Bytes

\* The loop takes its text apart and enters decodeData with it.
LEMMA EnterStep ==
    ASSUME Decoder!TypeOK, NEW p \in PortIds, NEW v \in Bytes, Enter(p, v)
    PROVE  /\ Decoder!Next
           /\ pc'["loop"] = "assign" /\ data'["loop"] = Written(p, v)
           /\ UNCHANGED << val, pin >>
<1>1. Request(p, v) \in ScriptRequests
  BY DEF ScriptRequests, PortIds, Bytes
<1>2. /\ Decoder!Enter("loop", Decoder!FilterString(Request(p, v)))
      /\ request' = Request(p, v).args
  BY SameSteps DEF Enter, Board!FilterString, Decoder!FilterString
<1>3. Decoder!Next
  BY <1>1, <1>2 DEF Decoder!Next, Decoder!WebRequest, Callers
<1>4. Decoder!FilterString(Request(p, v)) = Written(p, v)
  BY DEF Decoder!FilterString, Request
<1> QED
  BY <1>2, <1>3, <1>4 DEF Decoder!Enter, Decoder!TypeOK, Callers

LEMMA BoardStep ==
    ASSUME Inv, [Next]_vars
    PROVE  [Decoder!Next]_(Decoder!vars) \/ (Restart /\ Decoder!Init')
<1>1. CASE Command \/ Send \/ Answer \/ Fail \/ Query \/ Report \/ UNCHANGED vars
  BY <1>1 DEF Command, Send, Answer, Fail, Query, Report, vars, portVars, Decoder!vars
<1>2. CASE Deliver
  BY <1>2, OwnRequest, EnterStep DEF Deliver, Inv
<1>3. ASSUME NEW e \in Host!Entries, DeliverLate(e)
      PROVE  Decoder!Next
  BY <1>3, LateRequest, EnterStep DEF DeliverLate, Inv
<1>4. ASSUME NEW e \in Host!Entries, Drop(e)
      PROVE  UNCHANGED Decoder!vars
  BY <1>4 DEF Drop, portVars, Decoder!vars
<1>5. CASE Decode \/ HeartBeat \/ SerialLine
  BY <1>5, SameSteps DEF Decode, HeartBeat, SerialLine, Decoder!Next, Callers
<1>6. CASE Restart
  <2>1. Decoder!Init'
    BY <1>6 DEF Restart, Inv, Decoder!TypeOK, Decoder!Init, Board!NoData, Decoder!NoData,
         Board!NoReply, Decoder!NoReply, Board!Start, Decoder!Start,
         Board!Outputs!InitialVal, Decoder!Outputs!InitialVal,
         Board!Outputs!InitialPin, Decoder!Outputs!InitialPin,
         Board!Outputs!PortIds, Decoder!Outputs!PortIds, Board!Outputs!Bits, Decoder!Outputs!Bits
  <2> QED
    BY <1>6, <2>1
<1> QED
  BY <1>1, <1>2, <1>3, <1>4, <1>5, <1>6 DEF Next

LEMMA BoardTypeStep ==
    ASSUME Inv, [Next]_vars
    PROVE  Decoder!TypeOK'
BY BoardStep, PowerUp, BoardAssumption, Decoder!TypeStep DEF Inv

\* What the loop's caller of decodeData does in a step, and the other leaves.
LEMMA LoopStep ==
    ASSUME Decoder!TypeOK, Decoder!Step("loop")
    PROVE  /\ pc["loop"] # "idle"
           /\ pc'["loop"] \in {"reply", "load", "write", "idle"}
           /\ pc["loop"] = "assign" => Decoder!Assign("loop") /\ pc'["loop"] = "reply"
           /\ pc["loop"] # "assign" => val' = val
<1>1. pc \in [Callers -> {"idle", "assign", "reply", "load", "write"}] /\ "loop" \in Callers
  BY DEF Decoder!TypeOK, Callers
<1>2. CASE Decoder!Assign("loop")
  BY <1>1, <1>2 DEF Decoder!Assign
<1>3. CASE Decoder!Reply("loop") \/ Decoder!Load("loop")
  BY <1>1, <1>3 DEF Decoder!Reply, Decoder!Load
<1>4. CASE Decoder!WriteNext("loop")
  BY <1>1, <1>4 DEF Decoder!WriteNext
<1>5. CASE Decoder!WriteLast("loop")
  BY <1>1, <1>5 DEF Decoder!WriteLast
<1> QED
  BY <1>2, <1>3, <1>4, <1>5 DEF Decoder!Step

LEMMA OtherStep ==
    ASSUME Decoder!TypeOK, Decoder!Step("heartBeat") \/ Decoder!SerialLine
    PROVE  /\ pc'["loop"] = pc["loop"] /\ data'["loop"] = data["loop"]
           /\ \/ val' = val
              \/ Decoder!Assign("heartBeat") /\ Decoder!Accepts(data["heartBeat"])
<1>1. /\ pc \in [Callers -> {"idle", "assign", "reply", "load", "write"}]
      /\ data \in [Callers -> Decoder!Data]
      /\ "loop" \in Callers /\ "heartBeat" \in Callers
  BY DEF Decoder!TypeOK, Callers
<1>2. CASE Decoder!SerialLine
  BY <1>1, <1>2 DEF Decoder!SerialLine, Decoder!Enter
<1>3. CASE Decoder!Assign("heartBeat")
  BY <1>1, <1>3 DEF Decoder!Assign
<1>4. CASE Decoder!Reply("heartBeat") \/ Decoder!Load("heartBeat")
  BY <1>1, <1>4 DEF Decoder!Reply, Decoder!Load
<1>5. CASE Decoder!WriteNext("heartBeat")
  BY <1>1, <1>5 DEF Decoder!WriteNext
<1>6. CASE Decoder!WriteLast("heartBeat")
  BY <1>1, <1>6 DEF Decoder!WriteLast
<1> QED
  BY <1>2, <1>3, <1>4, <1>5, <1>6 DEF Decoder!Step

LEMMA NextPortTypes ==
    ASSUME ScriptTypes, port # 0, Host!NextPort
    PROVE  port' \in 0 .. NPorts /\ req' = "none"
BY RemoteAssumption DEF ScriptTypes, Host!NextPort, Host!LastPort

\* The script starts with zeros, at the first port.
LEMMA StartTypes ==
    /\ 0 \in Bytes /\ NPorts \in Nat \ {0} /\ 1 \in 0 .. NPorts /\ 0 \in 0 .. NPorts
    /\ Host!Zero \in [PortIds -> Bytes]
<1>1. 0 \in Bytes
  BY RemoteAssumption DEF Bytes
<1>2. NPorts \in Nat \ {0}
  BY RemoteAssumption
<1>3. 1 \in 0 .. NPorts /\ 0 \in 0 .. NPorts
  BY <1>2
<1>4. Host!Zero \in [PortIds -> Bytes]
  BY <1>1 DEF Host!Zero, Host!Ports, PortIds
<1> QED
  BY <1>1, <1>2, <1>3, <1>4

LEMMA ScriptTypeStep ==
    ASSUME Inv, [Next]_vars
    PROVE  ScriptTypes'
<1> USE DEF scriptVars, netVars, reportVars
<1>1. /\ 0 \in Bytes /\ NPorts \in Nat \ {0} /\ 1 \in 0 .. NPorts /\ 0 \in 0 .. NPorts
      /\ Host!Zero \in [PortIds -> Bytes]
  BY StartTypes
<1>2. CASE Command
  <2>1. PICK c \in DOMAIN tableVal : Host!Command(c)
    BY <1>2 DEF Command
  <2>2. \A p \in PortIds : tableVal[c][p] \in Bytes
    BY RemoteAssumption DEF PortIds, Bytes
  <2>3. \A p \in PortIds : Host!Toggled(shadow[p], tableVal[c][p]) \in Bytes
    BY <2>2, RemoteAssumption DEF Inv, ScriptTypes, Bytes
  <2>4. shadow' \in [PortIds -> Bytes]
    BY <2>1, <2>3 DEF Host!Command, Host!Ports, PortIds
  <2> QED
    BY <1>1, <1>2, <2>1, <2>4 DEF Command, Host!Command, Inv, ScriptTypes
<1>3. CASE Send
  BY <1>3 DEF Send, Host!Send, Inv, ScriptTypes
<1>4. CASE Answer \/ Fail
  <2>1. req # "none" /\ Host!NextPort
    BY <1>4 DEF Answer, Fail
  <2>2. port' \in 0 .. NPorts /\ req' = "none"
    BY <2>1, NextPortTypes DEF Inv, RequestInv
  <2> QED
    BY <1>4, <2>1, <2>2 DEF Answer, Fail, Host!NextPort, Inv, ScriptTypes
<1>5. CASE Deliver
  BY <1>5 DEF Deliver, Inv, ScriptTypes
<1>6. CASE Query
  BY <1>1, <1>6 DEF Query, Inv, ScriptTypes
<1>7. CASE Decode
  BY <1>1, <1>7 DEF Decode, CarryOut, Inv, ScriptTypes
<1>8. CASE Report
  <2>1. reporting \in PortIds /\ val[reporting] \in Bytes
    BY <1>1, <1>8 DEF Report, Inv, ScriptTypes, Decoder!TypeOK, Decoder!PortIds, Decoder!Bytes, PortIds, Bytes
  <2>2. report' \in [PortIds -> Bytes]
    BY <1>8, <2>1 DEF Report, ReadNext, Inv, ScriptTypes
  <2>3. reporting' \in 0 .. NPorts
    BY <1>1, <1>8, <2>1 DEF Report, PortIds
  <2> QED
    BY <1>8, <2>2, <2>3 DEF Report, Inv, ScriptTypes
<1>9. CASE SerialLine \/ HeartBeat
  BY <1>9 DEF SerialLine, HeartBeat, Inv, ScriptTypes
<1>10. CASE Restart
  BY <1>1, <1>10 DEF Restart, Inv, ScriptTypes
<1>11. CASE UNCHANGED vars
  BY <1>11 DEF vars, Inv, ScriptTypes
<1>12. ASSUME NEW e \in Host!Entries, DeliverLate(e) \/ Drop(e)
       PROVE  ScriptTypes'
  BY <1>12 DEF DeliverLate, Drop, Host!Drop, Inv, ScriptTypes
<1> QED
  BY <1>2, <1>3, <1>4, <1>5, <1>6, <1>7, <1>8, <1>9, <1>10, <1>11, <1>12 DEF Next

LEMMA LateTypeStep ==
    ASSUME Inv, [Next]_vars
    PROVE  LateTypes'
<1> USE DEF scriptVars, netVars
<1>0. /\ LateTypes /\ 0 \in 0 .. NEntries
      /\ \A e \in Host!Entries : e \in 0 .. NEntries
  BY RemoteAssumption, EntryFacts DEF Inv
<1>1. CASE Command \/ Send \/ Answer \/ Deliver \/ Query \/ Report \/ SerialLine
           \/ HeartBeat \/ UNCHANGED vars
  BY <1>0, <1>1 DEF Command, Host!Command, Send, Host!Send, Answer, Deliver, Query, Report,
       SerialLine, HeartBeat, vars, LateTypes
<1>2. CASE Fail
  <2>1. port \in PortIds /\ shadow[port] \in Bytes
    BY <1>2, OwnRequest DEF Fail
  <2>2. [port |-> port, value |-> shadow[port]] \in Host!Requests
    BY <2>1 DEF Host!Requests, Host!Ports, Host!Values, PortIds, Bytes
  <2>3. \A e \in Host!Free : e \in Host!Entries
    BY DEF Host!Free
  <2>4. \/ UNCHANGED << late, hand >>
        \/ \E e \in Host!Free : GivenUp(e) /\ hand' \in {e, hand}
    BY <1>2 DEF Fail
  <2> QED
    BY <1>0, <2>2, <2>3, <2>4 DEF GivenUp, LateTypes
<1>3. CASE Decode
  BY <1>0, <1>3 DEF Decode, CarryOut, LateTypes
<1>4. CASE Restart
  BY <1>0, <1>4 DEF Restart, Host!Nothing, LateTypes
<1>5. ASSUME NEW e \in Host!Entries, DeliverLate(e) \/ Drop(e)
      PROVE  LateTypes'
  BY <1>0, <1>5 DEF DeliverLate, Drop, Host!Drop, LateTypes
<1> QED
  BY <1>1, <1>2, <1>3, <1>4, <1>5 DEF Next

LEMMA FlagTypeStep ==
    ASSUME Inv, [Next]_vars
    PROVE  FlagTypes'
<1> USE DEF scriptVars, netVars, reportVars
<1>1. resetting \in BOOLEAN /\ ok \in BOOLEAN /\ mine \in BOOLEAN /\ answer \in BOOLEAN
  BY DEF Inv, FlagTypes
<1>2. resetting' \in BOOLEAN
  BY <1>1 DEF Next, vars, Command, Host!Command, Send, Host!Send, Answer, Fail, Host!NextPort,
       Deliver, DeliverLate, Drop, Host!Drop, Query, Decode, CarryOut, Report,
       SerialLine, HeartBeat, Restart
<1>3. ok' \in BOOLEAN
  BY <1>1 DEF Next, vars, Command, Host!Command, Send, Host!Send, Answer, Fail, Host!NextPort,
       Deliver, DeliverLate, Drop, Host!Drop, Query, Decode, CarryOut, Report,
       SerialLine, HeartBeat, Restart
<1>4. mine' \in BOOLEAN
  BY <1>1 DEF Next, vars, Command, Host!Command, Send, Host!Send, Answer, Fail, Host!NextPort,
       Deliver, DeliverLate, Drop, Host!Drop, Query, Decode, CarryOut, Report,
       SerialLine, HeartBeat, Restart
<1>5. answer' \in BOOLEAN
  BY <1>1 DEF Next, vars, Command, Host!Command, Send, Host!Send, Answer, Fail, Host!NextPort,
       Deliver, DeliverLate, Drop, Host!Drop, Query, Decode, CarryOut, Report,
       SerialLine, HeartBeat, Restart
<1> QED
  BY <1>2, <1>3, <1>4, <1>5 DEF FlagTypes

LEMMA RequestStep ==
    ASSUME Inv, [Next]_vars
    PROVE  RequestInv'
<1> USE DEF scriptVars, netVars, reportVars, portVars
<1>1. Decoder!TypeOK /\ RequestInv /\ HandInv
  BY DEF Inv
<1>2. CASE Command
  <2>1. port = 0 /\ port' = 1 /\ UNCHANGED << pc, req, mine, hand, answer, reporting >>
    BY <1>2 DEF Command, Host!Command
  <2> QED
    BY <1>1, <2>1 DEF RequestInv
<1>3. CASE Send
  <2>1. /\ port # 0 /\ req = "none" /\ req' = "sent"
        /\ UNCHANGED << pc, port, mine, hand, answer, reporting >>
    BY <1>3 DEF Send, Host!Send
  <2> QED
    BY <1>1, <2>1 DEF RequestInv
<1>4. CASE Answer
  <2>1. mine' = FALSE /\ answer' = FALSE /\ req' = "none"
        /\ UNCHANGED << pc, hand, reporting >>
    BY <1>4 DEF Answer, Host!NextPort
  <2> QED
    BY <1>1, <2>1 DEF RequestInv
<1>5. CASE Fail
  <2>1. mine' = FALSE /\ answer' = FALSE /\ req' = "none"
        /\ UNCHANGED << pc, reporting >>
    BY <1>5 DEF Fail, Host!NextPort
  <2>2. hand' = hand \/ (req = "sent" /\ mine)
    BY <1>5 DEF Fail
  <2>3. hand' # 0 => pc'["loop"] = "assign"
    BY <1>1, <2>1, <2>2 DEF RequestInv
  <2>4. reporting' # 0 => pc'["loop"] = "idle"
    BY <1>1, <2>1 DEF RequestInv
  <2>5. /\ ~ mine' /\ ~ answer'
        /\ ~ (req' # "none")
    BY <2>1
  <2> QED
    BY <2>3, <2>4, <2>5 DEF RequestInv
<1>6. CASE Deliver
  <2>1. /\ req = "sent" /\ reporting = 0 /\ mine' = TRUE
        /\ UNCHANGED << port, req, hand, answer, reporting >>
    BY <1>6 DEF Deliver, LoopIdle
  <2>2. pc'["loop"] = "assign"
    BY <1>1, <1>6, OwnRequest, EnterStep DEF Deliver
  <2>3. pc["loop"] = "idle"
    BY <1>6 DEF Deliver, LoopIdle
  <2> QED
    BY <1>1, <2>1, <2>2, <2>3 DEF RequestInv
<1>7. ASSUME NEW e \in Host!Entries, DeliverLate(e)
      PROVE  RequestInv'
  <2>1. /\ reporting = 0 /\ pc["loop"] = "idle"
        /\ UNCHANGED << port, req, mine, answer, reporting >>
    BY <1>7 DEF DeliverLate, LoopIdle
  <2>2. pc'["loop"] = "assign"
    BY <1>1, <1>7, LateRequest, EnterStep DEF DeliverLate
  <2> QED
    BY <1>1, <2>1, <2>2 DEF RequestInv
<1>8. ASSUME NEW e \in Host!Entries, Drop(e)
      PROVE  RequestInv'
  BY <1>1, <1>8 DEF Drop, Host!Drop, RequestInv
<1>9. CASE Query
  BY <1>1, <1>9 DEF Query, LoopIdle, RequestInv
<1>10. CASE Decode
  <2>1. /\ pc["loop"] # "idle" /\ pc'["loop"] \in {"reply", "load", "write", "idle"}
        /\ pc["loop"] = "assign" => pc'["loop"] = "reply"
    BY <1>1, <1>10, SameSteps, LoopStep DEF Decode
  <2>2. reporting = 0
    BY <1>1, <2>1 DEF RequestInv
  <2>3. /\ UNCHANGED << port, mine, answer >>
        /\ pc'["loop"] # "idle" => reporting' = reporting
    BY <1>10 DEF Decode
  <2>4. /\ hand' = 0
        /\ req' = req \/ (pc["loop"] = "assign" /\ hand = 0 /\ req' = "applied")
    BY <1>1, <1>10 DEF Decode, CarryOut, RequestInv
  <2>5. pc["loop"] = "assign" /\ hand = 0 => req = "sent" /\ req' = "applied"
    BY <1>1, <1>10, EntryFacts DEF Decode, CarryOut, HandInv
  <2> QED
    BY <1>1, <2>1, <2>2, <2>3, <2>4, <2>5 DEF RequestInv
<1>11. CASE Report
  BY <1>1, <1>11 DEF Report, RequestInv
<1>12. CASE SerialLine \/ HeartBeat
  <2>1. pc'["loop"] = pc["loop"]
    BY <1>1, <1>12, SameSteps, OtherStep DEF SerialLine, HeartBeat
  <2>2. UNCHANGED << port, req, mine, hand, answer, reporting >>
    BY <1>12 DEF SerialLine, HeartBeat
  <2> QED
    BY <1>1, <2>1, <2>2 DEF RequestInv
<1>13. CASE Restart
  <2>1. pc'["loop"] = "idle" /\ reporting' = 0 /\ port' = port /\ hand' = 0
    BY <1>13 DEF Restart, Callers
  <2>2. CASE UNCHANGED << mine, answer, req >> /\ (mine => req # "sent")
    BY <1>1, <2>1, <2>2 DEF RequestInv
  <2>3. CASE req # "none" /\ req' = "silent" /\ mine' = FALSE /\ answer' = FALSE
    BY <1>1, <2>1, <2>3 DEF RequestInv
  <2>4. \/ (answer \/ req = "none" \/ ~ mine) /\ UNCHANGED << mine, answer, req >>
        \/ req # "none" /\ req' = "silent" /\ mine' = FALSE /\ answer' = FALSE
    BY <1>13 DEF Restart
  <2>5. answer \/ req = "none" \/ ~ mine => (mine => req # "sent")
    BY <1>1 DEF RequestInv
  <2> QED
    BY <2>2, <2>3, <2>4, <2>5
<1>14. CASE UNCHANGED vars
  BY <1>1, <1>14 DEF vars, RequestInv
<1> QED
  BY <1>2, <1>3, <1>4, <1>5, <1>6, <1>7, <1>8, <1>9, <1>10, <1>11, <1>12, <1>13, <1>14 DEF Next

\* A request that the loop reads, gives to decodeData or drops is not mistaken
\* for another one.
LEMMA HandStep ==
    ASSUME Inv, [Next]_vars
    PROVE  HandInv'
<1> USE DEF scriptVars, netVars, reportVars, portVars
<1>1. Decoder!TypeOK /\ RequestInv /\ HandInv /\ LateTypes
  BY DEF Inv
<1>2. ASSUME UNCHANGED << shadow, port, req, late, mine, hand >>,
             pc'["loop"] = pc["loop"], data'["loop"] = data["loop"]
      PROVE  HandInv'
  BY <1>1, <1>2 DEF HandInv, Host!Free
<1>3. ASSUME pc'["loop"] # "assign"
      PROVE  HandInv'
  BY <1>3 DEF HandInv
<1>4. CASE Command
  <2>1. req = "none" /\ UNCHANGED << req, late, mine, hand, pc, data >>
    BY <1>1, <1>4 DEF Command, Host!Command, RequestInv
  <2> QED
    BY <1>1, <2>1 DEF HandInv
<1>5. CASE Send
  <2>1. req = "none" /\ UNCHANGED << late, mine, hand, pc, data >>
    BY <1>5 DEF Send, Host!Send
  <2> QED
    BY <1>1, <2>1 DEF HandInv
<1>6. CASE Answer
  <2>1. req = "applied" /\ UNCHANGED << late, hand, pc, data >>
    BY <1>6 DEF Answer
  <2> QED
    BY <1>1, <2>1 DEF HandInv
<1>7. CASE Fail
  <2>1. UNCHANGED << pc, data >>
    BY <1>7 DEF Fail
  <2>2. CASE mine /\ req = "sent"
    <3>1. PICK e \in Host!Free : GivenUp(e) /\ hand' = e
      BY <1>7, <2>2 DEF Fail
    <3>2. e \in Host!Entries /\ late'[e] = [port |-> port, value |-> shadow[port]]
      BY <1>1, <3>1 DEF Host!Free, GivenUp, LateTypes
    <3>3. late'[e] # Host!NoRequest
      BY <3>2, <2>2, OwnRequest DEF Host!NoRequest, PortIds
    <3>4. pc["loop"] = "assign" => data["loop"] = Written(port, shadow[port])
      BY <1>1, <2>2, EntryFacts DEF HandInv, RequestInv
    <3> QED
      BY <2>1, <3>1, <3>2, <3>3, <3>4 DEF HandInv
  <2>3. CASE pc["loop"] = "assign" /\ ~ (mine /\ req = "sent")
    <3>1. /\ hand \in Host!Entries /\ late[hand] # Host!NoRequest
          /\ data["loop"] = Written(late[hand].port, late[hand].value)
      BY <1>1, <2>3 DEF HandInv
    <3>2. /\ hand' = hand
          /\ late' = late \/ \E e \in Host!Free : GivenUp(e)
      BY <1>7, <2>3 DEF Fail
    <3>3. hand \notin Host!Free
      BY <3>1 DEF Host!Free
    <3>4. late'[hand] = late[hand]
      BY <1>1, <3>1, <3>2, <3>3 DEF GivenUp, LateTypes
    <3> QED
      BY <2>1, <3>1, <3>2, <3>4 DEF HandInv
  <2> QED
    BY <1>3, <2>1, <2>2, <2>3
<1>8. CASE Deliver
  <2>1. /\ req = "sent" /\ mine' /\ Host!Free # {} /\ pc["loop"] = "idle"
        /\ UNCHANGED << shadow, port, req, late, hand >>
    BY <1>8 DEF Deliver, LoopIdle
  <2>2. pc'["loop"] = "assign" /\ data'["loop"] = Written(port, shadow[port])
    BY <1>1, <1>8, OwnRequest, EnterStep DEF Deliver
  <2>3. hand = 0
    BY <1>1, <2>1 DEF RequestInv
  <2> QED
    BY <2>1, <2>2, <2>3 DEF HandInv, Host!Free
<1>9. ASSUME NEW e \in Host!Entries, DeliverLate(e)
      PROVE  HandInv'
  <2>1. /\ late[e] # Host!NoRequest /\ hand' = e /\ LoopIdle
        /\ late' = late
    BY <1>9 DEF DeliverLate
  <2>2. pc'["loop"] = "assign" /\ data'["loop"] = Written(late[e].port, late[e].value)
    BY <1>1, <1>9, LateRequest, EnterStep DEF DeliverLate
  <2> QED
    BY <2>1, <2>2 DEF HandInv
<1>10. ASSUME NEW e \in Host!Entries, Drop(e)
       PROVE  HandInv'
  <2>1. /\ e # hand /\ late' = [late EXCEPT ![e] = Host!NoRequest]
        /\ UNCHANGED << shadow, port, req, mine, hand, pc, data >>
    BY <1>10 DEF Drop, Host!Drop
  <2>2. /\ hand \in Host!Entries => late'[hand] = late[hand]
        /\ e \in Host!Free'
    BY <1>1, <2>1 DEF LateTypes, Host!Free
  <2> QED
    BY <1>1, <2>1, <2>2 DEF HandInv
<1>11. CASE Decode
  <2>1. pc'["loop"] # "assign"
    BY <1>1, <1>11, SameSteps, LoopStep DEF Decode
  <2> QED
    BY <1>3, <2>1
<1>12. CASE SerialLine \/ HeartBeat
  <2>1. pc'["loop"] = pc["loop"] /\ data'["loop"] = data["loop"]
    BY <1>1, <1>12, SameSteps, OtherStep DEF SerialLine, HeartBeat
  <2> QED
    BY <1>2, <1>12, <2>1 DEF SerialLine, HeartBeat
<1>13. CASE Restart
  BY <1>3, <1>13 DEF Restart, Callers
<1>14. CASE Query \/ Report \/ UNCHANGED vars
  BY <1>2, <1>14 DEF Query, Report, vars
<1> QED
  BY <1>4, <1>5, <1>6, <1>7, <1>8, <1>9, <1>10, <1>11, <1>12, <1>13, <1>14 DEF Next

LEMMA InvStep ==
    ASSUME Inv, [Next]_vars
    PROVE  Inv'
BY BoardTypeStep, ScriptTypeStep, LateTypeStep, FlagTypeStep, RequestStep, HandStep DEF Inv

LEMMA InitInv == Init => Inv /\ Decoder!Init
<1> SUFFICES ASSUME Init PROVE Inv /\ Decoder!Init
  OBVIOUS
<1>1. Decoder!Init
  BY DEF Init, Board!Init, Decoder!Init, Board!Builds, Decoder!Builds, Board!NoData,
         Decoder!NoData, Board!NoReply, Decoder!NoReply, Board!Start, Decoder!Start,
         Board!Outputs!InitialVal, Decoder!Outputs!InitialVal,
         Board!Outputs!InitialPin, Decoder!Outputs!InitialPin,
         Board!Outputs!PortIds, Decoder!Outputs!PortIds, Board!Outputs!Bits, Decoder!Outputs!Bits
<1>2. Decoder!TypeOK
  BY <1>1, BoardAssumption, Decoder!InitTypes
<1>3. /\ 0 \in Bytes /\ NPorts \in Nat \ {0} /\ 1 \in 0 .. NPorts /\ 0 \in 0 .. NPorts
      /\ Host!Zero \in [PortIds -> Bytes]
  BY StartTypes
<1>4. ScriptTypes
  BY <1>3 DEF Init, ScriptTypes
<1>5. FlagTypes
  BY DEF Init, FlagTypes
<1>6. RequestInv /\ HandInv
  BY DEF Init, Board!Init, RequestInv, HandInv, Callers
<1>7. LateTypes
  BY RemoteAssumption DEF Init, Host!Nothing, LateTypes
<1> QED
  BY <1>1, <1>2, <1>4, <1>5, <1>6, <1>7 DEF Inv

LEMMA Invariant == Spec => []Inv
<1>1. Init => Inv
  BY InitInv
<1>2. Inv /\ [Next]_vars => Inv'
  BY InvStep
<1> QED
  BY <1>1, <1>2, PTL DEF Spec

-----------------------------------------------------------------------------
(* The abstract board of HostControl is the port values. *)

\* decodeData takes apart what the script has put together.
LEMMA WrittenIsAccepted ==
    ASSUME NEW p \in PortIds, NEW v \in Bytes
    PROVE  /\ Decoder!Accepts(Written(p, v)) /\ Written(p, v).cmd = p
           /\ Decoder!ReceivedValue(Written(p, v)) = v /\ Written(p, v).num = v
BY RemoteAssumption DEF Decoder!Accepts, Decoder!ReceivedValue, Written, Digits, PortIds, Bytes

LEMMA FailStep ==
    ASSUME Inv, Fail
    PROVE  Host!Fail
<1>1. /\ req \in {"sent", "applied"} /\ ok' = FALSE /\ Host!NextPort
      /\ \/ UNCHANGED late
         \/ req = "sent" /\ \E e \in Host!Free : GivenUp(e)
  BY DEF Fail
<1> QED
  BY <1>1 DEF Host!Fail, GivenUp

\* Only the assignment of decodeData touches the board's values: it carries out
\* the script's request, or one the script has given up.
LEMMA DecodeStep ==
    ASSUME Inv, Decode
    PROVE  Host!Take \/ (\E e \in Host!Entries : Host!TakeLate(e)) \/ UNCHANGED Host!vars
<1>1. Decoder!TypeOK /\ HandInv
  BY DEF Inv
<1>2. /\ pc["loop"] = "assign" => Decoder!Assign("loop")
      /\ pc["loop"] # "assign" => val' = val
  BY <1>1, SameSteps, LoopStep DEF Decode
<1>3. UNCHANGED << shadow, port, resetting >>
  BY DEF Decode
<1>4. CASE pc["loop"] # "assign"
  BY <1>2, <1>3, <1>4 DEF Decode, Host!vars
<1>5. CASE pc["loop"] = "assign" /\ hand = 0
  <2>1. /\ req = "sent" /\ Host!Free # {}
        /\ data["loop"] = Written(port, shadow[port])
    BY <1>1, <1>5, EntryFacts DEF HandInv
  <2>2. port \in PortIds /\ shadow[port] \in Bytes
    BY <2>1, OwnRequest
  <2>3. val' = [val EXCEPT ![port] = shadow[port]]
    BY <1>2, <1>5, <2>1, <2>2, WrittenIsAccepted DEF Decoder!Assign
  <2>4. req' = "applied" /\ UNCHANGED << late, ok >>
    BY <1>5 DEF Decode, CarryOut
  <2> QED
    BY <1>3, <2>1, <2>3, <2>4 DEF Host!Take
<1>6. CASE pc["loop"] = "assign" /\ hand # 0
  <2>1. /\ hand \in Host!Entries /\ late[hand] # Host!NoRequest
        /\ data["loop"] = Written(late[hand].port, late[hand].value)
    BY <1>1, <1>6 DEF HandInv
  <2>2. late[hand].port \in PortIds /\ late[hand].value \in Bytes
    BY <2>1, LateRequest
  <2>3. val' = [val EXCEPT ![late[hand].port] = late[hand].value]
    BY <1>2, <1>6, <2>1, <2>2, WrittenIsAccepted DEF Decoder!Assign
  <2>4. /\ late' = [late EXCEPT ![hand] = Host!NoRequest]
        /\ ok' = (ok /\ ~ Host!Done(late[hand].port)) /\ req' = req
    BY <1>6 DEF Decode, CarryOut
  <2> QED
    BY <1>3, <2>1, <2>3, <2>4 DEF Host!TakeLate
<1> QED
  BY <1>4, <1>5, <1>6

\* What the serial line's command does when it is stored.
LEMMA Overwriting ==
    Overwrites(data["heartBeat"]) <=>
        Decoder!Accepts(data["heartBeat"]) /\ Host!Done(data["heartBeat"].cmd)
BY DEF Overwrites, Board!Accepts, Decoder!Accepts, Board!ReceivedValue, Decoder!ReceivedValue

LEMMA HeartBeatStep ==
    ASSUME Inv, HeartBeat
    PROVE  Host!SerialLine \/ UNCHANGED Host!vars
<1>1. Decoder!TypeOK /\ Decoder!Step("heartBeat")
  BY SameSteps DEF Inv, HeartBeat
<1>2. /\ UNCHANGED << shadow, port, req, late, resetting >>
      /\ ok' = (ok /\ ~ (pc["heartBeat"] = "assign" /\ Overwrites(data["heartBeat"])))
  BY DEF HeartBeat
<1>3. CASE Decoder!Assign("heartBeat") /\ Decoder!Accepts(data["heartBeat"])
  <2>1. ok' = (ok /\ ~ Host!Done(data["heartBeat"].cmd))
    BY <1>2, <1>3, Overwriting DEF Decoder!Assign
  <2>2. data["heartBeat"] \in Decoder!Data
    BY <1>1 DEF Decoder!TypeOK, Callers
  <2>3. data["heartBeat"].cmd \in 1 .. NPorts
        /\ Decoder!ReceivedValue(data["heartBeat"]) \in 0 .. MaxValue
    BY <1>3, <2>2, RemoteAssumption DEF Decoder!Accepts, Decoder!Data, Decoder!ReceivedValue
  <2>4. \E p \in Host!Ports, v \in Host!Values :
           val' = [val EXCEPT ![p] = v] /\ ok' = (ok /\ ~ Host!Done(p))
    BY <1>3, <2>1, <2>3 DEF Decoder!Assign, Host!Ports, Host!Values
  <2> QED
    BY <1>2, <2>4 DEF Host!SerialLine
<1>4. CASE ~ (pc["heartBeat"] = "assign" /\ Decoder!Accepts(data["heartBeat"]))
  <2>1. val' = val
    BY <1>1, <1>4, OtherStep DEF Decoder!Assign
  <2>2. ok' = ok
    BY <1>2, <1>4, Overwriting DEF Inv, FlagTypes
  <2> QED
    BY <1>2, <2>1, <2>2 DEF Host!vars
<1>5. CASE pc["heartBeat"] = "assign" /\ ~ Decoder!Assign("heartBeat")
  BY <1>1, <1>5 DEF Decoder!Step, Decoder!Assign, Decoder!Reply, Decoder!Load,
     Decoder!WriteNext, Decoder!WriteLast
<1> QED
  BY <1>3, <1>4, <1>5

LEMMA HostStep ==
    ASSUME Inv, [Next]_vars
    PROVE  [Host!Next]_(Host!vars)
<1>1. CASE Command \/ Send
  BY <1>1 DEF Command, Send, Host!Next
<1>2. CASE Answer
  BY <1>2 DEF Answer, Host!Answer, Host!Next
<1>3. CASE Fail
  BY <1>3, FailStep DEF Host!Next
<1>4. CASE Deliver
  <2>1. val' = val
    BY <1>4 DEF Deliver, Enter, Board!Enter
  <2> QED
    BY <1>4, <2>1 DEF Deliver, scriptVars, Host!vars
<1>5. ASSUME NEW e \in Host!Entries, DeliverLate(e)
      PROVE  UNCHANGED Host!vars
  <2>1. val' = val
    BY <1>5 DEF DeliverLate, Enter, Board!Enter
  <2> QED
    BY <1>5, <2>1 DEF DeliverLate, scriptVars, Host!vars
<1>6. ASSUME NEW e \in Host!Entries, Drop(e)
      PROVE  Host!Next
  BY <1>6 DEF Drop, Host!Next
<1>7. CASE Query \/ Report \/ UNCHANGED vars
  BY <1>7 DEF Query, Report, vars, scriptVars, portVars, Host!vars
<1>8. CASE Decode
  BY <1>8, DecodeStep DEF Host!Next
<1>9. CASE SerialLine
  <2>1. val' = val
    BY <1>9 DEF SerialLine, Board!SerialLine, Board!Enter
  <2> QED
    BY <1>9, <2>1 DEF SerialLine, scriptVars, Host!vars
<1>10. CASE HeartBeat
  BY <1>10, HeartBeatStep DEF Host!Next
<1>11. CASE Restart
  <2>1. /\ late' = Host!Nothing /\ UNCHANGED << shadow, port, resetting >>
        /\ ok' = (ok /\ \A p \in Host!Ports : ~ Host!Done(p))
    BY <1>11 DEF Restart
  <2>2. val' = Host!Zero
    BY <1>11 DEF Restart, Board!Outputs!InitialVal, Board!Outputs!PortIds, Host!Zero, Host!Ports
  <2>3. req' \in IF req = "none" THEN {"none"} ELSE {req, "silent"}
    BY <1>11 DEF Restart
  <2> QED
    BY <2>1, <2>2, <2>3 DEF Host!Restart, Host!Next
<1> QED
  BY <1>1, <1>2, <1>3, <1>4, <1>5, <1>6, <1>7, <1>8, <1>9, <1>10, <1>11 DEF Next

LEMMA HostStart == Init => Host!Init
<1> SUFFICES ASSUME Init PROVE Host!Init
  OBVIOUS
<1>1. val = [p \in Host!Ports |-> 0]
  BY DEF Init, Board!Init, Board!Outputs!InitialVal, Board!Outputs!PortIds, Host!Ports
<1>2. 0 \in Host!Values
  BY RemoteAssumption DEF Host!Values
<1>3. val \in [Host!Ports -> Host!Values]
  BY <1>1, <1>2
<1> QED
  BY <1>3 DEF Init, Host!Init

\* The script and the board together do what HostControl says: each request is
\* carried out once or not at all, one at a time and whole, the ones the script
\* gave up in any order and as late as they may be, and nothing but serial
\* commands and restarts changes a port value otherwise.  decodeData, its
\* interleaving with heartBeatThread and the report of clientResponse are all
\* inside.
THEOREM ScriptImplemented == Spec => ImplementsHost
<1>1. Init => Host!Init
  BY HostStart
<1>2. Inv /\ [Next]_vars => [Host!Next]_(Host!vars)
  BY HostStep
<1> QED
  BY <1>1, <1>2, Invariant, PTL DEF Spec, ImplementsHost

-----------------------------------------------------------------------------
(* The board has the script's values. *)

\* As long as the command is undisturbed, the ports it has written have the
\* script's values.
HostInv == ok => \A q \in PortIds : Host!Done(q) => val[q] = shadow[q]

\* A change of one port that clears ok when the port was written.
LEMMA OneChange ==
    ASSUME Inv, HostInv, NEW p \in PortIds, NEW v, val' = [val EXCEPT ![p] = v],
           UNCHANGED << shadow, port, req >>, ok' = (ok /\ ~ Host!Done(p))
    PROVE  HostInv'
<1>1. \A q \in PortIds : val'[q] = IF q = p THEN v ELSE val[q]
  BY DEF Inv, Decoder!TypeOK, Decoder!PortIds, Decoder!Bytes, PortIds, Bytes
<1>2. \A q : Host!Done(q)' <=> Host!Done(q)
  BY DEF Host!Done
<1> QED
  BY <1>1, <1>2 DEF HostInv

LEMMA HostInvStep ==
    ASSUME Inv, HostInv, [Next]_vars
    PROVE  HostInv'
<1>1. /\ port \in 0 .. NPorts /\ NPorts \in Nat \ {0}
      /\ val \in [PortIds -> Bytes] /\ shadow \in [PortIds -> Bytes]
      /\ req # "none" => port # 0
  BY RemoteAssumption
     DEF Inv, ScriptTypes, RequestInv, Decoder!TypeOK, Decoder!PortIds, Decoder!Bytes, PortIds, Bytes
<1>2. ASSUME NEW c, Host!Command(c)
      PROVE  HostInv'
  <2>1. port' = 1 /\ req' = "none"
    BY <1>1, <1>2 DEF Host!Command, Inv, ScriptTypes
  <2> QED
    BY <2>1 DEF HostInv, Host!Done, PortIds
<1>3. CASE Host!Send
  BY <1>1, <1>3 DEF Host!Send, HostInv, Host!Done, PortIds
<1>4. CASE Host!Take
  <2>1. val' = [val EXCEPT ![port] = shadow[port]] /\ port \in PortIds
    BY <1>1, <1>4 DEF Host!Take, PortIds
  <2>2. \A q \in PortIds : val'[q] = IF q = port THEN shadow[port] ELSE val[q]
    BY <1>1, <2>1
  <2> QED
    BY <1>1, <1>4, <2>2 DEF Host!Take, HostInv, Host!Done, PortIds
<1>5. CASE Host!Answer
  BY <1>1, <1>5 DEF Host!Answer, Host!NextPort, Host!LastPort, HostInv, Host!Done, PortIds
<1>6. ASSUME NEW e \in Host!Entries, Host!TakeLate(e)
      PROVE  HostInv'
  <2>1. late[e].port \in PortIds
    BY <1>6, LateRequest DEF Host!TakeLate
  <2> QED
    BY <1>6, <2>1, OneChange DEF Host!TakeLate
<1>7. ASSUME NEW e \in Host!Entries, Host!Drop(e)
      PROVE  HostInv'
  BY <1>7 DEF Host!Drop, HostInv, Host!Done
<1>8. CASE Host!Fail
  BY <1>8 DEF Host!Fail, HostInv
<1>9. CASE Host!Restart
  <2>1. /\ ok' = (ok /\ \A p \in PortIds : ~ Host!Done(p)) /\ port' = port
        /\ req' = "applied" => req = "applied"
    BY <1>9 DEF Host!Restart, Host!Ports, PortIds
  <2> QED
    BY <2>1 DEF HostInv, Host!Done
<1>10. CASE Host!SerialLine
  <2>1. PICK p \in PortIds, v \in Bytes :
            val' = [val EXCEPT ![p] = v] /\ ok' = (ok /\ ~ Host!Done(p))
    BY <1>10 DEF Host!SerialLine, Host!Ports, Host!Values, PortIds, Bytes
  <2> QED
    BY <1>10, <2>1, OneChange DEF Host!SerialLine
<1>11. CASE UNCHANGED Host!vars
  BY <1>11 DEF Host!vars, HostInv, Host!Done
<1> QED
  BY HostStep, <1>2, <1>3, <1>4, <1>5, <1>6, <1>7, <1>8, <1>9, <1>10, <1>11 DEF Host!Next

LEMMA HostInvariant == Spec => []HostInv
<1>1. Init => HostInv
  BY RemoteAssumption DEF Init, HostInv, Host!Done, PortIds
<1>2. Inv /\ HostInv /\ [Next]_vars => HostInv'
  BY HostInvStep
<1> QED
  BY <1>1, <1>2, Invariant, PTL DEF Spec

\* When a command of which no request failed has ended, every port has the
\* script's value, unless one was changed after the command's request for it:
\* whatever failed, restarted, was set by others or was carried out late before
\* that request is repaired by it.
THEOREM BoardFollows == Spec => []BoardFollowsScript
<1>1. Inv /\ HostInv => BoardFollowsScript
  <2> SUFFICES ASSUME Inv, HostInv, port = 0, ok
               PROVE  val = shadow
    BY DEF BoardFollowsScript, Host!BoardFollowsScript
  <2>1. \A q \in PortIds : val[q] = shadow[q]
    BY DEF HostInv, Host!Done
  <2>2. val \in [PortIds -> Bytes] /\ shadow \in [PortIds -> Bytes]
    BY DEF Inv, ScriptTypes, Decoder!TypeOK, Decoder!PortIds, Decoder!Bytes, PortIds, Bytes
  <2> QED
    BY <2>1, <2>2
<1> QED
  BY <1>1, Invariant, HostInvariant, PTL

-----------------------------------------------------------------------------
(* The outputs have the levels of the script's values. *)

LEMMA RepairInvariant == Spec => []Decoder!RepairInv
<1>1. Init => Decoder!RepairInv
  BY InitInv, BoardAssumption, Decoder!InitRepair
<1>2. Inv /\ Decoder!RepairInv /\ [Next]_vars => Decoder!RepairInv'
  BY BoardStep, PowerUp, BoardAssumption, Decoder!RepairStep DEF Inv
<1> QED
  BY <1>1, <1>2, Invariant, PTL DEF Spec

\* ... and so do its pins, whenever no call is under way and the calls that
\* overlapped were followed by one alone: from the script's copy to the output.
THEOREM PinsFollow == Spec => []PinsFollowScript
<1>1. Decoder!RepairInv /\ BoardFollowsScript => PinsFollowScript
  <2> SUFFICES ASSUME Decoder!RepairInv, BoardFollowsScript,
                      port = 0, ok, clean, Board!Idle,
                      NEW p \in 1 .. NPorts, NEW b \in 0 .. Pbit - 1
               PROVE  pin[p][b] = Board!Outputs!Level(shadow[p], b)
    BY DEF PinsFollowScript
  <2>1. Decoder!Idle
    BY DEF Board!Idle, Board!InCall, Decoder!Idle, Decoder!InCall
  <2>2. Decoder!Outputs!PinsMatch
    BY <2>1 DEF Decoder!RepairInv, Decoder!RepairedWhenClean, Decoder!PinsMatch
  <2>3. pin[p][b] = Decoder!Outputs!Level(val[p], b)
    BY <2>2 DEF Decoder!Outputs!PinsMatch, Decoder!Outputs!PortIds, Decoder!Outputs!Bits
  <2>4. val = shadow
    BY DEF BoardFollowsScript, Host!BoardFollowsScript
  <2> QED
    BY <2>3, <2>4 DEF Board!Outputs!Level, Decoder!Outputs!Level
<1> QED
  BY <1>1, RepairInvariant, BoardFollows, PTL

-----------------------------------------------------------------------------
(* Without a serial port in use the loop is the only caller of decodeData. *)

LoopAlone == world # "serial" => clean /\ pc["heartBeat"] = "idle"

LEMMA SameWorld == [Next]_vars => world' = world
BY DEF Next, vars, Command, Send, Answer, Fail, Deliver, DeliverLate, Drop, Query, Decode,
       Report, SerialLine, HeartBeat, Restart

LEMMA EnterAlone ==
    ASSUME Decoder!TypeOK, pc["heartBeat"] = "idle", clean, NEW p, NEW v, Enter(p, v)
    PROVE  clean' /\ pc'["heartBeat"] = "idle"
BY DEF Enter, Board!Enter, Board!Others, Board!InCall, Decoder!TypeOK, Callers

LEMMA LoopAloneStep ==
    ASSUME Inv, LoopAlone, [Next]_vars
    PROVE  LoopAlone'
<1> SUFFICES ASSUME world # "serial"
             PROVE  clean' /\ pc'["heartBeat"] = "idle"
  BY SameWorld DEF LoopAlone
<1>1. /\ clean /\ pc["heartBeat"] = "idle" /\ Decoder!TypeOK
      /\ pc \in [Callers -> {"idle", "assign", "reply", "load", "write"}]
      /\ Callers = {"loop", "heartBeat"}
  BY DEF LoopAlone, Inv, Decoder!TypeOK, Callers
<1>2. CASE Command \/ Send \/ Answer \/ Fail \/ Query \/ Report \/ UNCHANGED vars
  BY <1>1, <1>2 DEF Command, Send, Answer, Fail, Query, Report, vars, portVars
<1>3. CASE Deliver
  BY <1>1, <1>3, EnterAlone DEF Deliver
<1>4. ASSUME NEW e \in Host!Entries, DeliverLate(e) \/ Drop(e)
      PROVE  clean' /\ pc'["heartBeat"] = "idle"
  BY <1>1, <1>4, EnterAlone DEF DeliverLate, Drop, portVars
<1>5. CASE Decode
  <2>1. pc'["heartBeat"] = "idle"
    BY <1>1, <1>5 DEF Decode, Board!Step, Board!Assign, Board!Reply, Board!Load,
       Board!WriteNext, Board!WriteLast
  <2>2. clean'
    BY <1>1, <1>5 DEF Decode, Board!Step, Board!Assign, Board!Reply, Board!Load,
       Board!WriteNext, Board!WriteLast
  <2> QED
    BY <2>1, <2>2
<1>6. CASE SerialLine
  BY <1>6 DEF SerialLine
<1>7. CASE HeartBeat
  BY <1>1, <1>7 DEF HeartBeat, Board!Step, Board!Assign, Board!Reply, Board!Load,
     Board!WriteNext, Board!WriteLast
<1>8. CASE Restart
  BY <1>1, <1>8 DEF Restart
<1> QED
  BY <1>2, <1>3, <1>4, <1>5, <1>6, <1>7, <1>8 DEF Next

LEMMA LoopAloneInvariant == Spec => []LoopAlone
<1>1. Init => LoopAlone
  BY DEF Init, Board!Init, LoopAlone, Callers
<1>2. Inv /\ LoopAlone /\ [Next]_vars => LoopAlone'
  BY LoopAloneStep
<1> QED
  BY <1>1, <1>2, Invariant, PTL DEF Spec

-----------------------------------------------------------------------------
(* The answer. *)

\* The report under way: as far as it got, it has the script's values of the
\* ports the command has written, as long as those are undisturbed, and without
\* serial commands it has every port's value.
Reported(q) == reporting # 0 /\ q < reporting

ReportInv ==
    \A q \in PortIds : Reported(q) =>
        /\ ok /\ Host!Done(q) => report[q] = shadow[q]
        /\ world # "serial" => report[q] = val[q]

\* A step that is no report's, while none is under way or none of what it has
\* is disturbed.
LEMMA OtherReport ==
    ASSUME ReportInv, UNCHANGED << shadow, reporting, report >>, world' = world,
           ok' => ok,
           ok' => \A q \in PortIds : Host!Done(q)' => Host!Done(q),
           world # "serial" => val' = val
    PROVE  ReportInv'
BY DEF ReportInv, Reported

LEMMA NoReport ==
    ASSUME reporting' = 0 \/ (reporting' = 1 /\ NPorts \in Nat)
    PROVE  ReportInv'
BY DEF ReportInv, Reported, PortIds

LEMMA ReportStep ==
    ASSUME Inv, LoopAlone, HostInv, ReportInv, [Next]_vars
    PROVE  ReportInv'
<1> USE DEF scriptVars, portVars, netVars, reportVars
<1>1. /\ Decoder!TypeOK /\ RequestInv /\ world' = world
      /\ port \in 0 .. NPorts /\ reporting \in 0 .. NPorts /\ NPorts \in Nat \ {0}
      /\ report \in [PortIds -> Bytes]
  BY RemoteAssumption, SameWorld DEF Inv, ScriptTypes
<1>2. CASE Command
  <2>1. /\ port' = 1 /\ req' = req /\ req = "none" /\ ok' = TRUE
        /\ UNCHANGED << val, reporting, report >>
    BY <1>1, <1>2 DEF Command, Host!Command, RequestInv
  <2>2. \A q \in PortIds : ~ Host!Done(q)'
    BY <1>1, <2>1 DEF Host!Done, PortIds
  <2> QED
    BY <1>1, <2>1, <2>2 DEF ReportInv, Reported
<1>3. CASE Send
  <2>1. \A q \in PortIds : Host!Done(q)' => Host!Done(q)
    BY <1>3 DEF Send, Host!Send, Host!Done
  <2> QED
    BY <1>1, <1>3, <2>1, OtherReport DEF Send, Host!Send
<1>4. CASE Answer
  <2>1. req = "applied" /\ port # 0 /\ req' = "none"
        /\ port' = (IF port = NPorts THEN 0 ELSE port + 1)
    BY <1>1, <1>4 DEF Answer, RequestInv, Host!NextPort, Host!LastPort
  <2>2. \A q \in PortIds : Host!Done(q)' => Host!Done(q)
    BY <1>1, <2>1 DEF Host!Done, PortIds
  <2> QED
    BY <1>1, <1>4, <2>2, OtherReport DEF Answer, Host!NextPort
<1>5. CASE Fail
  BY <1>1, <1>5, OtherReport DEF Fail, Host!NextPort
<1>6. CASE Deliver
  BY <1>1, <1>6, NoReport DEF Deliver, LoopIdle
<1>7. ASSUME NEW e \in Host!Entries, DeliverLate(e)
      PROVE  ReportInv'
  BY <1>1, <1>7, NoReport DEF DeliverLate, LoopIdle
<1>8. ASSUME NEW e \in Host!Entries, Drop(e)
      PROVE  ReportInv'
  <2>1. UNCHANGED << shadow, val, port, req, ok, reporting, report >>
    BY <1>8 DEF Drop, Host!Drop
  <2>2. \A q \in PortIds : Host!Done(q)' => Host!Done(q)
    BY <2>1 DEF Host!Done
  <2> QED
    BY <1>1, <2>1, <2>2, OtherReport
<1>9. CASE Query
  BY <1>1, <1>9, NoReport DEF Query
<1>10. CASE Decode
  <2>1. reporting = 0
    BY <1>1, <1>10, SameSteps, LoopStep DEF Decode, RequestInv
  <2>2. reporting' = 0 \/ reporting' = 1
    BY <1>10, <2>1 DEF Decode
  <2> QED
    BY <1>1, <2>2, NoReport
<1>11. CASE Report
  <2>1. /\ reporting # 0 /\ report' = [report EXCEPT ![reporting] = val[reporting]]
        /\ UNCHANGED << shadow, val, ok, port, req >>
    BY <1>11 DEF Report, ReadNext
  <2>2. reporting' = 0 \/ reporting' = reporting + 1
    BY <1>11 DEF Report
  <2>3. CASE reporting' = 0
    BY <2>3, NoReport
  <2>4. CASE reporting' = reporting + 1
    <3>1. ASSUME NEW q \in PortIds, Reported(q)'
          PROVE  \/ Reported(q) /\ report'[q] = report[q]
                 \/ report'[q] = val[q]
      BY <1>1, <2>1, <2>4, <3>1 DEF Reported, PortIds
    <3>2. \A q \in PortIds : Host!Done(q)' <=> Host!Done(q)
      BY <2>1 DEF Host!Done
    <3>3. \A q \in PortIds : ok /\ Host!Done(q) => val[q] = shadow[q]
      BY DEF HostInv
    <3> QED
      BY <1>1, <2>1, <3>1, <3>2, <3>3 DEF ReportInv
  <2> QED
    BY <2>2, <2>3, <2>4
<1>12. CASE SerialLine
  <2>1. UNCHANGED << shadow, val, port, req, ok, reporting, report >>
    BY <1>12 DEF SerialLine, Board!SerialLine, Board!Enter
  <2>2. \A q \in PortIds : Host!Done(q)' => Host!Done(q)
    BY <2>1 DEF Host!Done
  <2> QED
    BY <1>1, <2>1, <2>2, OtherReport
<1>13. CASE HeartBeat
  <2>1. UNCHANGED << shadow, port, req, reporting, report >> /\ (ok' => ok)
    BY <1>13 DEF HeartBeat
  <2>2. \A q \in PortIds : Host!Done(q)' => Host!Done(q)
    BY <2>1 DEF Host!Done
  <2>3. pc["heartBeat"] # "idle"
    BY <1>13 DEF HeartBeat, Board!Step, Board!Assign, Board!Reply, Board!Load,
       Board!WriteNext, Board!WriteLast
  <2> QED
    BY <1>1, <2>1, <2>2, <2>3, OtherReport DEF LoopAlone
<1>14. CASE Restart
  BY <1>14, NoReport DEF Restart
<1>15. CASE UNCHANGED vars
  <2>1. UNCHANGED << shadow, val, port, req, ok, reporting, report >>
    BY <1>15 DEF vars
  <2>2. \A q \in PortIds : Host!Done(q)' => Host!Done(q)
    BY <2>1 DEF Host!Done
  <2> QED
    BY <1>1, <2>1, <2>2, OtherReport
<1> QED
  BY <1>2, <1>3, <1>4, <1>5, <1>6, <1>7, <1>8, <1>9, <1>10, <1>11, <1>12, <1>13, <1>14, <1>15
     DEF Next

\* The answer goes out with the last value of the report.
LEMMA AnswerStep ==
    ASSUME Inv, HostInv, ReportInv, [Next]_vars, ~ answer, answer'
    PROVE  /\ ok => \A p \in 1 .. port : report'[p] = shadow[p]
           /\ world # "serial" => report' = val
<1> USE DEF scriptVars, portVars, netVars, reportVars
<1>1. Report /\ reporting = NPorts /\ mine /\ req = "applied"
  BY DEF Next, vars, Command, Send, Answer, Fail, Deliver, DeliverLate, Drop, Query, Decode,
       Report, SerialLine, HeartBeat, Restart
<1>2. /\ NPorts \in PortIds /\ NPorts # 0
      /\ val \in [PortIds -> Bytes] /\ report \in [PortIds -> Bytes]
      /\ port \in PortIds
  <2>1. NPorts \in PortIds /\ NPorts # 0
    BY RemoteAssumption DEF PortIds
  <2>2. val \in [PortIds -> Bytes] /\ report \in [PortIds -> Bytes]
    BY DEF Inv, ScriptTypes, Decoder!TypeOK, Decoder!PortIds, Decoder!Bytes, PortIds, Bytes
  <2>3. req # "none"
    BY <1>1
  <2>4. port \in PortIds
    BY <2>3, OwnRequest
  <2> QED
    BY <2>1, <2>2, <2>4
<1>3. report' = [report EXCEPT ![NPorts] = val[NPorts]]
  BY <1>1 DEF Report, ReadNext
<1>4. \A q \in PortIds : q # NPorts => Reported(q)
  BY <1>1, <1>2 DEF Reported, PortIds
<1>5. ASSUME ok, NEW p \in 1 .. port
      PROVE  report'[p] = shadow[p]
  <2>1. p \in PortIds /\ Host!Done(p)
    BY <1>1, <1>2 DEF Host!Done, PortIds
  <2> QED
    BY <1>2, <1>3, <1>4, <1>5, <2>1 DEF ReportInv, HostInv
<1>6. ASSUME world # "serial"
      PROVE  report' = val
  <2>1. \A q \in PortIds : report'[q] = val[q]
    BY <1>2, <1>3, <1>4, <1>6 DEF ReportInv
  <2> QED
    BY <1>2, <1>3, <2>1
<1> QED
  BY <1>5, <1>6

\* When the answer to a request goes out, the report in it has the script's
\* value of every port the command has written, unless one was changed since;
\* and, though clientResponse reads it value by value while given-up requests,
\* queries and restarts go on, it is what the board has, without serial commands.
THEOREM AnswersTell == Spec => AnswerTellsBoard
<1>1. Init => ReportInv
  BY NoReport DEF Init, ReportInv, Reported
<1>2. Inv /\ LoopAlone /\ HostInv /\ ReportInv /\ [Next]_vars => ReportInv'
  BY ReportStep
<1>3. Inv /\ HostInv /\ ReportInv /\ [Next]_vars =>
          [~ answer /\ answer' =>
              /\ ok => \A p \in 1 .. port : report'[p] = shadow[p]
              /\ world # "serial" => report' = val]_vars
  BY AnswerStep
<1> QED
  BY <1>1, <1>2, <1>3, Invariant, HostInvariant, LoopAloneInvariant, PTL
     DEF Spec, AnswerTellsBoard

-----------------------------------------------------------------------------
(* The outputs of PortOutputs. *)

\* A step of the outputs as the script and the browser see them.
LEMMA OutputsStep ==
    ASSUME Inv, Decoder!RepairInv, LoopAlone, [Next]_vars
    PROVE  [Outputs!Next]_<< IF world = "serial" THEN Board!Outputs!InitialVal ELSE val,
                             IF world = "serial" THEN Board!Outputs!InitialPin ELSE pin >>
<1>1. world' = world
  BY SameWorld
<1>2. CASE world = "serial"
  BY <1>1, <1>2 DEF Board!Outputs!InitialVal, Board!Outputs!InitialPin
<1>3. CASE world # "serial"
  <2>1. Outputs!Next <=>
            \/ val' = Outputs!InitialVal /\ pin' = Outputs!InitialPin
            \/ \E p \in Outputs!PortIds, v \in Outputs!Bytes :
                  val' = [val EXCEPT ![p] = v] /\ UNCHANGED pin
            \/ \E p \in Outputs!PortIds, b \in Outputs!Bits :
                  /\ pin[p][b] # Outputs!Level(val[p], b)
                  /\ pin' = [pin EXCEPT ![p][b] = Outputs!Level(val[p], b)]
                  /\ UNCHANGED val
    BY <1>1, <1>3 DEF Outputs!Next, Outputs!Restart, Outputs!Command, Outputs!Drive
  <2>2. Outputs!Next \/ UNCHANGED << val, pin >>
    <3>1. CASE [Decoder!Next]_(Decoder!vars)
      <4>1. [Decoder!Outputs!Next]_<< val, pin >>
        BY <1>3, <3>1, BoardAssumption, Decoder!OutputsStep DEF Inv, LoopAlone
      <4> QED
        BY <2>1, <4>1 DEF Decoder!Outputs!Next, Decoder!Outputs!Restart,
           Decoder!Outputs!Command, Decoder!Outputs!Drive,
           Decoder!Outputs!InitialVal, Outputs!InitialVal,
           Decoder!Outputs!InitialPin, Outputs!InitialPin,
           Decoder!Outputs!PortIds, Outputs!PortIds, Decoder!Outputs!Bits, Outputs!Bits,
           Decoder!Outputs!Bytes, Outputs!Bytes, Decoder!Outputs!Level, Outputs!Level
    <3>2. CASE Restart
      BY <2>1, <3>2 DEF Restart, Board!Outputs!InitialVal, Outputs!InitialVal,
         Board!Outputs!InitialPin, Outputs!InitialPin,
         Board!Outputs!PortIds, Outputs!PortIds, Board!Outputs!Bits, Outputs!Bits
    <3> QED
      BY BoardStep, <3>1, <3>2
  <2> QED
    BY <1>1, <1>3, <2>2
<1> QED
  BY <1>2, <1>3

\* With loop() alone the outputs do what PortOutputs allows, restarts and failed
\* requests included: no pin ever moves away from the level of its port's value.
\* That every pin gets there is the rest of ImplementsOutputs.
THEOREM OutputsImplemented == Spec => Outputs!SafeSpec
<1>1. Init => Outputs!Init
  BY DEF Init, Board!Init, Outputs!Init,
     Board!Outputs!InitialVal, Outputs!InitialVal, Board!Outputs!InitialPin, Outputs!InitialPin,
     Board!Outputs!PortIds, Outputs!PortIds, Board!Outputs!Bits, Outputs!Bits
<1>2. Inv /\ Decoder!RepairInv /\ LoopAlone /\ [Next]_vars =>
        [Outputs!Next]_<< IF world = "serial" THEN Board!Outputs!InitialVal ELSE val,
                          IF world = "serial" THEN Board!Outputs!InitialPin ELSE pin >>
  BY OutputsStep
<1> QED
  BY <1>1, <1>2, Invariant, RepairInvariant, LoopAloneInvariant, PTL DEF Spec, Outputs!SafeSpec

-----------------------------------------------------------------------------
(* Types. *)

\* The composition's variables, those of the script's board included, have the
\* types their modules give them.
THEOREM TypeCorrect == Spec => []TypeOK
<1>1. Inv => TypeOK
  <2> SUFFICES ASSUME Inv PROVE TypeOK
    OBVIOUS
  <2>1. val \in [Host!Ports -> Host!Values]
    BY DEF Inv, Decoder!TypeOK, Decoder!PortIds, Decoder!Bytes, Host!Ports, Host!Values
  <2>2. Host!TypeOK
    BY <2>1 DEF Inv, ScriptTypes, LateTypes, FlagTypes, Host!TypeOK, Host!Ports, Host!Values, PortIds, Bytes
  <2>3. Board!TypeOK
    BY SameTypes DEF Inv
  <2> QED
    BY <2>2, <2>3 DEF Inv, ScriptTypes, LateTypes, FlagTypes, TypeOK, PortIds, Bytes
<1> QED
  BY <1>1, Invariant, PTL
================================================================================
