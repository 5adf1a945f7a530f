-------------------------- MODULE PortControl_proofs --------------------------
(***************************************************************************)
(* Proofs about decodeData, for every number of ports, pins and values,    *)
(* every set of callers and every input.                                   *)
(***************************************************************************)
EXTENDS PortControl, TLAPS

-----------------------------------------------------------------------------
(* Type correctness. *)

LEMMA LevelType == \A v, b : Level(v, b) \in Outputs!Levels
BY DEF Level, Outputs!Level, Outputs!Levels

\* What httpFilterString hands to decodeData is a command.
LEMMA FilterStringType ==
    ASSUME NEW r \in Requests
    PROVE  FilterString(r) \in Data
<1>1. Head(r.args) \in Data
  BY PortControlAssumption
<1> QED
  BY <1>1 DEF FilterString, Data

LEMMA FollowingType ==
    ASSUME NEW s \in [bit : Bits, port : PortIds], ~LastStatement(s)
    PROVE  Following(s) \in [bit : Bits, port : PortIds]
BY PortControlAssumption DEF Following, LastStatement, LastPort, Bits, PortIds

LEMMA EnterTypes ==
    ASSUME TypeOK, NEW c \in Callers, NEW d \in Data, Enter(c, d)
    PROVE  /\ pc' \in [Callers -> {"idle", "assign", "reply", "load", "write"}]
           /\ data' \in [Callers -> Data]
           /\ alone' \subseteq Callers
           /\ clean' \in BOOLEAN
           /\ UNCHANGED << build, val, pin, reply, copy, pos >>
BY DEF Enter, TypeOK

\* The power-up values have their types.
LEMMA StartTypes ==
    /\ 1 \in PortIds /\ 0 \in Bits /\ 0 \in Bytes
    /\ Outputs!InitialVal \in [PortIds -> Bytes]
    /\ Outputs!InitialPin \in [PortIds -> [Bits -> Outputs!Levels]]
    /\ NoData \in Data /\ NoReply \in [port : 0 .. NPorts, value : Bytes]
    /\ Start \in [bit : Bits, port : PortIds]
<1>1. 1 \in PortIds /\ 0 \in Bits /\ 0 \in Bytes
  BY PortControlAssumption DEF PortIds, Bits, Bytes
<1>2. /\ Outputs!InitialVal \in [PortIds -> Bytes]
      /\ Outputs!InitialPin \in [PortIds -> [Bits -> Outputs!Levels]]
  BY <1>1 DEF Outputs!InitialVal, Outputs!InitialPin, Outputs!PortIds, PortIds,
              Outputs!Bits, Bits, Outputs!Levels
<1>3. /\ NoData \in Data /\ NoReply \in [port : 0 .. NPorts, value : Bytes]
      /\ Start \in [bit : Bits, port : PortIds]
  BY <1>1, PortControlAssumption DEF NoData, Data, NoReply, Start
<1> QED
  BY <1>1, <1>2, <1>3

LEMMA InitTypes == Init => TypeOK
BY StartTypes DEF Init, TypeOK

LEMMA TypeStep ==
    ASSUME TypeOK, [Next]_vars
    PROVE  TypeOK'
<1>1. CASE SerialLine
  <2>1. PICK d \in Lines : Enter("heartBeat", d)
    BY <1>1 DEF SerialLine
  <2> QED
    BY <1>1, <2>1, EnterTypes, PortControlAssumption DEF SerialLine, TypeOK
<1>2. CASE WebRequest
  <2>1. PICK r \in Requests : Enter("loop", FilterString(r)) /\ request' = r.args
    BY <1>2 DEF WebRequest
  <2> QED
    BY <1>2, <2>1, EnterTypes, FilterStringType, PortControlAssumption
       DEF WebRequest, TypeOK
<1>3. ASSUME NEW c \in Callers, Assign(c)
      PROVE  TypeOK'
  <2>1. Accepts(data[c]) => data[c].cmd \in PortIds /\ ReceivedValue(data[c]) \in Bytes
    BY DEF Accepts, ReceivedValue, TypeOK, Data, PortIds, Bytes
  <2>2. val' \in [PortIds -> Bytes]
    BY <1>3, <2>1 DEF Assign, TypeOK
  <2> QED
    BY <1>3, <2>2 DEF Assign, TypeOK
<1>4. ASSUME NEW c \in Callers, Reply(c)
      PROVE  TypeOK'
  <2>1. data[c] \in Data /\ (data[c].cmd # 0 => data[c].cmd \in PortIds)
    BY PortControlAssumption DEF TypeOK, Data, PortIds
  <2>2. ReplyText(data[c]) \in [port : 0 .. NPorts, value : Bytes]
    BY StartTypes, <2>1 DEF ReplyText, TypeOK, Data
  <2> QED
    BY <1>4, <2>2 DEF Reply, TypeOK
<1>5. ASSUME NEW c \in Callers, Load(c)
      PROVE  TypeOK'
  <2>1. pos[c] \in [bit : Bits, port : PortIds]
    BY DEF TypeOK
  <2>2. ~LastPort(pos[c]) => pos[c].port + 1 \in PortIds
    BY <2>1, PortControlAssumption DEF LastPort, PortIds
  <2>3. pos' \in [Callers -> [bit : Bits, port : PortIds]]
    <3>1. CASE pos' = pos \/ pos' = [pos EXCEPT ![c] = Start]
      BY StartTypes, <3>1 DEF TypeOK
    <3>2. CASE ~LastPort(pos[c]) /\ pos' = [pos EXCEPT ![c].port = @ + 1]
      <4>1. [pos[c] EXCEPT !.port = @ + 1] \in [bit : Bits, port : PortIds]
        BY <2>1, <2>2, <3>2
      <4> QED
        BY <3>2, <4>1 DEF TypeOK
    <3> QED
      BY <1>5, <3>1, <3>2 DEF Load
  <2>4. copy' \in [Callers -> [PortIds -> Bytes]]
    BY <1>5, <2>1 DEF Load, TypeOK
  <2>5. pc' \in [Callers -> {"idle", "assign", "reply", "load", "write"}]
    BY <1>5 DEF Load, TypeOK
  <2> QED
    BY <1>5, <2>3, <2>4, <2>5 DEF Load, TypeOK
<1>6. ASSUME NEW c \in Callers, WritePin(c)
      PROVE  pin' \in [PortIds -> [Bits -> Outputs!Levels]]
  BY <1>6, LevelType DEF WritePin, TypeOK
<1>7. ASSUME NEW c \in Callers, WriteNext(c)
      PROVE  TypeOK'
  <2>1. Following(pos[c]) \in [bit : Bits, port : PortIds]
    BY <1>7, FollowingType DEF WriteNext, TypeOK
  <2>2. pos' \in [Callers -> [bit : Bits, port : PortIds]]
    BY <1>7, <2>1 DEF WriteNext, TypeOK
  <2> QED
    BY <1>6, <1>7, <2>2 DEF WriteNext, TypeOK
<1>8. ASSUME NEW c \in Callers, WriteLast(c)
      PROVE  TypeOK'
  <2>1. request' \in Seq(Data)
    BY <1>8 DEF WriteLast, TypeOK
  <2>2. clean' \in BOOLEAN /\ alone' \subseteq Callers
    BY <1>8 DEF WriteLast, TypeOK
  <2> QED
    BY StartTypes, <1>6, <1>8, <2>1, <2>2 DEF WriteLast, TypeOK
<1>9. CASE UNCHANGED vars
  BY <1>9 DEF vars, TypeOK
<1> QED
  BY <1>1, <1>2, <1>3, <1>4, <1>5, <1>7, <1>8, <1>9 DEF Next, Step

\* Type correctness: in particular a port value never leaves the range the
\* code accepts, and the loop's index never leaves the pin arrays.
THEOREM TypeCorrect == Spec => []TypeOK
<1>1. TypeOK /\ [Next]_vars => TypeOK'
  BY TypeStep
<1> QED
  BY <1>1, InitTypes, PTL DEF Spec

-----------------------------------------------------------------------------
(* A call that runs alone repairs the outputs. *)

InSync(p, b) == pin[p][b] = Level(val[p], b)

\* The statement for bit b of port p comes before s in the loop.
Earlier(p, b, s) == b < s.bit \/ (b = s.bit /\ p < s.port)

\* While the registers are being loaded for the whole loop, pos counts the
\* loads and no pin was written.
Preloading(c) == pc[c] = "load" /\ build = "hoist"
Writing(c) == pc[c] \in {"load", "write"} /\ ~Preloading(c)

\* Who is alone: its call is under way and no other is; while the outputs are
\* clean, every call is alone.
AloneInv ==
    /\ \A c \in alone : InCall(c) /\ Others(c) = {}
    /\ clean => \A c \in Callers : InCall(c) => c \in alone

PosInv ==
    \A c \in Callers :
        /\ pc[c] \in {"idle", "assign", "reply"} => pos[c] = Start
        /\ Preloading(c) => pos[c].bit = 0

\* The registers of a call that is alone hold the values of the ports.
CopyInv ==
    \A c \in alone :
        /\ Preloading(c) => \A p \in PortIds : p < pos[c].port => copy[c][p] = val[p]
        /\ pc[c] = "write" /\ build = "hoist" => \A p \in PortIds : copy[c][p] = val[p]
        /\ pc[c] = "write" /\ build = "reload" => copy[c][pos[c].port] = val[pos[c].port]

\* A call that is alone has brought the pins of its past statements in sync.
DoneInv ==
    \A c \in alone : Writing(c) =>
        \A p \in PortIds, b \in Bits : Earlier(p, b, pos[c]) => InSync(p, b)

\* While the outputs are clean only the port of the command under way can be
\* out of sync, and only from the store of its value on.
OtherPortsInv ==
    clean => \A c \in Callers : InCall(c) =>
        \A p \in PortIds, b \in Bits :
            p # data[c].cmd \/ pc[c] = "assign" => InSync(p, b)

RepairInv ==
    /\ AloneInv
    /\ PosInv
    /\ CopyInv
    /\ DoneInv
    /\ OtherPortsInv
    /\ RepairedWhenClean

\* At the start the loop has no earlier statement; each statement adds itself.
LEMMA NoneEarlier ==
    ASSUME NEW p \in PortIds, NEW b \in Bits
    PROVE  ~Earlier(p, b, Start)
BY DEF Earlier, Start, PortIds, Bits

LEMMA EarlierFollowing ==
    ASSUME NEW s \in [bit : Bits, port : PortIds], ~LastStatement(s),
           NEW p \in PortIds, NEW b \in Bits, Earlier(p, b, Following(s))
    PROVE  Earlier(p, b, s) \/ (p = s.port /\ b = s.bit)
BY PortControlAssumption DEF Earlier, Following, LastStatement, LastPort, PortIds, Bits

LEMMA EarlierLast ==
    ASSUME NEW s \in [bit : Bits, port : PortIds], LastStatement(s),
           NEW p \in PortIds, NEW b \in Bits
    PROVE  Earlier(p, b, s) \/ (p = s.port /\ b = s.bit)
BY PortControlAssumption DEF Earlier, LastStatement, LastPort, PortIds, Bits

LEMMA InitRepair == Init => RepairInv
<1> SUFFICES ASSUME Init PROVE RepairInv
  OBVIOUS
<1>1. \A p \in PortIds, b \in Bits : InSync(p, b)
  <2> SUFFICES ASSUME NEW p \in PortIds, NEW b \in Bits PROVE InSync(p, b)
    OBVIOUS
  <2>1. 2^b \in Nat \ {0}
    BY PortControlAssumption DEF Bits
  <2>2. Level(0, b) = "HIGH"
    BY <2>1 DEF Level, Outputs!Level
  <2> QED
    BY <2>2 DEF Init, InSync, Outputs!InitialVal, Outputs!InitialPin,
                Outputs!PortIds, PortIds, Outputs!Bits, Bits
<1>2. PinsMatch
  BY <1>1 DEF PinsMatch, Outputs!PinsMatch, InSync, Level, Outputs!PortIds,
              PortIds, Outputs!Bits, Bits
<1> QED
  BY <1>2 DEF Init, RepairInv, AloneInv, PosInv, CopyInv, DoneInv, OtherPortsInv,
     RepairedWhenClean, InCall, Others, Preloading

\* A caller whose call is under way is either the only one alone, or nobody is
\* alone and the outputs are not clean.
LEMMA AloneOrNot ==
    ASSUME AloneInv, NEW c \in Callers, InCall(c), alone \subseteq Callers
    PROVE  \/ alone = {c} /\ \A d \in Callers : InCall(d) => d = c
           \/ alone = {} /\ ~clean
BY DEF AloneInv, Others

\* Without a caller alone and with outputs that are not clean, nothing is
\* claimed but the position in the loop.
LEMMA NobodyAlone ==
    ASSUME alone' = {}, ~clean', PosInv'
    PROVE  RepairInv'
BY DEF RepairInv, AloneInv, CopyInv, DoneInv, OtherPortsInv, RepairedWhenClean

LEMMA EnterRepair ==
    ASSUME TypeOK, RepairInv, NEW c \in Callers, NEW d, Enter(c, d)
    PROVE  RepairInv'
<1>1. /\ pc[c] = "idle"
      /\ \A e \in Callers : pc'[e] = IF e = c THEN "assign" ELSE pc[e]
      /\ UNCHANGED << build, val, pin, copy, pos >>
  BY DEF Enter, TypeOK
<1>2. PosInv'
  BY <1>1 DEF RepairInv, PosInv, Preloading
<1>3. CASE Others(c) # {}
  <2>1. alone' = {} /\ ~clean'
    BY <1>3 DEF Enter
  <2> QED
    BY <1>2, <2>1, NobodyAlone
<1>4. CASE Others(c) = {}
  <2>1. \A e \in Callers : InCall(e)' <=> e = c
    BY <1>1, <1>4 DEF Others, InCall
  <2>2. alone' = {c}
    BY <1>1, <1>4 DEF Enter, RepairInv, AloneInv, InCall, Others, TypeOK
  <2>3. AloneInv'
    BY <2>1, <2>2 DEF AloneInv, Others
  <2>4. CopyInv' /\ DoneInv'
    BY <1>1, <2>2 DEF CopyInv, DoneInv, Preloading, Writing
  <2>5. clean' => \A p \in PortIds, b \in Bits : InSync(p, b)
    BY <1>1, <1>4 DEF Enter, RepairInv, RepairedWhenClean, Idle, Others, InCall,
       PinsMatch, Outputs!PinsMatch, InSync, Level, Outputs!PortIds, PortIds,
       Outputs!Bits, Bits
  <2>6. OtherPortsInv'
    BY <1>1, <2>5 DEF OtherPortsInv, InSync
  <2>7. RepairedWhenClean'
    BY <2>1 DEF RepairedWhenClean, Idle
  <2> QED
    BY <1>2, <2>3, <2>4, <2>6, <2>7 DEF RepairInv
<1> QED
  BY <1>3, <1>4

LEMMA AssignRepair ==
    ASSUME TypeOK, RepairInv, NEW c \in Callers, Assign(c)
    PROVE  RepairInv'
<1>1. /\ pc[c] = "assign"
      /\ \A e \in Callers : pc'[e] = IF e = c THEN "reply" ELSE pc[e]
      /\ UNCHANGED << build, pin, data, copy, pos, alone, clean >>
  BY DEF Assign, TypeOK
<1>2. PosInv'
  BY <1>1 DEF RepairInv, PosInv, Preloading
<1>3. InCall(c)
  BY <1>1 DEF InCall
<1>4. CASE alone = {} /\ ~clean
  BY <1>1, <1>2, <1>4, NobodyAlone
<1>5. CASE alone = {c} /\ \A d \in Callers : InCall(d) => d = c
  <2>1. \A e \in Callers : InCall(e)' <=> e = c
    BY <1>1, <1>3, <1>5 DEF InCall
  <2>2. AloneInv' /\ RepairedWhenClean'
    BY <1>1, <1>5, <2>1 DEF AloneInv, Others, RepairedWhenClean, Idle
  <2>3. CopyInv' /\ DoneInv'
    BY <1>1, <1>5 DEF CopyInv, DoneInv, Preloading, Writing
  <2>4. \A p \in PortIds : p # data[c].cmd => val'[p] = val[p]
    BY DEF Assign, TypeOK
  <2>5. OtherPortsInv'
    BY <1>1, <1>3, <2>1, <2>4 DEF RepairInv, OtherPortsInv, InSync
  <2> QED
    BY <1>2, <2>2, <2>3, <2>5 DEF RepairInv
<1> QED
  BY <1>3, <1>4, <1>5, AloneOrNot DEF RepairInv, TypeOK

LEMMA ReplyRepair ==
    ASSUME TypeOK, RepairInv, NEW c \in Callers, Reply(c)
    PROVE  RepairInv'
<1>1. /\ pc[c] = "reply"
      /\ \A e \in Callers : pc'[e] = IF e = c THEN "load" ELSE pc[e]
      /\ UNCHANGED << build, val, pin, data, copy, pos, alone, clean >>
  BY DEF Reply, TypeOK
<1>2. pos[c] = Start
  BY <1>1 DEF RepairInv, PosInv
<1>3. PosInv'
  BY <1>1, <1>2 DEF RepairInv, PosInv, Preloading, Start
<1>4. InCall(c)
  BY <1>1 DEF InCall
<1>5. CASE alone = {} /\ ~clean
  BY <1>1, <1>3, <1>5, NobodyAlone
<1>6. CASE alone = {c} /\ \A d \in Callers : InCall(d) => d = c
  <2>1. \A e \in Callers : InCall(e)' <=> e = c
    BY <1>1, <1>4, <1>6 DEF InCall
  <2>2. AloneInv' /\ RepairedWhenClean'
    BY <1>1, <1>6, <2>1 DEF AloneInv, Others, RepairedWhenClean, Idle
  <2>3. CopyInv'
    BY <1>1, <1>2, <1>6 DEF CopyInv, Preloading, Start, PortIds
  <2>4. DoneInv'
    BY <1>1, <1>2, <1>6, NoneEarlier DEF DoneInv, Earlier
  <2>5. OtherPortsInv'
    BY <1>1, <1>4, <2>1 DEF RepairInv, OtherPortsInv, InSync
  <2> QED
    BY <1>3, <2>2, <2>3, <2>4, <2>5 DEF RepairInv
<1> QED
  BY <1>4, <1>5, <1>6, AloneOrNot DEF RepairInv, TypeOK

LEMMA LoadRepair ==
    ASSUME TypeOK, RepairInv, NEW c \in Callers, Load(c)
    PROVE  RepairInv'
<1>1. /\ pc[c] = "load" /\ InCall(c) /\ pos[c] \in [bit : Bits, port : PortIds]
      /\ UNCHANGED << build, val, pin, data, alone, clean >>
      /\ build \in Builds
  BY DEF Load, TypeOK, InCall
<1>2. \A p \in PortIds : copy'[c][p] = IF p = pos[c].port THEN val[p] ELSE copy[c][p]
  BY <1>1 DEF Load, TypeOK
<1>3. CASE /\ build = "reload"
           /\ pc' = [pc EXCEPT ![c] = "write"] /\ pos' = pos
  <2>1. \A e \in Callers : pc'[e] = IF e = c THEN "write" ELSE pc[e]
    BY <1>3 DEF TypeOK
  <2>2. PosInv'
    BY <1>1, <1>3, <2>1 DEF RepairInv, PosInv, Preloading
  <2>3. CASE alone = {} /\ ~clean
    BY <1>1, <2>2, <2>3, NobodyAlone
  <2>4. CASE alone = {c} /\ \A d \in Callers : InCall(d) => d = c
    <3>1. \A e \in Callers : InCall(e)' <=> e = c
      BY <1>1, <2>1, <2>4 DEF InCall
    <3>2. AloneInv' /\ RepairedWhenClean'
      BY <1>1, <2>4, <3>1 DEF AloneInv, Others, RepairedWhenClean, Idle
    <3>3. CopyInv'
      BY <1>1, <1>2, <1>3, <2>1, <2>4 DEF CopyInv, Preloading
    <3>4. DoneInv'
      BY <1>1, <1>3, <2>1, <2>4 DEF RepairInv, DoneInv, Writing, Preloading, InSync
    <3>5. OtherPortsInv'
      BY <1>1, <2>1, <3>1 DEF RepairInv, OtherPortsInv, InSync
    <3> QED
      BY <2>2, <3>2, <3>3, <3>4, <3>5 DEF RepairInv
  <2> QED
    BY <1>1, <2>3, <2>4, AloneOrNot DEF RepairInv, TypeOK
<1>4. CASE /\ build = "hoist" /\ LastPort(pos[c])
           /\ pc' = [pc EXCEPT ![c] = "write"]
           /\ pos' = [pos EXCEPT ![c] = Start]
  <2>1. \A e \in Callers : /\ pc'[e] = IF e = c THEN "write" ELSE pc[e]
                           /\ pos'[e] = IF e = c THEN Start ELSE pos[e]
    BY <1>4 DEF TypeOK
  <2>2. PosInv'
    BY <1>1, <1>4, <2>1 DEF RepairInv, PosInv, Preloading
  <2>3. CASE alone = {} /\ ~clean
    BY <1>1, <2>2, <2>3, NobodyAlone
  <2>4. CASE alone = {c} /\ \A d \in Callers : InCall(d) => d = c
    <3>1. \A e \in Callers : InCall(e)' <=> e = c
      BY <1>1, <2>1, <2>4 DEF InCall
    <3>2. AloneInv' /\ RepairedWhenClean'
      BY <1>1, <2>4, <3>1 DEF AloneInv, Others, RepairedWhenClean, Idle
    <3>3. \A p \in PortIds : copy'[c][p] = val[p]
      <4>1. \A p \in PortIds : p # pos[c].port => p < pos[c].port
        BY <1>1, <1>4, PortControlAssumption DEF LastPort, PortIds
      <4> QED
        BY <1>1, <1>2, <1>4, <2>4, <4>1 DEF RepairInv, CopyInv, Preloading
    <3>4. CopyInv'
      BY <1>1, <1>4, <2>1, <2>4, <3>3 DEF CopyInv, Preloading
    <3>5. DoneInv'
      BY <2>1, <2>4, <1>1, NoneEarlier DEF DoneInv, Earlier
    <3>6. OtherPortsInv'
      BY <1>1, <2>1, <3>1 DEF RepairInv, OtherPortsInv, InSync
    <3> QED
      BY <2>2, <3>2, <3>4, <3>5, <3>6 DEF RepairInv
  <2> QED
    BY <1>1, <2>3, <2>4, AloneOrNot DEF RepairInv, TypeOK
<1>5. CASE /\ build = "hoist" /\ ~LastPort(pos[c])
           /\ pos' = [pos EXCEPT ![c].port = @ + 1]
           /\ pc' = pc
  <2>1. \A e \in Callers :
           pos'[e] = IF e = c THEN [pos[c] EXCEPT !.port = @ + 1] ELSE pos[e]
    BY <1>5 DEF TypeOK
  <2>2. pos'[c].bit = pos[c].bit /\ pos'[c].port = pos[c].port + 1
    BY <1>1, <2>1
  <2>3. PosInv'
    BY <1>1, <1>5, <2>1, <2>2 DEF RepairInv, PosInv, Preloading
  <2>4. CASE alone = {} /\ ~clean
    BY <1>1, <2>3, <2>4, NobodyAlone
  <2>5. CASE alone = {c} /\ \A d \in Callers : InCall(d) => d = c
    <3>1. AloneInv' /\ RepairedWhenClean'
      BY <1>1, <1>5 DEF RepairInv, AloneInv, Others, InCall, RepairedWhenClean, Idle
    <3>2. \A p \in PortIds : p < pos'[c].port => copy'[c][p] = val[p]
      <4>1. \A p \in PortIds : p < pos[c].port + 1 => p < pos[c].port \/ p = pos[c].port
        BY <1>1 DEF PortIds
      <4> QED
        BY <1>1, <1>2, <1>5, <2>2, <2>5, <4>1 DEF RepairInv, CopyInv, Preloading
    <3>3. CopyInv'
      BY <1>1, <1>5, <2>5, <3>2 DEF CopyInv, Preloading
    <3>4. DoneInv'
      BY <1>1, <1>5, <2>5 DEF DoneInv, Writing, Preloading
    <3>5. OtherPortsInv'
      BY <1>1, <1>5 DEF RepairInv, OtherPortsInv, InSync, InCall
    <3> QED
      BY <2>3, <3>1, <3>3, <3>4, <3>5 DEF RepairInv
  <2> QED
    BY <1>1, <2>4, <2>5, AloneOrNot DEF RepairInv, TypeOK
<1> QED
  BY <1>1, <1>3, <1>4, <1>5 DEF Load, Builds

\* The statement of a call that is alone writes the level its port's value
\* calls for, and disturbs no other pin.
LEMMA WriteSync ==
    ASSUME TypeOK, RepairInv, NEW c \in alone, pc[c] = "write", WritePin(c),
           val' = val
    PROVE  \A p \in PortIds, b \in Bits :
              /\ InSync(p, b) => InSync(p, b)'
              /\ p = pos[c].port /\ b = pos[c].bit => InSync(p, b)'
              /\ InSync(p, b) => pin'[p][b] = pin[p][b]
<1>1. pos[c] \in [bit : Bits, port : PortIds] /\ build \in Builds
  BY DEF TypeOK
<1>2. copy[c][pos[c].port] = val[pos[c].port]
  BY <1>1 DEF RepairInv, CopyInv, Builds
<1>3. \A p \in PortIds, b \in Bits : pin'[p][b] =
         IF p = pos[c].port /\ b = pos[c].bit THEN Level(val[p], b) ELSE pin[p][b]
  BY <1>1, <1>2 DEF WritePin, TypeOK
<1> SUFFICES ASSUME NEW p \in PortIds, NEW b \in Bits
             PROVE  /\ InSync(p, b) => InSync(p, b)'
                    /\ p = pos[c].port /\ b = pos[c].bit => InSync(p, b)'
                    /\ InSync(p, b) => pin'[p][b] = pin[p][b]
  OBVIOUS
<1>4. Level(val'[p], b) = Level(val[p], b)
  OBVIOUS
<1>5. InSync(p, b)' <=> pin'[p][b] = Level(val[p], b)
  BY <1>4 DEF InSync
<1>6. InSync(p, b) <=> pin[p][b] = Level(val[p], b)
  BY DEF InSync
<1>7. CASE p = pos[c].port /\ b = pos[c].bit
  BY <1>3, <1>5, <1>6, <1>7
<1>8. CASE ~(p = pos[c].port /\ b = pos[c].bit)
  BY <1>3, <1>5, <1>6, <1>8
<1> QED
  BY <1>7, <1>8

LEMMA WriteNextRepair ==
    ASSUME TypeOK, RepairInv, NEW c \in Callers, WriteNext(c)
    PROVE  RepairInv'
<1>1. /\ pc[c] = "write" /\ InCall(c) /\ pos[c] \in [bit : Bits, port : PortIds]
      /\ ~LastStatement(pos[c]) /\ WritePin(c)
      /\ UNCHANGED << build, val, data, copy, alone, clean >>
      /\ build \in Builds
  BY DEF WriteNext, TypeOK, InCall
<1>2. \A e \in Callers :
         /\ pc'[e] = IF e = c THEN IF build = "reload" THEN "load" ELSE "write" ELSE pc[e]
         /\ pos'[e] = IF e = c THEN Following(pos[c]) ELSE pos[e]
  BY DEF WriteNext, TypeOK
<1>3. PosInv'
  BY <1>1, <1>2 DEF RepairInv, PosInv, Preloading
<1>4. CASE alone = {} /\ ~clean
  BY <1>1, <1>3, <1>4, NobodyAlone
<1>5. CASE alone = {c} /\ \A d \in Callers : InCall(d) => d = c
  <2>1. \A e \in Callers : InCall(e)' <=> e = c
    BY <1>1, <1>2, <1>5 DEF InCall
  <2>2. AloneInv' /\ RepairedWhenClean'
    BY <1>1, <1>5, <2>1 DEF AloneInv, Others, RepairedWhenClean, Idle
  <2>3. CopyInv'
    BY <1>1, <1>2, <1>5 DEF RepairInv, CopyInv, Preloading, Builds
  <2>4. \A p \in PortIds, b \in Bits :
           /\ InSync(p, b) => InSync(p, b)'
           /\ p = pos[c].port /\ b = pos[c].bit => InSync(p, b)'
    BY <1>1, <1>5, WriteSync
  <2>5. \A p \in PortIds, b \in Bits : Earlier(p, b, pos[c]) => InSync(p, b)
    BY <1>1, <1>5 DEF RepairInv, DoneInv, Writing, Preloading
  <2>6. ASSUME NEW p \in PortIds, NEW b \in Bits, Earlier(p, b, Following(pos[c]))
        PROVE  InSync(p, b)'
    <3>1. Earlier(p, b, pos[c]) \/ (p = pos[c].port /\ b = pos[c].bit)
      BY <1>1, <2>6, EarlierFollowing
    <3> QED
      BY <2>4, <2>5, <3>1
  <2>7. pos'[c] = Following(pos[c])
    BY <1>2
  <2>8. ASSUME NEW p \in PortIds, NEW b \in Bits, Earlier(p, b, pos[c])'
        PROVE  InSync(p, b)'
    BY <2>6, <2>7, <2>8 DEF Earlier
  <2>9. DoneInv'
    BY <1>1, <1>5, <2>8 DEF DoneInv
  <2>10. OtherPortsInv'
    <3>1. \A p \in PortIds, b \in Bits : clean /\ p # data[c].cmd => InSync(p, b)'
      BY <1>1, <2>4 DEF RepairInv, OtherPortsInv
    <3>2. pc'[c] # "assign"
      BY <1>2
    <3> QED
      BY <1>1, <2>1, <3>1, <3>2 DEF OtherPortsInv
  <2> QED
    BY <1>3, <2>2, <2>3, <2>9, <2>10 DEF RepairInv
<1> QED
  BY <1>1, <1>4, <1>5, AloneOrNot DEF RepairInv, TypeOK

LEMMA WriteLastRepair ==
    ASSUME TypeOK, RepairInv, NEW c \in Callers, WriteLast(c)
    PROVE  RepairInv'
<1>1. /\ pc[c] = "write" /\ InCall(c) /\ pos[c] \in [bit : Bits, port : PortIds]
      /\ LastStatement(pos[c]) /\ WritePin(c)
      /\ UNCHANGED << build, val >>
      /\ clean' = (clean \/ c \in alone) /\ alone' = alone \ {c}
  BY DEF WriteLast, TypeOK, InCall
<1>2. \A e \in Callers :
         /\ pc'[e] = IF e = c THEN "idle" ELSE pc[e]
         /\ pos'[e] = IF e = c THEN Start ELSE pos[e]
  BY DEF WriteLast, TypeOK
<1>3. PosInv'
  BY <1>1, <1>2 DEF RepairInv, PosInv, Preloading
<1>4. CASE alone = {} /\ ~clean
  BY <1>1, <1>3, <1>4, NobodyAlone
<1>5. CASE alone = {c} /\ \A d \in Callers : InCall(d) => d = c
  <2>1. alone' = {} /\ \A e \in Callers : ~InCall(e)'
    BY <1>1, <1>2, <1>5 DEF InCall
  <2>2. AloneInv' /\ CopyInv' /\ DoneInv' /\ OtherPortsInv'
    BY <2>1 DEF AloneInv, CopyInv, DoneInv, OtherPortsInv
  <2>3. \A p \in PortIds, b \in Bits :
           /\ InSync(p, b) => InSync(p, b)'
           /\ p = pos[c].port /\ b = pos[c].bit => InSync(p, b)'
    BY <1>1, <1>5, WriteSync
  <2>4. \A p \in PortIds, b \in Bits : Earlier(p, b, pos[c]) => InSync(p, b)
    BY <1>1, <1>5 DEF RepairInv, DoneInv, Writing, Preloading
  <2>5. ASSUME NEW p \in PortIds, NEW b \in Bits
        PROVE  InSync(p, b)'
    <3>1. Earlier(p, b, pos[c]) \/ (p = pos[c].port /\ b = pos[c].bit)
      BY <1>1, EarlierLast
    <3> QED
      BY <2>3, <2>4, <3>1
  <2>6. RepairedWhenClean'
    BY <2>5 DEF RepairedWhenClean, PinsMatch, Outputs!PinsMatch, InSync, Level,
       Outputs!PortIds, PortIds, Outputs!Bits, Bits
  <2> QED
    BY <1>3, <2>2, <2>6 DEF RepairInv
<1> QED
  BY <1>1, <1>4, <1>5, AloneOrNot DEF RepairInv, TypeOK

LEMMA RepairStep ==
    ASSUME TypeOK, RepairInv, [Next]_vars
    PROVE  RepairInv'
<1>1. CASE SerialLine
  BY <1>1, EnterRepair DEF SerialLine
<1>2. CASE WebRequest
  BY <1>2, EnterRepair DEF WebRequest
<1>3. ASSUME NEW c \in Callers, Step(c)
      PROVE  RepairInv'
  BY <1>3, AssignRepair, ReplyRepair, LoadRepair, WriteNextRepair, WriteLastRepair
     DEF Step
<1>4. CASE UNCHANGED vars
  BY <1>4 DEF vars, RepairInv, AloneInv, InCall, Others, PosInv, CopyInv, DoneInv,
     OtherPortsInv, RepairedWhenClean, Preloading, Writing, Earlier, InSync, Idle,
     PinsMatch, Outputs!PinsMatch
<1> QED
  BY <1>1, <1>2, <1>3, <1>4 DEF Next

LEMMA RepairInvariant == Spec => []RepairInv
<1>1. TypeOK /\ RepairInv /\ [Next]_vars => RepairInv'
  BY RepairStep
<1> QED
  BY <1>1, InitRepair, TypeCorrect, PTL DEF Spec

\* Whatever overlapping calls did to the outputs, one call that runs alone
\* brings every pin of every port back in sync, in either build.
THEOREM OutputsRepaired == Spec => []RepairedWhenClean
<1>1. RepairInv => RepairedWhenClean
  BY DEF RepairInv
<1> QED
  BY <1>1, RepairInvariant, PTL

\* While calls do not overlap, a command moves no pin of another port.
THEOREM OtherPortsSteady == Spec => NoGlitch
<1> DEFINE Steady == clean => \A p \in PortIds, b \in Bits :
                        pin'[p][b] # pin[p][b] =>
                          \E c \in Callers : pc[c] = "write" /\ data[c].cmd = p
<1>1. TypeOK /\ RepairInv /\ [Next]_vars => [Steady]_vars
  <2> SUFFICES ASSUME TypeOK, RepairInv, Next
               PROVE  Steady
    OBVIOUS
  <2>1. ASSUME pin' = pin
        PROVE  Steady
    BY <2>1
  <2>2. ASSUME NEW c \in Callers, pc[c] = "write", WritePin(c), val' = val
        PROVE  Steady
    <3> SUFFICES ASSUME clean, NEW p \in PortIds, NEW b \in Bits,
                        pin'[p][b] # pin[p][b]
                 PROVE  data[c].cmd = p
      BY <2>2
    <3>1. InCall(c) /\ c \in alone
      BY <2>2 DEF InCall, RepairInv, AloneInv
    <3>2. ~InSync(p, b)
      BY <2>2, <3>1, WriteSync
    <3> QED
      BY <3>1, <3>2 DEF RepairInv, OtherPortsInv
  <2>3. CASE SerialLine \/ WebRequest
    BY <2>1, <2>3 DEF SerialLine, WebRequest, Enter
  <2>4. ASSUME NEW c \in Callers, Step(c)
        PROVE  Steady
    <3>1. CASE Assign(c) \/ Reply(c) \/ Load(c)
      BY <2>1, <3>1 DEF Assign, Reply, Load
    <3>2. CASE WriteNext(c) \/ WriteLast(c)
      BY <2>2, <3>2 DEF WriteNext, WriteLast
    <3> QED
      BY <2>4, <3>1, <3>2 DEF Step
  <2> QED
    BY <2>3, <2>4 DEF Next
<1>2. Spec => [][Steady]_vars
  BY <1>1, TypeCorrect, RepairInvariant, PTL DEF Spec
<1> QED
  BY <1>2, PTL DEF NoGlitch

-----------------------------------------------------------------------------
(* The answer to a command. *)

\* Between the store of an accepted value and the answer no other call stores:
\* the caller that is alone is the only one in decodeData.
ReplyInv ==
    /\ \A c \in Callers : pc[c] \in {"idle", "assign", "reply"} => reply[c] = NoReply
    /\ \A c \in alone :
          pc[c] = "reply" /\ Accepts(data[c]) => val[data[c].cmd] = data[c].num
    /\ ReplyTellsCommand

LEMMA AcceptedNumber ==
    ASSUME NEW d \in Data, Accepts(d)
    PROVE  d.cmd \in PortIds /\ ReceivedValue(d) = d.num
BY DEF Accepts, ReceivedValue, Data, PortIds

\* A step of c that leaves data alone does not disturb what is claimed of others.
LEMMA OwnReply ==
    ASSUME TypeOK, RepairInv, ReplyInv, NEW c \in Callers, InCall(c),
           NEW to, pc' = [pc EXCEPT ![c] = to],
           UNCHANGED << data, alone >>,
           \A e \in Callers \ {c} : reply'[e] = reply[e],
           to \in {"idle", "assign", "reply"} => reply'[c] = NoReply,
           c \in alone /\ Accepts(data[c]) =>
              /\ to = "reply" => val'[data[c].cmd] = data[c].num
              /\ reply'[c] # NoReply =>
                    reply'[c] = [port |-> data[c].cmd, value |-> data[c].num]
    PROVE  ReplyInv'
<1>1. \A e \in Callers : pc'[e] = IF e = c THEN to ELSE pc[e]
  BY DEF TypeOK
<1>2. \A e \in alone : e = c
  BY DEF RepairInv, AloneInv, Others, TypeOK
<1> QED
  BY <1>1, <1>2 DEF ReplyInv, ReplyTellsCommand, TypeOK

LEMMA ReplyStep ==
    ASSUME TypeOK, RepairInv, ReplyInv, [Next]_vars
    PROVE  ReplyInv'
<1>1. ASSUME NEW c \in Callers, NEW d, Enter(c, d)
      PROVE  ReplyInv'
  <2>1. /\ pc[c] = "idle"
        /\ \A e \in Callers : pc'[e] = IF e = c THEN "assign" ELSE pc[e]
        /\ reply' = reply
    BY <1>1 DEF Enter, TypeOK
  <2>2. \A e \in alone' : e = c
    BY <1>1 DEF Enter, RepairInv, AloneInv, Others, InCall, TypeOK
  <2> QED
    BY <2>1, <2>2 DEF ReplyInv, ReplyTellsCommand
<1>2. ASSUME NEW c \in Callers, Assign(c)
      PROVE  ReplyInv'
  <2>1. /\ pc[c] = "assign" /\ InCall(c) /\ pc' = [pc EXCEPT ![c] = "reply"]
        /\ UNCHANGED << data, alone, reply >> /\ reply[c] = NoReply
    BY <1>2 DEF Assign, InCall, ReplyInv
  <2>2. Accepts(data[c]) => val'[data[c].cmd] = data[c].num
    <3> SUFFICES ASSUME Accepts(data[c])
                 PROVE  val'[data[c].cmd] = data[c].num
      OBVIOUS
    <3>1. data[c].cmd \in PortIds /\ ReceivedValue(data[c]) = data[c].num
      BY AcceptedNumber DEF TypeOK
    <3> QED
      BY <1>2, <3>1 DEF Assign, TypeOK
  <2> QED
    BY <2>1, <2>2, OwnReply
<1>3. ASSUME NEW c \in Callers, Reply(c)
      PROVE  ReplyInv'
  <2>1. /\ pc[c] = "reply" /\ InCall(c) /\ pc' = [pc EXCEPT ![c] = "load"]
        /\ UNCHANGED << data, alone >>
        /\ \A e \in Callers : reply'[e] = IF e = c THEN ReplyText(data[c]) ELSE reply[e]
    BY <1>3 DEF Reply, InCall, TypeOK
  <2>2. c \in alone /\ Accepts(data[c]) =>
           ReplyText(data[c]) = [port |-> data[c].cmd, value |-> data[c].num]
    BY <2>1 DEF ReplyInv, ReplyText, Accepts
  <2> QED
    BY <2>1, <2>2, OwnReply
<1>4. ASSUME NEW c \in Callers, Load(c) \/ WriteNext(c)
      PROVE  ReplyInv'
  <2>1. /\ pc[c] \in {"load", "write"} /\ InCall(c)
        /\ UNCHANGED << data, alone, reply >>
    BY <1>4 DEF Load, WriteNext, InCall
  <2>2. pc' = pc \/ \E to \in {"load", "write"} : pc' = [pc EXCEPT ![c] = to]
    BY <1>4 DEF Load, WriteNext
  <2>3. \E to \in {"load", "write"} : pc' = [pc EXCEPT ![c] = to]
    <3>1. [pc EXCEPT ![c] = pc[c]] = pc
      BY DEF TypeOK
    <3> QED
      BY <2>1, <2>2, <3>1
  <2> QED
    BY <2>1, <2>3, OwnReply DEF ReplyInv, ReplyTellsCommand
<1>5. ASSUME NEW c \in Callers, WriteLast(c)
      PROVE  ReplyInv'
  <2>1. /\ \A e \in Callers : /\ pc'[e] = IF e = c THEN "idle" ELSE pc[e]
                              /\ reply'[e] = IF e = c THEN NoReply ELSE reply[e]
        /\ alone' = alone \ {c} /\ InCall(c)
    BY <1>5 DEF WriteLast, TypeOK, InCall
  <2>2. alone' = {}
    BY <2>1 DEF RepairInv, AloneInv, Others, TypeOK
  <2> QED
    BY <2>1, <2>2 DEF ReplyInv, ReplyTellsCommand
<1>6. CASE UNCHANGED vars
  BY <1>6 DEF vars, ReplyInv, ReplyTellsCommand
<1> QED
  BY <1>1, <1>2, <1>3, <1>4, <1>5, <1>6 DEF Next, Step, SerialLine, WebRequest

\* The answer to a command that met no other call is the value it set, in
\* either build and for any number of ports.
THEOREM RepliesTellCommands == Spec => []ReplyTellsCommand
<1>1. Init => ReplyInv
  BY DEF Init, ReplyInv, ReplyTellsCommand
<1>2. TypeOK /\ RepairInv /\ ReplyInv /\ [Next]_vars => ReplyInv'
  BY ReplyStep
<1>3. ReplyInv => ReplyTellsCommand
  BY DEF ReplyInv
<1> QED
  BY <1>1, <1>2, <1>3, TypeCorrect, RepairInvariant, PTL DEF Spec

-----------------------------------------------------------------------------
(* A single caller implements PortOutputs. *)

\* A single caller never meets another call.
LEMMA SingleStaysClean ==
    (\A c, d \in Callers : c = d) => (Spec => []clean)
<1> SUFFICES ASSUME \A c, d \in Callers : c = d
             PROVE  Spec => []clean
  OBVIOUS
<1>1. Init => clean
  BY DEF Init
<1>2. TypeOK /\ clean /\ [Next]_vars => clean'
  <2> SUFFICES ASSUME TypeOK, clean, [Next]_vars PROVE clean'
    OBVIOUS
  <2>1. ASSUME NEW c \in Callers, NEW d, Enter(c, d)
        PROVE  clean'
    BY <2>1 DEF Enter, Others
  <2>2. CASE SerialLine \/ WebRequest
    BY <2>1, <2>2 DEF SerialLine, WebRequest
  <2>3. ASSUME NEW c \in Callers, Step(c)
        PROVE  clean'
    BY <2>3 DEF Step, Assign, Reply, Load, WriteNext, WriteLast
  <2>4. CASE UNCHANGED vars
    BY <2>4 DEF vars
  <2> QED
    BY <2>2, <2>3, <2>4 DEF Next
<1> QED
  BY <1>1, <1>2, TypeCorrect, PTL DEF Spec

\* As long as calls have not overlapped, a step gives a port a value, corrects
\* a pin, or changes neither.
LEMMA OutputsStep ==
    ASSUME TypeOK, RepairInv, clean, [Next]_vars
    PROVE  [Outputs!Next]_<<val, pin>>
<1> SUFFICES Outputs!Next \/ UNCHANGED << val, pin >>
  OBVIOUS
<1>1. ASSUME NEW c \in Callers, Assign(c)
      PROVE  Outputs!Next \/ UNCHANGED << val, pin >>
  <2>1. CASE ~Accepts(data[c])
    BY <1>1, <2>1 DEF Assign
  <2>2. CASE Accepts(data[c])
    <3>1. data[c].cmd \in Outputs!PortIds /\ ReceivedValue(data[c]) \in Outputs!Bytes
      BY <2>2 DEF Accepts, ReceivedValue, TypeOK, Data, Outputs!PortIds, Outputs!Bytes
    <3>2. Outputs!Command(data[c].cmd, ReceivedValue(data[c]))
      BY <1>1, <2>2 DEF Assign, Outputs!Command
    <3> QED
      BY <3>1, <3>2 DEF Outputs!Next
  <2> QED
    BY <2>1, <2>2
<1>2. ASSUME NEW c \in Callers, pc[c] = "write", WritePin(c), val' = val
      PROVE  Outputs!Next \/ UNCHANGED << val, pin >>
  <2> DEFINE p == pos[c].port
             b == pos[c].bit
  <2>1. c \in alone
    BY <1>2 DEF InCall, RepairInv, AloneInv
  <2>2. copy[c][p] = val[p]
    BY <1>2, <2>1 DEF RepairInv, CopyInv, TypeOK, Builds
  <2>3. pin' = [pin EXCEPT ![p][b] = Outputs!Level(val[p], b)]
    BY <1>2, <2>2 DEF WritePin, Level
  <2>4. p \in Outputs!PortIds /\ b \in Outputs!Bits
    BY DEF TypeOK, Outputs!PortIds, PortIds, Outputs!Bits, Bits
  <2>5. CASE pin[p][b] = Outputs!Level(val[p], b)
    <3>1. pin \in [PortIds -> [Bits -> Outputs!Levels]] /\ p \in PortIds /\ b \in Bits
      BY DEF TypeOK
    <3> HIDE DEF p, b
    <3>2. pin[p] \in [Bits -> Outputs!Levels]
      BY <3>1
    <3>3. [pin[p] EXCEPT ![b] = pin[p][b]] = pin[p]
      BY <3>1, <3>2
    <3>4. pin' = [pin EXCEPT ![p] = [pin[p] EXCEPT ![b] = pin[p][b]]]
      BY <2>3, <2>5
    <3>5. pin' = pin
      BY <3>1, <3>3, <3>4
    <3> QED
      BY <1>2, <3>5
  <2>6. CASE pin[p][b] # Outputs!Level(val[p], b)
    <3>1. Outputs!Drive(p, b)
      BY <1>2, <2>3, <2>6 DEF Outputs!Drive
    <3> QED
      BY <2>4, <3>1 DEF Outputs!Next
  <2> QED
    BY <2>5, <2>6
<1>3. CASE SerialLine \/ WebRequest
  BY <1>3 DEF SerialLine, WebRequest, Enter
<1>4. ASSUME NEW c \in Callers, Step(c)
      PROVE  Outputs!Next \/ UNCHANGED << val, pin >>
  <2>1. CASE Reply(c) \/ Load(c)
    BY <2>1 DEF Reply, Load
  <2>2. CASE WriteNext(c) \/ WriteLast(c)
    BY <1>2, <2>2 DEF WriteNext, WriteLast
  <2> QED
    BY <1>1, <1>4, <2>1, <2>2 DEF Step
<1>5. CASE UNCHANGED vars
  BY <1>5 DEF vars
<1> QED
  BY <1>3, <1>4, <1>5 DEF Next

\* With one caller of decodeData the outputs behave as PortOutputs says: a
\* pin only ever moves to the level the value of its port calls for.
THEOREM SingleCallerImplements ==
    (\A c, d \in Callers : c = d) => (Spec => Outputs!SafeSpec)
<1> SUFFICES ASSUME \A c, d \in Callers : c = d
             PROVE  Spec => Outputs!SafeSpec
  OBVIOUS
<1>1. Init => Outputs!Init
  BY DEF Init, Outputs!Init
<1>2. TypeOK /\ RepairInv /\ clean /\ [Next]_vars => [Outputs!Next]_<<val, pin>>
  BY OutputsStep
<1>3. Spec => []clean
  BY SingleStaysClean
<1> QED
  BY <1>1, <1>2, <1>3, TypeCorrect, RepairInvariant, PTL DEF Spec, Outputs!SafeSpec
=============================================================================
