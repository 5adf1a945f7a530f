------------------------- MODULE EthernetServer_proofs -------------------------
(***************************************************************************)
(* Proofs about the web server's side of the socket table, for every size  *)
(* of the table, every number of peers and of FNET services, whatever      *)
(* fails, and both programs.                                               *)
(***************************************************************************)
EXTENDS EthernetServer, TLAPS, FiniteSetTheorems, NaturalsInduction, WellFoundedInduction

-----------------------------------------------------------------------------
(* Types. *)

LEMMA LeastEntry ==
    ASSUME NEW S \in SUBSET Socks, S # {}
    PROVE  Least(S) \in S
<1>1. S \subseteq Nat
  BY ServerAssumption DEF Socks
<1>2. PICK s \in S : \A t \in S : <<t, s>> \notin OpToRel(<, Nat)
  BY <1>1, WFMin, NatLessThanWellFounded, Zenon
<1>3. \A t \in S : ~ (t < s)
  BY <1>1, <1>2, Zenon DEF OpToRel
<1>4. \A t \in S : s <= t
  BY <1>1, <1>3
<1> QED
  BY <1>4 DEF Least

\* The scan acts on an entry of the table, and the program has one in hand
\* while it works with a client.
ScanInv ==
    /\ pc = "act" => i < socket_num
    /\ pc \in {"respond", "connected", "stop"} => sockindex < socket_num

\* What the types of the variables come to in the next state, part by part.
NetTypes == /\ conn \in [Peers -> {"away", "queued", "open", "ended", "closed"}]
            /\ unread \in [Peers -> BOOLEAN]
            /\ toSend \in [Peers -> 0 .. MaxChunks]
            /\ fin \in [Peers -> BOOLEAN]
            /\ ours \in [Peers -> BOOLEAN]

TableTypes == /\ socket_ptr \in [Socks -> Peers \cup {"null", "fresh", "listener", "freed"}]
              /\ server_port \in [Socks -> BOOLEAN]

ScanTypes == /\ i \in 0 .. socket_num /\ stat \in States
             /\ listening \in BOOLEAN /\ sockindex \in 0 .. socket_num

ServiceTypes == /\ services \in [Services -> {"free", "poll", "other"}]
                /\ descriptor \in 0 .. MaxServices /\ astray \in BOOLEAN

LoopTypes == /\ pc \in PCs /\ slot \in Socks
             /\ made \in 0 .. MaxServices /\ left \in BOOLEAN

ChosenTypes == weather \in Weathers /\ program \in Programs

LEMMA TypesTogether ==
    TypeOK <=> ChosenTypes /\ TableTypes /\ NetTypes /\ ScanTypes /\ ServiceTypes /\ LoopTypes
BY DEF TypeOK, ChosenTypes, TableTypes, NetTypes, ScanTypes, ServiceTypes, LoopTypes

LEMMA StatusTypes ==
    ASSUME NEW s
    PROVE  StatusOf(s) \subseteq States
BY DEF StatusOf, States

LEMMA OverTypes ==
    ASSUME TypeOK, NEW cut, NEW state \in {"ended", "closed"}, Over(cut, state)
    PROVE  NetTypes'
<1>1. conn' \in [Peers -> {"away", "queued", "open", "ended", "closed"}]
  BY DEF Over, TypeOK
<1>2. unread' \in [Peers -> BOOLEAN] /\ fin' \in [Peers -> BOOLEAN] /\ ours' \in [Peers -> BOOLEAN]
  BY DEF Over
<1>3. toSend' \in [Peers -> 0 .. MaxChunks]
  <2>1. MaxChunks \in 0 .. MaxChunks
    BY ServerAssumption
  <2> QED
    BY <2>1 DEF Over, TypeOK
<1> QED
  BY <1>1, <1>2, <1>3 DEF NetTypes

LEMMA CloseSocketTypes ==
    ASSUME TypeOK, NEW s \in Socks, CloseSocket(s)
    PROVE  NetTypes'
BY OverTypes DEF CloseSocket

LEMMA SocketCloseTypes ==
    ASSUME TypeOK, NEW s \in Socks, SocketClose(s)
    PROVE  NetTypes' /\ socket_ptr' \in [Socks -> Peers \cup {"null", "fresh", "listener", "freed"}]
<1>1. NetTypes'
  BY CloseSocketTypes DEF SocketClose
<1>2. socket_ptr' \in [Socks -> Peers \cup {"null", "fresh", "listener", "freed"}]
  BY DEF SocketClose, ClosedPtr, TypeOK
<1> QED
  BY <1>1, <1>2

LEMMA RestartTypes ==
    ASSUME TypeOK, Restart
    PROVE  ScanTypes' /\ LoopTypes' /\ ScanInv'
<1>1. socket_num \in 0 .. socket_num /\ 0 \in 0 .. socket_num
  BY ServerAssumption
<1>2. listening' \in BOOLEAN /\ left' \in BOOLEAN /\ made' \in 0 .. MaxServices
  BY DEF Restart, TypeOK
<1> QED
  BY <1>1, <1>2 DEF Restart, TypeOK, ScanTypes, LoopTypes, ScanInv, PCs

LEMMA AgainTypes ==
    ASSUME TypeOK, Again
    PROVE  ScanTypes' /\ LoopTypes' /\ ScanInv'
<1>1. CASE Restart
  BY <1>1, RestartTypes
<1>2. CASE pc' = "client" /\ UNCHANGED << scanVars, slot, made, left >>
  <2>1. listening' \in BOOLEAN /\ left' \in BOOLEAN /\ made' \in 0 .. MaxServices
    BY <1>2 DEF scanVars, TypeOK
  <2> QED
    BY <1>2, <2>1 DEF scanVars, TypeOK, ScanTypes, LoopTypes, ScanInv, PCs
<1> QED
  BY <1>1, <1>2 DEF Again

\* The loop of the program keeps the types, whatever it finds.
LEMMA LoopTypeStep ==
    ASSUME TypeOK, ScanInv, Loop
    PROVE  TypeOK' /\ ScanInv'
<1>0. ChosenTypes' /\ socket_num \in Nat /\ 0 \in Socks
  BY ServerAssumption DEF Loop, chosen, ChosenTypes, TypeOK, Socks
<1> DEFINE Typed == TableTypes' /\ NetTypes' /\ ScanTypes' /\ ServiceTypes' /\ LoopTypes' /\ ScanInv'
<1> SUFFICES Typed
  BY <1>0 DEF TypeOK, ChosenTypes, TableTypes, NetTypes, ScanTypes, ServiceTypes, LoopTypes
<1>1. ASSUME UNCHANGED << socket_ptr, server_port >> PROVE TableTypes'
  BY <1>1 DEF TableTypes, TypeOK
<1>2. ASSUME UNCHANGED netVars PROVE NetTypes'
  BY <1>2 DEF netVars, NetTypes, TypeOK
<1>3. ASSUME UNCHANGED serviceVars PROVE ServiceTypes'
  <2>1. astray' \in BOOLEAN
    BY <1>3 DEF TypeOK, serviceVars
  <2> QED
    BY <1>3, <2>1 DEF ServiceTypes, TypeOK, serviceVars
<1>4. ASSUME UNCHANGED scanVars PROVE ScanTypes'
  <2>1. listening' \in BOOLEAN
    BY <1>4 DEF scanVars, TypeOK
  <2> QED
    BY <1>4, <2>1 DEF scanVars, ScanTypes, TypeOK
<1>5. ASSUME pc' \in PCs, slot' \in Socks, made' = made, left' = left PROVE LoopTypes'
  <2>1. made' \in 0 .. MaxServices /\ left' \in BOOLEAN
    BY <1>5 DEF TypeOK
  <2> QED
    BY <1>5, <2>1 DEF LoopTypes
<1>6. /\ {"scan", "act", "begin", "listen", "port", "register", "store",
          "client", "respond", "connected", "stop"} \subseteq PCs
      /\ slot \in Socks
  BY DEF PCs, TypeOK
<1>7. CASE ScanStatus
  <2>1. i' \in 0 .. socket_num /\ stat' \in States /\ pc' \in PCs /\ ScanInv'
    <3>1. i = socket_num \/ i < socket_num
      BY <1>0 DEF TypeOK
    <3>2. CASE i = socket_num
      BY <1>6, <1>7, <3>2 DEF ScanStatus, ScanInv, TypeOK
    <3>3. CASE i < socket_num /\ server_port[i]
      BY <1>0, <1>6, <1>7, <3>3, StatusTypes DEF ScanStatus, ScanInv, TypeOK
    <3>4. CASE i < socket_num /\ ~ server_port[i]
      BY <1>0, <1>6, <1>7, <3>4 DEF ScanStatus, ScanInv, TypeOK
    <3> QED
      BY <3>1, <3>2, <3>3, <3>4
  <2>2. listening' \in BOOLEAN
    BY <1>7 DEF ScanStatus, TypeOK
  <2>3. ScanTypes'
    BY <1>7, <2>1, <2>2 DEF ScanTypes, ScanStatus, TypeOK
  <2> QED
    BY <1>1, <1>2, <1>3, <1>5, <1>6, <1>7, <2>1, <2>3 DEF ScanStatus
<1>8. CASE ScanAct
  <2>1. i \in Socks /\ i' \in 0 .. socket_num /\ i \in 0 .. socket_num
    BY <1>0, <1>8 DEF ScanAct, NextEntry, ScanInv, Socks, TypeOK
  <2>2. server_port' \in [Socks -> BOOLEAN] /\ sockindex' \in 0 .. socket_num
    <3>1. CASE ScanAvailable
      <4>1. (server_port[i] /\ stat # "CLOSED") \in BOOLEAN
        OBVIOUS
      <4> QED
        BY <2>1, <3>1, <4>1 DEF ScanAvailable, TypeOK
    <3>2. CASE ScanAccept
      <4>1. FALSE \in BOOLEAN /\ (server_port[i] /\ stat # "CLOSED") \in BOOLEAN
        OBVIOUS
      <4> QED
        BY <2>1, <3>2, <4>1 DEF ScanAccept, PortAfterAccept, TypeOK
    <3> QED
      BY <1>8, <3>1, <3>2 DEF ScanAct
  <2>3. NetTypes' /\ socket_ptr' \in [Socks -> Peers \cup {"null", "fresh", "listener", "freed"}]
    <3>1. CASE SocketClose(i)
      BY <2>1, <3>1, SocketCloseTypes
    <3>2. CASE UNCHANGED << socket_ptr, netVars >>
      BY <1>2, <3>2 DEF TypeOK
    <3> QED
      BY <1>8, <3>1, <3>2 DEF ScanAct, ScanAvailable, ScanAccept
  <2>4. listening' \in BOOLEAN
    BY <1>8 DEF ScanAct, ListenerSeen
  <2>5. ScanTypes'
    BY <1>8, <2>1, <2>2, <2>4 DEF ScanAct, ScanTypes, TypeOK, States
  <2>6. LoopTypes' /\ ScanInv'
    BY <1>5, <1>6, <1>8 DEF ScanAct, ScanInv
  <2>7. ServiceTypes'
    BY <1>3, <1>8 DEF ScanAct
  <2> QED
    BY <2>2, <2>3, <2>5, <2>6, <2>7 DEF TableTypes
<1>9. CASE SocketBegin
  <2>1. ScanTypes' /\ ServiceTypes'
    BY <1>3, <1>4, <1>9 DEF SocketBegin
  <2>2. ASSUME NEW s \in Socks, Create(s)
        PROVE  TableTypes' /\ NetTypes' /\ LoopTypes' /\ ScanInv'
    <3>1. PICK outcome \in {"ok", "create", "bind"} :
             /\ CloseSocket(s)
             /\ socket_ptr' = [socket_ptr EXCEPT ![s] =
                                 CASE outcome = "ok" -> "fresh"
                                   [] outcome = "create" -> "null"
                                   [] outcome = "bind" -> "freed"]
             /\ server_port' = [server_port EXCEPT ![s] = @ /\ outcome # "ok"]
             /\ slot' = s
             /\ pc' = IF outcome = "ok" THEN "listen" ELSE "client"
      BY <2>2 DEF Create
    <3>2. socket_ptr' \in [Socks -> Peers \cup {"null", "fresh", "listener", "freed"}]
      BY <3>1 DEF TypeOK
    <3>3. server_port' \in [Socks -> BOOLEAN]
      <4>1. (server_port[s] /\ outcome # "ok") \in BOOLEAN
        OBVIOUS
      <4> QED
        BY <3>1, <4>1 DEF TypeOK
    <3>4. NetTypes'
      BY <3>1, CloseSocketTypes
    <3>5. pc' \in {"listen", "client"}
      BY <3>1
    <3> QED
      BY <1>5, <1>6, <1>9, <3>1, <3>2, <3>3, <3>4, <3>5 DEF TableTypes, ScanInv, SocketBegin
  <2>3. CASE pc' = "client" /\ UNCHANGED << socket_ptr, server_port, netVars, slot >>
    BY <1>1, <1>2, <1>5, <1>6, <1>9, <2>1, <2>3 DEF SocketBegin, ScanInv
  <2>4. Free # {} => Least(Free) \in Socks
    <3>1. Free \in SUBSET Socks
      BY DEF Free
    <3> QED
      BY <3>1, LeastEntry
  <2>5. \/ \E s \in Socks : Create(s)
        \/ pc' = "client" /\ UNCHANGED << socket_ptr, server_port, netVars, slot >>
    BY <1>9, <2>4 DEF SocketBegin
  <2> QED
    BY <2>1, <2>2, <2>3, <2>5
<1>10. CASE Listen
  <2>1. socket_ptr' \in [Socks -> Peers \cup {"null", "fresh", "listener", "freed"}]
    BY <1>10 DEF Listen, TypeOK
  <2>2. TableTypes'
    BY <1>10, <2>1 DEF Listen, TypeOK, TableTypes
  <2>3. pc' \in {"port", "client"}
    BY <1>10 DEF Listen
  <2> QED
    BY <1>2, <1>3, <1>4, <1>5, <1>6, <1>10, <2>2, <2>3 DEF Listen, ScanInv
<1>11. CASE SetPort
  <2>1. server_port' \in [Socks -> BOOLEAN]
    BY <1>11 DEF SetPort, TypeOK
  <2>2. TableTypes'
    BY <1>11, <2>1 DEF SetPort, TypeOK, TableTypes
  <2> QED
    BY <1>2, <1>3, <1>4, <1>5, <1>6, <1>11, <2>2 DEF SetPort, ScanInv
<1>12. CASE Register
  <2>1. /\ services' \in [Services -> {"free", "poll", "other"}]
        /\ made' \in 0 .. MaxServices
    <3>1. \/ \E t \in Services : made' = t /\ services' = [services EXCEPT ![t] = "poll"]
          \/ made' = 0 /\ services' = services
      BY <1>12 DEF Register, WantsService, Vacant
    <3>2. 0 \in 0 .. MaxServices /\ \A t \in Services : t \in 0 .. MaxServices
      BY ServerAssumption DEF Services
    <3> QED
      BY <3>1, <3>2 DEF TypeOK
  <2>2. astray' \in BOOLEAN /\ left' \in BOOLEAN
    BY <1>12 DEF Register, TypeOK
  <2>3. ServiceTypes'
    BY <1>12, <2>1, <2>2 DEF Register, ServiceTypes, TypeOK
  <2>4. LoopTypes'
    BY <1>6, <1>12, <2>1, <2>2 DEF Register, LoopTypes
  <2> QED
    BY <1>1, <1>2, <1>4, <1>12, <2>3, <2>4 DEF Register, ScanInv
<1>13. CASE Store
  <2>1. astray' \in BOOLEAN /\ left' \in BOOLEAN /\ 0 \in 0 .. MaxServices
    BY <1>13, ServerAssumption DEF Store, TypeOK
  <2>2. ServiceTypes'
    BY <1>13, <2>1 DEF Store, ServiceTypes, TypeOK
  <2>3. LoopTypes'
    BY <1>6, <1>13, <2>1 DEF Store, LoopTypes
  <2> QED
    BY <1>1, <1>2, <1>4, <1>13, <2>2, <2>3 DEF Store, ScanInv
<1>14. CASE ClientAvailable
  <2>1. TableTypes' /\ ServiceTypes'
    BY <1>1, <1>3, <1>14 DEF ClientAvailable
  <2>2. CASE Restart /\ UNCHANGED netVars
    BY <1>2, <2>1, <2>2, RestartTypes
  <2>3. CASE /\ sockindex < socket_num
             /\ unread' = [unread EXCEPT ![socket_ptr[sockindex]] = FALSE]
             /\ pc' = "respond"
             /\ UNCHANGED << conn, toSend, fin, ours, scanVars, slot, made, left >>
    <3>1. unread' \in [Peers -> BOOLEAN]
      BY <2>3 DEF TypeOK
    <3>2. NetTypes'
      BY <2>3, <3>1 DEF NetTypes, TypeOK
    <3>3. ScanInv'
      BY <2>3 DEF ScanInv, scanVars
    <3> QED
      BY <1>4, <1>5, <1>6, <2>1, <2>3, <3>2, <3>3
  <2>4. CASE /\ sockindex < socket_num /\ pc' = "connected"
             /\ UNCHANGED << netVars, scanVars, slot, made, left >>
    <3>1. ScanInv'
      BY <2>4 DEF ScanInv, scanVars
    <3> QED
      BY <1>2, <1>4, <1>5, <1>6, <2>1, <2>4, <3>1
  <2> QED
    BY <1>14, <2>2, <2>3, <2>4 DEF ClientAvailable
<1>15. CASE Respond
  <2>1. left' \in BOOLEAN
    BY <1>15 DEF Respond
  <2>2. ours' \in [Peers -> BOOLEAN]
    <3>1. \A p \in Peers : ours[p] \in BOOLEAN
      BY DEF TypeOK
    <3> QED
      BY <1>15, <3>1 DEF Respond, TypeOK
  <2>3. LoopTypes'
    BY <1>6, <1>15, <2>1 DEF Respond, LoopTypes, TypeOK
  <2>4. ScanInv'
    BY <1>15 DEF Respond, ScanInv, scanVars
  <2>5. NetTypes'
    BY <1>15, <2>2 DEF Respond, NetTypes, TypeOK
  <2> QED
    BY <1>1, <1>3, <1>4, <1>15, <2>3, <2>4, <2>5 DEF Respond
<1>16. CASE Connected
  <2>1. TableTypes' /\ ServiceTypes'
    BY <1>1, <1>3, <1>16 DEF Connected
  <2>2. CASE pc' = "stop" /\ UNCHANGED << netVars, scanVars, slot, made, left >>
    <3>1. ScanInv'
      BY <1>16, <2>2 DEF ScanInv, scanVars, Connected
    <3> QED
      BY <1>2, <1>4, <1>5, <1>6, <2>1, <2>2, <3>1
  <2>3. CASE /\ unread' = [unread EXCEPT ![socket_ptr[sockindex]] = FALSE]
             /\ Again /\ UNCHANGED << conn, toSend, fin, ours >>
    <3>1. unread' \in [Peers -> BOOLEAN]
      BY <2>3 DEF TypeOK
    <3>2. NetTypes'
      BY <2>3, <3>1 DEF NetTypes, TypeOK
    <3> QED
      BY <2>1, <2>3, <3>2, AgainTypes
  <2>4. CASE Again /\ UNCHANGED netVars
    BY <1>2, <2>1, <2>4, AgainTypes
  <2> QED
    BY <1>16, <2>2, <2>3, <2>4 DEF Connected
<1>17. CASE Stop
  <2>1. sockindex \in Socks
    BY <1>0, <1>17 DEF Stop, ScanInv, TypeOK, Socks
  <2>2. NetTypes' /\ socket_ptr' \in [Socks -> Peers \cup {"null", "fresh", "listener", "freed"}]
    <3>1. CASE SocketClose(sockindex)
      BY <2>1, <3>1, SocketCloseTypes
    <3>2. CASE UNCHANGED << socket_ptr, netVars >>
      BY <1>2, <3>2 DEF TypeOK
    <3> QED
      BY <1>17, <3>1, <3>2 DEF Stop
  <2>3. TableTypes'
    BY <1>17, <2>2 DEF Stop, TableTypes, TypeOK
  <2> QED
    BY <1>3, <1>17, <2>2, <2>3, RestartTypes DEF Stop
<1> QED
  BY <1>7, <1>8, <1>9, <1>10, <1>11, <1>12, <1>13, <1>14, <1>15, <1>16, <1>17 DEF Loop

\* So do FNET's interrupt and the network.
LEMMA NetTypeStep ==
    ASSUME TypeOK, ScanInv, Poll \/ OtherService \/ (\E p \in Peers : Peer(p))
    PROVE  TypeOK' /\ ScanInv'
<1>1. /\ UNCHANGED << server_port, weather, program, pc, i, stat, listening, sockindex,
                      slot, made, left >>
      /\ ScanInv'
  BY DEF Poll, OtherService, Peer, loopVars, chosen, scanVars, ScanInv
<1>2. ChosenTypes' /\ ScanTypes' /\ LoopTypes'
  <2>1. listening' \in BOOLEAN /\ made' \in 0 .. MaxServices /\ left' \in BOOLEAN
    BY <1>1 DEF TypeOK
  <2> QED
    BY <1>1, <2>1 DEF TypeOK, ChosenTypes, ScanTypes, LoopTypes
<1>3. CASE Poll
  <2>1. PICK s \in Socks, p \in Peers :
           /\ conn' = [conn EXCEPT ![p] = "open"]
           /\ socket_ptr' = [socket_ptr EXCEPT ![s] = p]
           /\ Unregister
           /\ UNCHANGED << unread, toSend, fin, ours >>
    BY <1>3 DEF Poll
  <2>2. TableTypes'
    BY <1>1, <2>1 DEF TypeOK, TableTypes
  <2>3. NetTypes'
    <3>1. unread' \in [Peers -> BOOLEAN] /\ fin' \in [Peers -> BOOLEAN] /\ ours' \in [Peers -> BOOLEAN]
      BY <2>1 DEF TypeOK
    <3> QED
      BY <2>1, <3>1 DEF TypeOK, NetTypes
  <2>4. services' \in [Services -> {"free", "poll", "other"}]
    BY <2>1 DEF Unregister, TypeOK
  <2>5. astray' \in BOOLEAN
    BY <2>1 DEF Unregister, TypeOK
  <2>6. ServiceTypes'
    BY <2>1, <2>4, <2>5 DEF Unregister, ServiceTypes, TypeOK
  <2> QED
    BY <1>1, <1>2, <2>2, <2>3, <2>6
       DEF TypeOK, ChosenTypes, TableTypes, NetTypes, ScanTypes, ServiceTypes, LoopTypes
<1>4. ASSUME NEW p \in Peers, Peer(p)
      PROVE  TypeOK' /\ ScanInv'
  <2>1. TableTypes'
    BY <1>4 DEF Peer, TypeOK, TableTypes
  <2>2. astray' \in BOOLEAN
    BY <1>4 DEF Peer, TypeOK, serviceVars
  <2>3. ServiceTypes'
    BY <1>4, <2>2 DEF Peer, TypeOK, ServiceTypes, serviceVars
  <2>4. NetTypes'
    <3>0. ASSUME UNCHANGED << unread, ours >>
          PROVE  unread' \in [Peers -> BOOLEAN] /\ ours' \in [Peers -> BOOLEAN]
      BY <3>0 DEF TypeOK
    <3>1. CASE PeerConnect(p)
      <4>1. fin' \in [Peers -> BOOLEAN]
        BY <3>1 DEF PeerConnect, TypeOK
      <4> QED
        BY <3>0, <3>1, <4>1 DEF PeerConnect, TypeOK, NetTypes
    <3>2. CASE PeerSend(p)
      <4>1. toSend[p] - 1 \in 0 .. MaxChunks
        BY <3>2, ServerAssumption DEF PeerSend, TypeOK
      <4>2. toSend' \in [Peers -> 0 .. MaxChunks]
        BY <3>2, <4>1 DEF PeerSend, TypeOK
      <4>3. /\ unread' \in [Peers -> BOOLEAN] /\ fin' \in [Peers -> BOOLEAN]
            /\ ours' \in [Peers -> BOOLEAN]
        BY <3>2 DEF PeerSend, TypeOK
      <4> QED
        BY <3>2, <4>2, <4>3 DEF PeerSend, TypeOK, NetTypes
    <3>3. CASE PeerFin(p)
      <4>1. fin' \in [Peers -> BOOLEAN]
        BY <3>3 DEF PeerFin, TypeOK
      <4> QED
        BY <3>0, <3>3, <4>1 DEF PeerFin, TypeOK, NetTypes
    <3>4. CASE PeerEnd(p) \/ PeerReset(p)
      BY <3>4, OverTypes DEF PeerEnd, PeerReset, Ends
    <3>5. CASE PeerReturn(p)
      <4>1. fin' \in [Peers -> BOOLEAN]
        BY <3>5 DEF PeerReturn, TypeOK
      <4> QED
        BY <3>0, <3>5, <4>1 DEF PeerReturn, TypeOK, NetTypes
    <3> QED
      BY <1>4, <3>1, <3>2, <3>3, <3>4, <3>5 DEF Peer
  <2> QED
    BY <1>1, <1>2, <2>1, <2>3, <2>4
       DEF TypeOK, ChosenTypes, TableTypes, NetTypes, ScanTypes, ServiceTypes, LoopTypes
<1>5. CASE OtherService
  <2>1. /\ UNCHANGED << socket_ptr, server_port, netVars, descriptor, astray >>
        /\ \E t \in Services, v \in {"free", "other"} : services' = [services EXCEPT ![t] = v]
    BY <1>5 DEF OtherService
  <2>2. services' \in [Services -> {"free", "poll", "other"}]
    BY <2>1 DEF TypeOK
  <2>3. astray' \in BOOLEAN
    BY <2>1 DEF TypeOK
  <2>4. ServiceTypes'
    BY <2>1, <2>2, <2>3 DEF TypeOK, ServiceTypes
  <2>5. TableTypes' /\ NetTypes'
    BY <2>1, TypesTogether DEF TableTypes, NetTypes, netVars
  <2> QED
    BY <1>1, <1>2, <2>4, <2>5
       DEF TypeOK, ChosenTypes, TableTypes, NetTypes, ScanTypes, ServiceTypes, LoopTypes
<1> QED
  BY <1>3, <1>4, <1>5

LEMMA StutterTypes ==
    ASSUME TypeOK, ScanInv, UNCHANGED vars
    PROVE  TypeOK' /\ ScanInv'
BY DEF vars, chosen, netVars, serviceVars, scanVars, TypeOK, ScanInv

LEMMA TypeStep ==
    ASSUME TypeOK, ScanInv, [Next]_vars
    PROVE  TypeOK' /\ ScanInv'
BY LoopTypeStep, NetTypeStep, StutterTypes DEF Next

LEMMA InitTypes == Init => TypeOK /\ ScanInv
<1> SUFFICES ASSUME Init PROVE TypeOK /\ ScanInv
  OBVIOUS
<1>1. /\ 0 \in 0 .. socket_num /\ socket_num \in 0 .. socket_num /\ 0 \in Socks
      /\ 0 \in 0 .. MaxServices /\ MaxChunks \in 0 .. MaxChunks
  BY ServerAssumption DEF Socks
<1>2. astray \in BOOLEAN /\ listening \in BOOLEAN /\ left \in BOOLEAN
  BY DEF Init
<1>3. /\ server_port \in [Socks -> BOOLEAN] /\ unread \in [Peers -> BOOLEAN]
      /\ fin \in [Peers -> BOOLEAN] /\ ours \in [Peers -> BOOLEAN]
  BY DEF Init
<1> QED
  BY <1>1, <1>2, <1>3 DEF Init, TypeOK, ScanInv, States, PCs

\* The program and the interrupt keep the table, the services and the scan in
\* their types: in particular the scan and the client stay inside the table.
THEOREM TypeCorrect == Spec => []TypeOK
<1>1. TypeOK /\ ScanInv /\ [Next]_vars => TypeOK' /\ ScanInv'
  BY TypeStep
<1> QED
  BY <1>1, InitTypes, PTL DEF Spec

-----------------------------------------------------------------------------
(* The listener. *)

Listens(s) == socket_ptr[s] = "listener"

\* There is one listener at most, and none when begin() runs: the scan that led
\* there passed every entry of the server, and an entry it passed can only stop
\* to listen.  A listener belongs to the server, but for the step of begin()
\* that is about to say so.
ListenerInv ==
    /\ \A s, t \in Socks : Listens(s) /\ Listens(t) => s = t
    /\ \A s \in Socks : Listens(s) =>
          /\ server_port[s] \/ (pc = "port" /\ s = slot)
          /\ pc \notin {"begin", "listen"}
          /\ pc \in {"scan", "act"} /\ s < i => listening
          /\ pc = "act" /\ s = i => stat = "LISTEN"

\* What a step that closes a socket leaves in its entry and in the others.
LEMMA EntryAlone ==
    ASSUME TypeOK, NEW s \in Socks, NEW v, socket_ptr' = [socket_ptr EXCEPT ![s] = v]
    PROVE  \A t \in Socks : socket_ptr'[t] = IF t = s THEN v ELSE socket_ptr[t]
BY DEF TypeOK

LEMMA BeginOutcome ==
    ASSUME TypeOK, SocketBegin
    PROVE  \/ /\ pc' = "client"
              /\ UNCHANGED << socket_ptr, server_port, netVars, slot >>
           \/ \E s \in Socks, v \in {"fresh", "null", "freed"} :
                 /\ CloseSocket(s)
                 /\ \A t \in Socks : socket_ptr'[t] = IF t = s THEN v ELSE socket_ptr[t]
                 /\ \A t \in Socks : server_port'[t] = (server_port[t] /\ (t = s => v # "fresh"))
                 /\ slot' = s
                 /\ pc' = IF v = "fresh" THEN "listen" ELSE "client"
<1>1. CASE pc' = "client" /\ UNCHANGED << socket_ptr, server_port, netVars, slot >>
  BY <1>1
<1>2. ASSUME NEW s \in Socks, Create(s)
      PROVE  \E v \in {"fresh", "null", "freed"} :
                 /\ CloseSocket(s)
                 /\ \A t \in Socks : socket_ptr'[t] = IF t = s THEN v ELSE socket_ptr[t]
                 /\ \A t \in Socks : server_port'[t] = (server_port[t] /\ (t = s => v # "fresh"))
                 /\ slot' = s
                 /\ pc' = IF v = "fresh" THEN "listen" ELSE "client"
  <2>1. PICK outcome \in {"ok", "create", "bind"} :
           /\ CloseSocket(s)
           /\ socket_ptr' = [socket_ptr EXCEPT ![s] =
                               CASE outcome = "ok" -> "fresh"
                                 [] outcome = "create" -> "null"
                                 [] outcome = "bind" -> "freed"]
           /\ server_port' = [server_port EXCEPT ![s] = @ /\ outcome # "ok"]
           /\ slot' = s
           /\ pc' = IF outcome = "ok" THEN "listen" ELSE "client"
    BY <1>2 DEF Create
  <2> DEFINE v == CASE outcome = "ok" -> "fresh"
                    [] outcome = "create" -> "null"
                    [] outcome = "bind" -> "freed"
  <2>2. v \in {"fresh", "null", "freed"} /\ (v = "fresh" <=> outcome = "ok")
    OBVIOUS
  <2>3. \A t \in Socks : server_port'[t] = IF t = s THEN server_port[s] /\ outcome # "ok"
                                                    ELSE server_port[t]
    BY <2>1 DEF TypeOK
  <2>4. \A t \in Socks : server_port[t] \in BOOLEAN
    BY DEF TypeOK
  <2>5. ASSUME NEW t \in Socks
        PROVE  server_port'[t] = (server_port[t] /\ (t = s => v # "fresh"))
    <3>1. CASE t = s
      BY <2>2, <2>3, <3>1, Zenon
    <3>2. CASE t # s
      BY <2>3, <2>4, <3>2, Zenon
    <3> QED
      BY <3>1, <3>2
  <2>6. \A t \in Socks : socket_ptr'[t] = IF t = s THEN v ELSE socket_ptr[t]
    BY <2>1, EntryAlone
  <2> HIDE DEF v
  <2> QED
    BY <2>1, <2>2, <2>5, <2>6
<1>3. Free # {} => Least(Free) \in Socks
  <2>1. Free \in SUBSET Socks
    BY DEF Free
  <2> QED
    BY <2>1, LeastEntry
<1>4. \/ \E s \in Socks : Create(s)
      \/ pc' = "client" /\ UNCHANGED << socket_ptr, server_port, netVars, slot >>
  BY <1>3 DEF SocketBegin
<1> QED
  BY <1>1, <1>2, <1>4

LEMMA ListenerStep ==
    ASSUME TypeOK, ScanInv, ListenerInv, [Next]_vars
    PROVE  ListenerInv'
<1> USE DEF Listens
<1>0. socket_num \in Nat /\ i \in 0 .. socket_num /\ Socks \subseteq Nat
      /\ \A s \in Socks : s < socket_num
  BY ServerAssumption DEF Socks, TypeOK
<1>1. ASSUME \A s \in Socks : Listens(s)' => Listens(s)
      PROVE  \A s, t \in Socks : Listens(s)' /\ Listens(t)' => s = t
  BY <1>1 DEF ListenerInv
<1>2. CASE ScanStatus
  <2>1. UNCHANGED << socket_ptr, server_port, listening, slot >> /\ pc = "scan"
    BY <1>2 DEF ScanStatus
  <2>2. CASE i = socket_num
    <3>1. /\ pc' \in {"client", "begin"} /\ (pc' = "begin" => ~ listening)
      BY <1>2, <2>2 DEF ScanStatus
    <3> QED
      BY <1>0, <2>1, <2>2, <3>1 DEF ListenerInv
  <2>3. CASE i # socket_num /\ server_port[i]
    <3>1. pc' = "act" /\ stat' \in StatusOf(i) /\ i' = i
      BY <1>2, <2>3 DEF ScanStatus
    <3>2. Listens(i) => stat' = "LISTEN"
      BY <3>1 DEF StatusOf
    <3> QED
      BY <2>1, <3>1, <3>2 DEF ListenerInv
  <2>4. CASE i # socket_num /\ ~ server_port[i]
    <3>1. pc' = "scan" /\ i' = i + 1
      BY <1>2, <2>1, <2>4 DEF ScanStatus
    <3>2. \A s \in Socks : s < i + 1 => s < i \/ s = i
      BY <1>0
    <3> QED
      BY <2>1, <2>4, <3>1, <3>2 DEF ListenerInv
  <2> QED
    BY <2>2, <2>3, <2>4
<1>3. CASE ScanAct
  <2>1. /\ pc = "act" /\ pc' = "scan" /\ i' = i + 1 /\ i \in Socks
        /\ listening' = ListenerSeen /\ slot' = slot
    BY <1>0, <1>3 DEF ScanAct, NextEntry, ScanInv, Socks
  <2>2. \A s \in Socks : Listens(s)' => Listens(s)
    BY <1>3, <2>1, EntryAlone DEF ScanAct, ScanAvailable, ScanAccept, SocketClose, ClosedPtr
  <2>3. \A s \in Socks : Listens(s) /\ s < i' => ListenerSeen
    BY <1>0, <2>1 DEF ListenerInv, ListenerSeen
  <2>4. \A s \in Socks : Listens(s) => server_port[s] /\ (s = i => stat = "LISTEN")
    BY <2>1 DEF ListenerInv
  <2>5. ASSUME NEW s \in Socks, Listens(s)
        PROVE  server_port'[s]
    <3>1. i = s => stat = "LISTEN"
      BY <2>4, <2>5
    <3>2. \/ server_port' = [server_port EXCEPT ![i] = FALSE] /\ stat # "LISTEN"
          \/ server_port' = [server_port EXCEPT ![i] = @ /\ stat # "CLOSED"]
      BY <1>3 DEF ScanAct, ScanAvailable, ScanAccept, PortAfterAccept
    <3>3. i # s => server_port'[s] = server_port[s]
      BY <3>2 DEF TypeOK
    <3>4. i = s => server_port'[s] = (server_port[s] /\ stat # "CLOSED")
      BY <3>1, <3>2 DEF TypeOK
    <3>5. CASE i = s
      <4>1. server_port[s] /\ stat # "CLOSED"
        BY <2>4, <2>5, <3>1, <3>5
      <4> QED
        BY <3>4, <3>5, <4>1, Zenon
    <3> QED
      BY <2>4, <2>5, <3>3, <3>5
  <2> QED
    BY <1>1, <2>1, <2>2, <2>3, <2>5 DEF ListenerInv
<1>4. CASE SocketBegin
  <2>1. \A s \in Socks : ~ Listens(s)
    BY <1>4 DEF SocketBegin, ListenerInv
  <2>2. \A s \in Socks : ~ Listens(s)'
    BY <1>4, <2>1, BeginOutcome
  <2> QED
    BY <2>2 DEF ListenerInv
<1>5. CASE Listen
  <2>1. \A s \in Socks : ~ Listens(s)
    BY <1>5 DEF Listen, ListenerInv
  <2>2. CASE socket_ptr' = [socket_ptr EXCEPT ![slot] = "listener"] /\ pc' = "port"
    <3>1. \A s \in Socks : Listens(s)' <=> s = slot
      BY <2>1, <2>2 DEF TypeOK
    <3>2. slot' = slot
      BY <1>5 DEF Listen
    <3> QED
      BY <2>2, <3>1, <3>2 DEF ListenerInv
  <2>3. CASE UNCHANGED socket_ptr
    BY <2>1, <2>3 DEF ListenerInv
  <2> QED
    BY <1>5, <2>2, <2>3 DEF Listen
<1>6. CASE SetPort
  <2>1. /\ pc = "port" /\ pc' = "register" /\ UNCHANGED socket_ptr
        /\ server_port'[slot]
        /\ \A s \in Socks : server_port[s] => server_port'[s]
    BY <1>6 DEF SetPort, TypeOK
  <2> QED
    BY <2>1 DEF ListenerInv
<1>7. CASE Register
  BY <1>7 DEF Register, ListenerInv
<1>8. CASE Store
  BY <1>8 DEF Store, ListenerInv
<1>9. CASE ClientAvailable \/ Respond \/ Connected
  <2>1. /\ pc \in {"client", "respond", "connected"}
        /\ UNCHANGED << socket_ptr, server_port >>
        /\ \/ pc' \in {"client", "respond", "connected", "stop"}
           \/ pc' = "scan" /\ i' = 0
    BY <1>9 DEF ClientAvailable, Respond, Connected, Again, Restart
  <2>2. \A s \in Socks : ~ (s < 0)
    BY <1>0
  <2> QED
    BY <2>1, <2>2 DEF ListenerInv
<1>10. CASE Stop
  <2>1. /\ pc = "stop" /\ pc' = "scan" /\ i' = 0
        /\ UNCHANGED server_port
    BY <1>10 DEF Stop, Restart
  <2>2. sockindex \in Socks
    BY <1>10, <1>0 DEF Stop, ScanInv, TypeOK, Socks
  <2>3. \A s \in Socks : Listens(s)' => Listens(s)
    BY <1>10, <2>2, EntryAlone DEF Stop, SocketClose, ClosedPtr
  <2>4. \A s \in Socks : ~ (s < 0)
    BY <1>0
  <2> QED
    BY <1>1, <2>1, <2>3, <2>4 DEF ListenerInv
<1>11. CASE Poll
  <2>1. PICK s \in Socks, p \in Peers :
           Listens(s) /\ socket_ptr' = [socket_ptr EXCEPT ![s] = p]
    BY <1>11 DEF Poll
  <2>2. \A t \in Socks : ~ Listens(t)'
    <3>1. \A t \in Socks : socket_ptr'[t] = IF t = s THEN p ELSE socket_ptr[t]
      BY <2>1, EntryAlone
    <3>2. p # "listener"
      BY ServerAssumption
    <3> QED
      BY <2>1, <3>1, <3>2 DEF ListenerInv
  <2> QED
    BY <2>2 DEF ListenerInv
<1>12. CASE OtherService \/ (\E p \in Peers : Peer(p)) \/ UNCHANGED vars
  <2>1. UNCHANGED << socket_ptr, server_port, pc, i, stat, listening, slot >>
    BY <1>12 DEF OtherService, Peer, vars, loopVars, scanVars
  <2> QED
    BY <2>1 DEF ListenerInv
<1> QED
  BY <1>2, <1>3, <1>4, <1>5, <1>6, <1>7, <1>8, <1>9, <1>10, <1>11, <1>12 DEF Next, Loop

\* There is at most one listener, however the scan of the table, begin() and
\* the interrupt that turns listeners into connections interleave.
THEOREM ListenersAreOne == Spec => []OneListener
<1>1. TypeOK /\ ScanInv /\ ListenerInv /\ [Next]_vars => TypeOK' /\ ScanInv' /\ ListenerInv'
  BY TypeStep, ListenerStep
<1>2. Init => ListenerInv
  BY DEF Init, ListenerInv, Listens
<1>3. ListenerInv => OneListener
  <2> DEFINE L == {s \in Socks : socket_ptr[s] = "listener"}
  <2> SUFFICES ASSUME ListenerInv PROVE Cardinality(L) <= 1
    BY DEF OneListener
  <2>1. \A s, t \in L : s = t
    BY DEF ListenerInv, Listens
  <2> HIDE DEF L
  <2>2. CASE L = {}
    BY <2>2, FS_EmptySet
  <2>3. CASE L # {}
    <3>1. PICK s : L = {s}
      BY <2>1, <2>3
    <3> QED
      BY <3>1, FS_Singleton
  <2> QED
    BY <2>2, <2>3
<1> QED
  BY <1>1, <1>2, <1>3, InitTypes, PTL DEF Spec

\* The service that begin() is about to store is still there if its listener
\* is, since only poll unregisters it, with the listener, or another whose
\* service a stale descriptor took.
MadeInv ==
    HasListener /\ pc = "store" => made = 0 \/ astray \/ (made \in Services /\ services[made] = "poll")

LEMMA PolledStep ==
    ASSUME TypeOK, ScanInv, ListenerInv, ListenerIsPolled, MadeInv, [Next]_vars
    PROVE  ListenerIsPolled' /\ MadeInv'
<1>1. ASSUME UNCHANGED serviceVars, HasListener' => HasListener,
             pc \notin {"port", "register", "store"}, pc' # "store"
      PROVE  ListenerIsPolled' /\ MadeInv'
  BY <1>1 DEF ListenerIsPolled, MadeInv, HasListener, IsPolled, serviceVars
<1>2. ASSUME NEW s \in Socks, NEW v, v # "listener", socket_ptr' = [socket_ptr EXCEPT ![s] = v]
      PROVE  HasListener' => HasListener
  BY <1>2, EntryAlone DEF HasListener
<1>3. CASE ScanStatus
  BY <1>1, <1>3 DEF ScanStatus, HasListener
<1>4. CASE ScanAct
  <2>1. i \in Socks
    BY <1>4, ServerAssumption DEF ScanAct, ScanInv, Socks, TypeOK
  <2>2. HasListener' => HasListener
    BY <1>2, <1>4, <2>1 DEF ScanAct, ScanAvailable, ScanAccept, SocketClose, ClosedPtr, HasListener
  <2> QED
    BY <1>1, <1>4, <2>2 DEF ScanAct
<1>5. CASE SocketBegin
  <2>1. HasListener' => HasListener
    BY <1>5, BeginOutcome DEF HasListener
  <2>2. pc = "begin" /\ pc' \in {"client", "listen"} /\ UNCHANGED serviceVars
    BY <1>5, BeginOutcome DEF SocketBegin
  <2> QED
    BY <1>1, <2>1, <2>2
<1>6. CASE Listen
  <2>1. pc = "listen" /\ UNCHANGED serviceVars /\ (pc' = "port" \/ (pc' = "client" /\ UNCHANGED socket_ptr))
    BY <1>6 DEF Listen
  <2>2. CASE pc' = "port"
    BY <2>2 DEF ListenerIsPolled, MadeInv
  <2>3. CASE pc' = "client" /\ UNCHANGED socket_ptr
    BY <1>1, <2>1, <2>3 DEF HasListener
  <2> QED
    BY <2>1, <2>2, <2>3
<1>7. CASE SetPort
  BY <1>7 DEF SetPort, ListenerIsPolled, MadeInv
<1>8. CASE Register
  <2>1. pc' = "store" /\ (made' = 0 \/ (made' \in Services /\ services' = [services EXCEPT ![made'] = "poll"]))
    BY <1>8 DEF Register, WantsService, Vacant
  <2>2. made' = 0 \/ (made' \in Services /\ services'[made'] = "poll")
    BY <2>1 DEF TypeOK
  <2> QED
    BY <2>1, <2>2 DEF ListenerIsPolled, MadeInv
<1>9. CASE Store
  <2>1. pc = "store" /\ pc' = "client" /\ descriptor' = made /\ UNCHANGED << socket_ptr, services, astray >>
    BY <1>9 DEF Store
  <2>2. HasListener' => HasListener
    BY <2>1 DEF HasListener
  <2>3. HasListener => made = 0 \/ astray \/ IsPolled
    BY <2>1 DEF MadeInv, IsPolled
  <2> QED
    BY <2>1, <2>2, <2>3 DEF ListenerIsPolled, MadeInv, IsPolled
<1>10. CASE ClientAvailable \/ Respond \/ Connected
  <2>1. /\ pc \in {"client", "respond", "connected"} /\ UNCHANGED << socket_ptr, serviceVars >>
        /\ pc' \in {"client", "respond", "connected", "stop", "scan"}
    BY <1>10 DEF ClientAvailable, Respond, Connected, Again, Restart
  <2> QED
    BY <1>1, <2>1 DEF HasListener
<1>11. CASE Stop
  <2>1. /\ pc = "stop" /\ pc' = "scan" /\ UNCHANGED serviceVars
        /\ sockindex \in Socks
    BY <1>11, ServerAssumption DEF Stop, Restart, ScanInv, TypeOK, Socks
  <2>2. HasListener' => HasListener
    BY <1>2, <1>11, <2>1 DEF Stop, SocketClose, ClosedPtr, HasListener
  <2> QED
    BY <1>1, <2>1, <2>2
<1>12. CASE Poll
  <2>1. PICK s \in Socks, p \in Peers :
           Listens(s) /\ socket_ptr' = [socket_ptr EXCEPT ![s] = p]
    BY <1>12 DEF Poll, Listens
  <2>2. p # "listener"
    BY ServerAssumption
  <2>3. \A t \in Socks : socket_ptr'[t] = IF t = s THEN p ELSE socket_ptr[t]
    BY <2>1, EntryAlone
  <2>4. ~ HasListener'
    BY <2>1, <2>2, <2>3 DEF HasListener, ListenerInv, Listens
  <2> QED
    BY <2>4 DEF ListenerIsPolled, MadeInv
<1>13. CASE OtherService
  <2>1. UNCHANGED << socket_ptr, pc, made, descriptor, astray >>
    BY <1>13 DEF OtherService, loopVars
  <2>2. HasListener' => HasListener
    BY <2>1 DEF HasListener
  <2>3. astray \/ \A t \in Services : services[t] = "poll" => services'[t] = "poll"
    BY <1>13 DEF OtherService, TypeOK
  <2>4. astray \/ (IsPolled => IsPolled')
    BY <2>3 DEF IsPolled
  <2> QED
    BY <2>1, <2>2, <2>3, <2>4 DEF ListenerIsPolled, MadeInv
<1>14. CASE (\E p \in Peers : Peer(p)) \/ UNCHANGED vars
  <2>1. UNCHANGED << socket_ptr, pc, made, services, descriptor, astray >>
    BY <1>14 DEF Peer, vars, loopVars, serviceVars
  <2> QED
    BY <2>1 DEF ListenerIsPolled, MadeInv, HasListener, IsPolled
<1> QED
  BY <1>3, <1>4, <1>5, <1>6, <1>7, <1>8, <1>9, <1>10, <1>11, <1>12, <1>13, <1>14 DEF Next, Loop

\* While a listener waits outside begin(), a service that polls it is
\* registered, whichever poll came between the registration and the store of
\* its descriptor and whoever else uses FNET's table, or begin() was told that
\* the table is full, unless a stale descriptor took a service of another.
THEOREM ListenersArePolled == Spec => []ListenerIsPolled
<1> DEFINE Inv == TypeOK /\ ScanInv /\ ListenerInv /\ ListenerIsPolled /\ MadeInv
<1>1. Inv /\ [Next]_vars => Inv'
  BY TypeStep, ListenerStep, PolledStep
<1>2. Init => Inv
  <2>1. Init => ListenerInv
    BY DEF Init, ListenerInv, Listens
  <2>2. Init => ListenerIsPolled /\ MadeInv
    BY DEF Init, ListenerIsPolled, MadeInv
  <2> QED
    BY <2>1, <2>2, InitTypes
<1>3. Inv => ListenerIsPolled
  OBVIOUS
<1> QED
  BY <1>1, <1>2, <1>3, PTL DEF Spec

-----------------------------------------------------------------------------
(* The connections. *)

Serves(s) == socket_ptr[s] \in Peers /\ conn[socket_ptr[s]] = "open"

\* Every connection that FNET has open for the server is in exactly one entry,
\* and an entry holds none that is over but for one that FNET has closed.
CarriedInv ==
    /\ \A s \in Socks : socket_ptr[s] \in Peers => conn[socket_ptr[s]] \in {"open", "ended"}
    /\ \A s, t \in Socks : socket_ptr[s] \in Peers /\ socket_ptr[s] = socket_ptr[t] => s = t
    /\ \A p \in Peers : conn[p] = "open" => \E s \in Socks : socket_ptr[s] = p
    /\ pc = "listen" => socket_ptr[slot] = "fresh"

\* Its entry is the server's or the program's, since a scan that frees an entry
\* saw it closed; it is both only where begin() took the entry in hand.
OwnerInv ==
    /\ \A s \in Socks : Serves(s) =>
          /\ server_port[s] \/ InHand(s)
          /\ pc = "act" /\ s = i => stat # "CLOSED"
    /\ \A s \in Socks : InHand(s) /\ server_port[s] => s = slot /\ pc \notin {"scan", "act", "begin"}

\* Closing the socket of an entry ends its connection and no other.
LEMMA ClosedEntry ==
    ASSUME TypeOK, CarriedInv,
           NEW s \in Socks, NEW v \in {"null", "fresh", "freed"}, CloseSocket(s),
           \A t \in Socks : socket_ptr'[t] = IF t = s THEN v ELSE socket_ptr[t],
           pc' = "listen" => slot' = s /\ v = "fresh"
    PROVE  CarriedInv' /\ \A t \in Socks : Serves(t)' => Serves(t) /\ t # s
<1> DEFINE cut == IF socket_ptr[s] = "listener" THEN {p \in Peers : conn[p] = "queued"}
                  ELSE Peers \cap {socket_ptr[s]}
<1>1. \A p \in Peers : conn'[p] = IF p \in cut THEN "closed" ELSE conn[p]
  BY DEF CloseSocket, Over
<1>2. v \notin Peers /\ "listener" \notin Peers
  BY ServerAssumption
<1>3. ASSUME NEW t \in Socks, t # s, socket_ptr[t] \in Peers
      PROVE  conn'[socket_ptr[t]] = conn[socket_ptr[t]]
  <2>1. socket_ptr[t] # socket_ptr[s] /\ conn[socket_ptr[t]] # "queued"
    BY <1>3 DEF CarriedInv
  <2> QED
    BY <1>1, <1>3, <2>1
<1>4. socket_ptr[s] \in Peers => conn'[socket_ptr[s]] = "closed"
  BY <1>1, <1>2
<1>5. \A p \in Peers : conn'[p] = "open" => conn[p] = "open"
  BY <1>1
<1> HIDE DEF cut
<1>6. \A t \in Socks : socket_ptr'[t] \in Peers =>
         t # s /\ socket_ptr[t] \in Peers /\ socket_ptr'[t] = socket_ptr[t]
         /\ conn'[socket_ptr[t]] = conn[socket_ptr[t]]
  BY <1>2, <1>3
<1>7. \A t \in Socks : Serves(t)' => Serves(t) /\ t # s
  BY <1>6 DEF Serves
<1>8. ASSUME NEW p \in Peers, conn'[p] = "open"
      PROVE  \E t \in Socks : socket_ptr'[t] = p
  <2>1. PICK t \in Socks : socket_ptr[t] = p
    BY <1>5, <1>8 DEF CarriedInv
  <2>2. t # s
    BY <1>4, <1>8, <2>1
  <2> QED
    BY <2>1, <2>2
<1>9. /\ \A t \in Socks : socket_ptr'[t] \in Peers => conn'[socket_ptr'[t]] \in {"open", "ended"}
      /\ \A t, u \in Socks : socket_ptr'[t] \in Peers /\ socket_ptr'[t] = socket_ptr'[u] => t = u
  BY <1>6 DEF CarriedInv
<1>10. pc' = "listen" => socket_ptr'[slot'] = "fresh"
  OBVIOUS
<1> QED
  BY <1>7, <1>8, <1>9, <1>10 DEF CarriedInv

\* Steps of the loop that leave the sockets alone.
LEMMA SameEntries ==
    ASSUME CarriedInv, UNCHANGED << socket_ptr, conn >>, pc' # "listen"
    PROVE  CarriedInv' /\ \A t \in Socks : Serves(t)' <=> Serves(t)
BY DEF CarriedInv, Serves

\* The scan gives an entry up only when it saw it closed, or hands it over.
LEMMA ScanOwner ==
    ASSUME TypeOK, ScanInv, ListenerInv, CarriedInv, OwnerInv, program' = program, ScanAct
    PROVE  CarriedInv' /\ OwnerInv'
<1>1. /\ pc = "act" /\ pc' = "scan" /\ i \in Socks /\ slot' = slot
      /\ socket_num \notin Socks
  BY ServerAssumption DEF ScanAct, ScanInv, Socks, TypeOK
<1>2. \A s \in Socks : InHand(s) => ~ server_port[s]
  BY <1>1 DEF OwnerInv
<1>3. /\ \A s \in Socks : Serves(s) => server_port[s] \/ InHand(s)
      /\ Serves(i) => stat # "CLOSED"
  BY <1>1 DEF OwnerInv
<1>4. ASSUME server_port' = [server_port EXCEPT ![i] = @ /\ stat # "CLOSED"],
             NEW s \in Socks
      PROVE  /\ server_port'[s] => server_port[s]
             /\ server_port[s] /\ (s = i => stat # "CLOSED") => server_port'[s]
  <2>1. s # i => server_port'[s] = server_port[s]
    BY <1>4 DEF TypeOK
  <2>2. server_port'[i] = (server_port[i] /\ stat # "CLOSED")
    BY <1>1, <1>4 DEF TypeOK
  <2>3. CASE s = i
    BY <2>2, <2>3, Zenon
  <2> QED
    BY <2>1, <2>3
<1>5. CASE program = "web"
  <2>1. ScanAvailable
    BY <1>5 DEF ScanAct
  <2>2. server_port' = [server_port EXCEPT ![i] = @ /\ stat # "CLOSED"]
    BY <2>1 DEF ScanAvailable
  <2>3. \A s \in Socks : ~ InHand(s) /\ ~ InHand(s)'
    BY <1>5 DEF InHand
  <2>4. CarriedInv' /\ \A t \in Socks : Serves(t)' => Serves(t)
    <3>1. CASE SocketClose(i)
      <4>1. \A t \in Socks : socket_ptr'[t] = IF t = i THEN "null" ELSE socket_ptr[t]
        BY <1>1, <3>1, EntryAlone DEF SocketClose, ClosedPtr
      <4>2. CloseSocket(i) /\ "null" \in {"null", "fresh", "freed"}
        BY <3>1 DEF SocketClose
      <4> QED
        BY <1>1, <4>1, <4>2, ClosedEntry
    <3>2. CASE UNCHANGED << socket_ptr, netVars >>
      BY <1>1, <3>2, SameEntries DEF netVars
    <3> QED
      BY <2>1, <3>1, <3>2 DEF ScanAvailable
  <2>5. \A s \in Socks : Serves(s)' => server_port'[s]
    BY <1>3, <1>4, <2>2, <2>3, <2>4
  <2> QED
    BY <1>1, <2>3, <2>4, <2>5 DEF OwnerInv
<1>6. CASE program # "web"
  <2>1. ScanAccept /\ program = "accept"
    BY <1>6, ServerAssumption DEF ScanAct, TypeOK
  <2>2. CarriedInv' /\ \A t \in Socks : Serves(t)' <=> Serves(t)
    BY <1>1, <2>1, SameEntries DEF ScanAccept, netVars
  <2>3. CASE /\ sockindex = socket_num /\ sockindex' = i
             /\ server_port' = [server_port EXCEPT ![i] = PortAfterAccept]
    <3>1. \A s \in Socks : server_port'[s] = IF s = i THEN FALSE ELSE server_port[s]
      BY <1>1, <2>3 DEF PortAfterAccept, TypeOK
    <3>2. \A s \in Socks : ~ InHand(s) /\ (InHand(s)' <=> s = i)
      BY <1>1, <2>1, <2>3 DEF InHand
    <3>3. \A s \in Socks : Serves(s)' => server_port'[s] \/ InHand(s)'
      BY <1>3, <2>2, <3>1, <3>2
    <3>4. \A s \in Socks : InHand(s)' => ~ server_port'[s]
      BY <3>1, <3>2
    <3> QED
      BY <1>1, <2>2, <3>3, <3>4 DEF OwnerInv
  <2>4. CASE /\ sockindex' = sockindex
             /\ server_port' = [server_port EXCEPT ![i] = @ /\ stat # "CLOSED"]
    <3>1. \A s \in Socks : InHand(s)' <=> InHand(s)
      BY <2>4 DEF InHand
    <3>2. \A s \in Socks : Serves(s)' => server_port'[s] \/ InHand(s)'
      BY <1>3, <1>4, <2>2, <2>4, <3>1
    <3>3. \A s \in Socks : InHand(s)' => ~ server_port'[s]
      BY <1>2, <1>4, <2>4, <3>1
    <3> QED
      BY <1>1, <2>2, <3>2, <3>3 DEF OwnerInv
  <2> QED
    BY <2>1, <2>3, <2>4 DEF ScanAccept
<1> QED
  BY <1>5, <1>6

LEMMA LoopOwner ==
    ASSUME TypeOK, ScanInv, ListenerInv, CarriedInv, OwnerInv, Loop
    PROVE  CarriedInv' /\ OwnerInv'
<1>0. /\ program' = program /\ socket_num \notin Socks
      /\ sockindex < socket_num => sockindex \in Socks
  BY ServerAssumption DEF Loop, chosen, Socks, TypeOK
<1>1. CASE ScanAct
  BY <1>0, <1>1, ScanOwner
<1>2. CASE ScanStatus
  <2>1. /\ pc = "scan" /\ pc' \in {"scan", "act", "client", "begin"} /\ slot' = slot
        /\ UNCHANGED << socket_ptr, conn, server_port, sockindex >>
        /\ pc' = "act" => i' = i /\ stat' \in StatusOf(i)
    BY <1>2 DEF ScanStatus, netVars
  <2>2. Serves(i) => StatusOf(i) \in {{"CLOSE_WAIT"}, {"ESTABLISHED"}}
    BY ServerAssumption DEF Serves, StatusOf
  <2>3. CarriedInv' /\ \A t \in Socks : Serves(t)' <=> Serves(t)
    BY <2>1, SameEntries
  <2>4. \A t \in Socks : InHand(t)' <=> InHand(t)
    BY <1>0, <2>1 DEF InHand
  <2> QED
    BY <2>1, <2>2, <2>3, <2>4 DEF OwnerInv
<1>3. CASE SocketBegin
  <2>1. pc = "begin" /\ UNCHANGED sockindex
    BY <1>3 DEF SocketBegin, scanVars
  <2>2. \A t \in Socks : (InHand(t)' <=> InHand(t)) /\ (InHand(t) => ~ server_port[t])
    BY <1>0, <2>1 DEF InHand, OwnerInv
  <2>3. CASE pc' = "client" /\ UNCHANGED << socket_ptr, server_port, netVars, slot >>
    <3>1. CarriedInv' /\ \A t \in Socks : Serves(t)' <=> Serves(t)
      BY <2>3, SameEntries DEF netVars
    <3> QED
      BY <2>2, <2>3, <3>1 DEF OwnerInv
  <2>4. CASE \E s \in Socks, v \in {"fresh", "null", "freed"} :
                 /\ CloseSocket(s)
                 /\ \A t \in Socks : socket_ptr'[t] = IF t = s THEN v ELSE socket_ptr[t]
                 /\ \A t \in Socks : server_port'[t] = (server_port[t] /\ (t = s => v # "fresh"))
                 /\ slot' = s
                 /\ pc' = IF v = "fresh" THEN "listen" ELSE "client"
    <3>1. PICK s \in Socks, v \in {"fresh", "null", "freed"} :
                 /\ CloseSocket(s)
                 /\ \A t \in Socks : socket_ptr'[t] = IF t = s THEN v ELSE socket_ptr[t]
                 /\ \A t \in Socks : server_port'[t] = (server_port[t] /\ (t = s => v # "fresh"))
                 /\ slot' = s
                 /\ pc' = IF v = "fresh" THEN "listen" ELSE "client"
      BY <2>4
    <3>2. CarriedInv' /\ \A t \in Socks : Serves(t)' => Serves(t) /\ t # s
      BY <3>1, ClosedEntry
    <3>3. ASSUME NEW t \in Socks
          PROVE  (server_port'[t] => server_port[t]) /\ (t # s /\ server_port[t] => server_port'[t])
      BY <3>1, Zenon
    <3>4. pc' \in {"listen", "client"}
      BY <3>1
    <3> QED
      BY <2>2, <3>2, <3>3, <3>4 DEF OwnerInv
  <2> QED
    BY <1>3, <2>3, <2>4, BeginOutcome
<1>4. CASE Listen
  <2>1. /\ pc = "listen" /\ pc' \in {"port", "client"}
        /\ UNCHANGED << server_port, conn, slot, sockindex >>
        /\ socket_ptr[slot] = "fresh"
    BY <1>4 DEF Listen, netVars, scanVars, CarriedInv
  <2>2. "fresh" \notin Peers /\ "listener" \notin Peers
    BY ServerAssumption
  <2>3. \A t \in Socks : socket_ptr'[t] = socket_ptr[t]
                         \/ (t = slot /\ socket_ptr'[t] = "listener")
    BY <1>4 DEF Listen, TypeOK
  <2>4. \A t \in Socks : /\ socket_ptr[t] \in Peers => socket_ptr'[t] = socket_ptr[t]
                         /\ socket_ptr'[t] \in Peers => socket_ptr'[t] = socket_ptr[t]
    BY <2>1, <2>2, <2>3
  <2>5. CarriedInv'
    <3>1. \A p \in Peers : conn'[p] = "open" => \E s \in Socks : socket_ptr'[s] = p
      BY <2>1, <2>4 DEF CarriedInv
    <3> QED
      BY <2>1, <2>4, <3>1 DEF CarriedInv
  <2>6. \A t \in Socks : (Serves(t)' => Serves(t)) /\ (InHand(t)' <=> InHand(t))
    BY <1>0, <2>1, <2>4 DEF Serves, InHand
  <2> QED
    BY <2>1, <2>5, <2>6 DEF OwnerInv
<1>5. CASE SetPort
  <2>1. /\ pc' = "register" /\ UNCHANGED << socket_ptr, conn, slot, sockindex >>
        /\ \A t \in Socks : server_port'[t] = IF t = slot THEN TRUE ELSE server_port[t]
    BY <1>5 DEF SetPort, netVars, scanVars, TypeOK
  <2>2. CarriedInv' /\ \A t \in Socks : Serves(t)' <=> Serves(t)
    BY <2>1, SameEntries
  <2>3. \A t \in Socks : InHand(t)' <=> InHand(t)
    BY <1>0, <2>1 DEF InHand
  <2> QED
    BY <2>1, <2>2, <2>3 DEF OwnerInv
<1>6. ASSUME UNCHANGED << socket_ptr, server_port, conn, slot >>,
             UNCHANGED sockindex,
             pc' \in {"store", "client", "respond", "connected", "stop"}
      PROVE  CarriedInv' /\ OwnerInv'
  <2>1. CarriedInv' /\ \A t \in Socks : Serves(t)' <=> Serves(t)
    BY <1>6, SameEntries
  <2>2. \A t \in Socks : InHand(t)' <=> InHand(t)
    BY <1>0, <1>6 DEF InHand
  <2> QED
    BY <1>6, <2>1, <2>2 DEF OwnerInv
<1>7. ASSUME UNCHANGED << socket_ptr, server_port, conn >>, Restart,
             program = "web" \/ sockindex = socket_num
      PROVE  CarriedInv' /\ OwnerInv'
  <2>1. pc' = "scan" /\ sockindex' = socket_num /\ slot' = slot
    BY <1>7 DEF Restart
  <2>2. CarriedInv' /\ \A t \in Socks : Serves(t)' <=> Serves(t)
    BY <1>7, <2>1, SameEntries
  <2>3. \A t \in Socks : ~ InHand(t)' /\ ~ InHand(t)
    BY <1>0, <1>7, <2>1 DEF InHand
  <2> QED
    BY <1>7, <2>1, <2>2, <2>3 DEF OwnerInv
<1>8. ASSUME UNCHANGED << socket_ptr, server_port, conn >>, Again
      PROVE  CarriedInv' /\ OwnerInv'
  <2>1. CASE program = "web"
    BY <1>7, <1>8, <2>1 DEF Again
  <2>2. CASE program # "web"
    BY <1>6, <1>8, <2>2 DEF Again, scanVars
  <2> QED
    BY <2>1, <2>2
<1>9. CASE Register \/ Store \/ Respond
  BY <1>6, <1>9 DEF Register, Store, Respond, netVars, scanVars
<1>10. CASE ClientAvailable
  <2>1. UNCHANGED << socket_ptr, server_port, conn >>
    BY <1>10 DEF ClientAvailable, netVars
  <2>2. \/ sockindex = socket_num /\ Restart
        \/ pc' \in {"respond", "connected"} /\ UNCHANGED << sockindex, slot >>
    BY <1>10 DEF ClientAvailable, scanVars
  <2> QED
    BY <1>6, <1>7, <2>1, <2>2
<1>11. CASE Connected
  <2>1. UNCHANGED << socket_ptr, server_port, conn >>
    BY <1>11 DEF Connected, netVars
  <2>2. Again \/ (pc' = "stop" /\ UNCHANGED << sockindex, slot >>)
    BY <1>11 DEF Connected, scanVars
  <2> QED
    BY <1>6, <1>8, <2>1, <2>2
<1>12. CASE Stop
  <2> DEFINE s == sockindex
  <2>1. /\ pc' = "scan" /\ sockindex' = socket_num /\ slot' = slot
        /\ UNCHANGED server_port /\ s \in Socks
    BY <1>0, <1>12 DEF Stop, Restart, ScanInv
  <2>2. CarriedInv' /\ \A t \in Socks : Serves(t)' => Serves(t) /\ t # s
    <3>1. CASE socket_ptr[s] = "null"
      <4>1. UNCHANGED << socket_ptr, conn >> /\ ~ Serves(s)
        BY <1>12, <3>1, ServerAssumption DEF Stop, netVars, Serves
      <4> QED
        BY <2>1, <4>1, SameEntries
    <3>2. CASE socket_ptr[s] # "null"
      <4>1. CloseSocket(s) /\ "null" \in {"null", "fresh", "freed"}
        BY <1>12, <3>2 DEF Stop, SocketClose
      <4>2. \A t \in Socks : socket_ptr'[t] = IF t = s THEN "null" ELSE socket_ptr[t]
        BY <1>12, <2>1, <3>2, EntryAlone DEF Stop, SocketClose, ClosedPtr
      <4> QED
        BY <2>1, <4>1, <4>2, ClosedEntry
    <3> QED
      BY <3>1, <3>2
  <2>3. \A t \in Socks : ~ InHand(t)' /\ (InHand(t) => t = s)
    BY <1>0, <2>1 DEF InHand
  <2> QED
    BY <2>1, <2>2, <2>3 DEF OwnerInv
<1> QED
  BY <1>1, <1>2, <1>3, <1>4, <1>5, <1>9, <1>10, <1>11, <1>12 DEF Loop

LEMMA NetOwner ==
    ASSUME TypeOK, ListenerInv, CarriedInv, OwnerInv, Poll \/ OtherService \/ (\E p \in Peers : Peer(p))
    PROVE  CarriedInv' /\ OwnerInv'
<1>1. /\ UNCHANGED << server_port, program, pc, i, stat, sockindex, slot >>
      /\ \A s \in Socks : InHand(s)' <=> InHand(s)
  BY DEF Poll, OtherService, Peer, loopVars, chosen, scanVars, InHand
<1>2. CASE Poll
  <2>1. PICK s \in Socks, p \in Peers :
           /\ server_port[s] /\ socket_ptr[s] = "listener"
           /\ conn[p] = "queued"
           /\ conn' = [conn EXCEPT ![p] = "open"]
           /\ socket_ptr' = [socket_ptr EXCEPT ![s] = p]
    BY <1>2 DEF Poll, Polled
  <2>2. \A t \in Socks : socket_ptr'[t] = IF t = s THEN p ELSE socket_ptr[t]
    BY <2>1, EntryAlone
  <2>3. \A q \in Peers : conn'[q] = IF q = p THEN "open" ELSE conn[q]
    BY <2>1 DEF TypeOK
  <2>4. \A t \in Socks : socket_ptr[t] # p
    BY <2>1 DEF CarriedInv
  <2>5. "listener" \notin Peers
    BY ServerAssumption
  <2>6. pc # "listen" /\ (pc = "act" /\ s = i => stat = "LISTEN")
    BY <2>1 DEF ListenerInv, Listens
  <2>7. CarriedInv'
    <3>1. \A q \in Peers : conn'[q] = "open" => \E t \in Socks : socket_ptr'[t] = q
      BY <2>1, <2>2, <2>3, <2>5 DEF CarriedInv
    <3> QED
      BY <1>1, <2>1, <2>2, <2>3, <2>4, <2>6, <3>1 DEF CarriedInv
  <2>8. \A t \in Socks : Serves(t)' => t = s \/ Serves(t)
    BY <2>1, <2>2, <2>3, <2>4 DEF Serves
  <2> QED
    BY <1>1, <2>1, <2>6, <2>7, <2>8 DEF OwnerInv
<1>3. ASSUME NEW p \in Peers, Peer(p)
      PROVE  CarriedInv' /\ OwnerInv'
  <2>1. UNCHANGED socket_ptr
    BY <1>3 DEF Peer
  <2>2. \A q \in Peers : \/ conn'[q] = conn[q]
                         \/ conn[q] \in {"away", "queued", "closed"}
                            /\ conn'[q] \in {"away", "queued", "closed"}
                         \/ conn[q] = "open" /\ conn'[q] = "ended"
    <3>1. CASE PeerEnd(p) \/ PeerReset(p)
      BY <3>1 DEF PeerEnd, PeerReset, Ends, Over, TypeOK
    <3> QED
      BY <1>3, <3>1 DEF Peer, PeerConnect, PeerSend, PeerFin, PeerReturn, TypeOK
  <2>3. CarriedInv'
    BY <1>1, <2>1, <2>2 DEF CarriedInv
  <2>4. \A t \in Socks : Serves(t)' => Serves(t)
    BY <2>1, <2>2 DEF Serves
  <2> QED
    BY <1>1, <2>3, <2>4 DEF OwnerInv
<1>4. CASE OtherService
  <2>1. UNCHANGED << socket_ptr, conn >>
    BY <1>4 DEF OtherService, netVars
  <2>2. \A t \in Socks : Serves(t)' <=> Serves(t)
    BY <2>1 DEF Serves
  <2> QED
    BY <1>1, <2>1, <2>2 DEF CarriedInv, OwnerInv
<1> QED
  BY <1>2, <1>3, <1>4

LEMMA ConnectionStep ==
    ASSUME TypeOK, ScanInv, ListenerInv, CarriedInv, OwnerInv, [Next]_vars
    PROVE  CarriedInv' /\ OwnerInv'
<1>1. CASE UNCHANGED vars
  <2>1. UNCHANGED << socket_ptr, conn, server_port, program, pc, i, stat, sockindex, slot >>
    BY <1>1 DEF vars, chosen, netVars, scanVars
  <2>2. \A t \in Socks : (Serves(t)' <=> Serves(t)) /\ (InHand(t)' <=> InHand(t))
    BY <2>1 DEF Serves, InHand
  <2> QED
    BY <2>1, <2>2 DEF CarriedInv, OwnerInv
<1> QED
  BY <1>1, LoopOwner, NetOwner DEF Next

\* Every connection FNET accepted for the server is in one entry of the table,
\* which the server or the program that took it looks after, until it ends.
THEOREM ConnectionsAreTracked == Spec => []ConnectionTracked
<1> DEFINE Inv == TypeOK /\ ScanInv /\ ListenerInv /\ CarriedInv /\ OwnerInv
<1>1. Inv /\ [Next]_vars => Inv'
  BY TypeStep, ListenerStep, ConnectionStep
<1>2. Init => Inv
  <2> SUFFICES ASSUME Init PROVE ListenerInv /\ CarriedInv /\ OwnerInv
    BY InitTypes
  <2>1. \A s \in Socks : socket_ptr[s] = "null" /\ ~ server_port[s]
    BY DEF Init
  <2>2. \A p \in Peers : conn[p] = "away"
    BY DEF Init
  <2> QED
    BY <2>1, <2>2, ServerAssumption DEF Init, ListenerInv, Listens, CarriedInv, OwnerInv, Serves
<1>3. Inv => ConnectionTracked
  <2> SUFFICES ASSUME CarriedInv, OwnerInv, NEW p \in Peers, conn[p] = "open"
               PROVE  \E s \in Socks :
                         /\ socket_ptr[s] = p
                         /\ server_port[s] \/ InHand(s)
                         /\ server_port[s] /\ InHand(s) => slot = s
                         /\ \A t \in Socks : socket_ptr[t] = p => t = s
    BY DEF ConnectionTracked
  <2>1. PICK s \in Socks : socket_ptr[s] = p
    BY DEF CarriedInv
  <2> QED
    BY <2>1 DEF CarriedInv, OwnerInv, Serves
<1> QED
  BY <1>1, <1>2, <1>3, PTL DEF Spec
================================================================================
