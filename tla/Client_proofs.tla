----------------------------- MODULE Client_proofs -----------------------------
(***************************************************************************)
(* Proofs about the outgoing connections, for every size of the table and  *)
(* of the send buffer, every number of clients and every sizes of writes.  *)
(***************************************************************************)
EXTENDS Client, TLAPS, FiniteSetTheorems, NaturalsInduction, WellFoundedInduction

-----------------------------------------------------------------------------
(* Types. *)

LEMMA LeastEntry ==
    ASSUME NEW S \in SUBSET Socks, S # {}
    PROVE  (CHOOSE s \in S : \A t \in S : s <= t) \in S
<1>1. S \subseteq Nat
  BY ClientAssumption DEF Socks
<1>2. PICK s \in S : \A t \in S : <<t, s>> \notin OpToRel(<, Nat)
  BY <1>1, WFMin, NatLessThanWellFounded, Zenon
<1>3. \A t \in S : ~ (t < s)
  BY <1>1, <1>2, Zenon DEF OpToRel
<1>4. \A t \in S : s <= t
  BY <1>1, <1>3
<1> QED
  BY <1>4

\* socketClose empties the entry and keeps its socket's memory.
LEMMA CloseThenTypes ==
    ASSUME TypeOK, NEW s \in 0 .. socket_num, NEW next \in PCs, CloseThen(s, next)
    PROVE  /\ socket_ptr' \in [Socks -> Sockets]
           /\ pending' \in [Socks -> 0 .. SndBuf]
           /\ shut' \subseteq Socks
           /\ entry' \in 0 .. socket_num
           /\ then' \in PCs /\ pc' \in PCs
<1>1. 0 \in 0 .. SndBuf /\ "freed" \in Sockets /\ "close" \in PCs
  BY ClientAssumption DEF Sockets, PCs
<1>2. socket_ptr' \in [Socks -> Sockets]
  BY <1>1 DEF CloseThen, TypeOK
<1>3. pending' \in [Socks -> 0 .. SndBuf]
  BY <1>1 DEF CloseThen, TypeOK
<1> QED
  BY <1>1, <1>2, <1>3 DEF CloseThen, TypeOK

LEMMA ReturnTypes ==
    ASSUME Return
    PROVE  /\ pc' \in PCs /\ then' \in PCs /\ entry' \in 0 .. socket_num
           /\ elapsed' \in BOOLEAN /\ size' \in Writes \cup {0}
<1>1. elapsed' \in BOOLEAN
  BY DEF Return
<1>2. socket_num \in 0 .. socket_num
  BY ClientAssumption
<1> QED
  BY <1>1, <1>2 DEF Return, PCs

LEMMA LetGoTypes ==
    ASSUME TypeOK, NEW c \in Clients, NEW overload \in {"host", "ip"}, LetGo(c, overload)
    PROVE  /\ socket_ptr' \in [Socks -> Sockets]
           /\ pending' \in [Socks -> 0 .. SndBuf]
           /\ shut' \subseteq Socks
           /\ sockindex' \in [Clients -> 0 .. socket_num]
           /\ trying' \subseteq Clients
           /\ firstCall' \subseteq {"host", "ip"}
<1>1. socket_num \in 0 .. socket_num
  BY ClientAssumption
<1>2. sockindex' \in [Clients -> 0 .. socket_num]
  BY <1>1 DEF LetGo, TypeOK
<1>3. Disconnects(c, overload) => sockindex[c] \in Socks
  BY ClientAssumption DEF Disconnects, TypeOK, Socks
<1> QED
  BY <1>2, <1>3 DEF LetGo, TypeOK

\* What the calls of the program leave and take, beside the table.
LEMMA ConnectPollTypes ==
    ASSUME TypeOK, NEW next \in {"timer", "idle"}, ConnectPoll(next)
    PROVE  /\ socket_ptr' \in [Socks -> Sockets]
           /\ pending' \in [Socks -> 0 .. SndBuf]
           /\ shut' \subseteq Socks
           /\ trying' \subseteq Clients
           /\ entry' \in 0 .. socket_num
           /\ then' \in PCs /\ pc' \in PCs
           /\ elapsed' \in BOOLEAN /\ size' \in Writes \cup {0}
<1> DEFINE s == sockindex[client]
<1>1. s \in 0 .. socket_num /\ next \in PCs
  BY DEF TypeOK, PCs
<1>2. CASE Return /\ trying' = trying \ {client} /\ UNCHANGED table
  BY <1>2, ReturnTypes DEF TypeOK, table
<1>3. CASE CloseThen(s, next) /\ UNCHANGED << trying, elapsed, size >>
  BY <1>1, <1>3, CloseThenTypes DEF TypeOK
<1>4. CASE /\ Return \/ (pc' = next /\ UNCHANGED << entry, then, elapsed, size >>)
           /\ UNCHANGED << table, trying >>
  BY <1>1, <1>4, ReturnTypes DEF TypeOK, table
<1> QED
  BY <1>2, <1>3, <1>4 DEF ConnectPoll

LEMMA TypeStep ==
    ASSUME TypeOK, [Next]_vars
    PROVE  TypeOK'
<1> USE DEF table, calls, dns
<1> DEFINE TableOK == /\ socket_ptr' \in [Socks -> Sockets]
                      /\ pending' \in [Socks -> 0 .. SndBuf]
                      /\ shut' \subseteq Socks
           CallOK  == /\ pc' \in PCs /\ then' \in PCs /\ entry' \in 0 .. socket_num
                      /\ size' \in Writes \cup {0}
           LateOK  == elapsed' \in BOOLEAN
           Kept    == UNCHANGED << entry, then, elapsed, size >>
<1>0. /\ client \in Clients /\ sockindex[client] \in 0 .. socket_num
      /\ PCs = {"idle", "lookup", "resolve", "connect", "find", "last", "close", "create",
                "establish", "poll", "timer", "ask", "send", "flush", "failed", "stopped"}
      /\ socket_num \in 0 .. socket_num /\ 0 \in 0 .. socket_num /\ 0 \in 0 .. SndBuf
  BY ClientAssumption DEF TypeOK, PCs
<1>1. ASSUME Return PROVE CallOK /\ LateOK
  BY <1>1, ReturnTypes
<1>2. ASSUME Kept PROVE LateOK /\ then' \in PCs /\ entry' \in 0 .. socket_num /\ size' \in Writes \cup {0}
  BY <1>2 DEF TypeOK
<1>3. ASSUME TableOK, CallOK, LateOK,
             /\ sockindex' \in [Clients -> 0 .. socket_num]
             /\ trying' \subseteq Clients /\ firstCall' \subseteq {"host", "ip"},
             client' \in Clients, setting' = setting, UNCHANGED dns
      PROVE  TypeOK'
  <2>1. lookup' \in BOOLEAN /\ resolveDone' \in {-1, 0, 1} /\ setting' \in Settings
    BY <1>3 DEF TypeOK
  <2> QED
    BY <1>3, <2>1 DEF TypeOK
<1>4. ASSUME UNCHANGED table PROVE TableOK
  BY <1>4 DEF TypeOK
<1>5. ASSUME NEW c \in Clients, ConnectHost(c) \/ ConnectIp(c)
      PROVE  TypeOK'
  <2>1. CASE ConnectHost(c)
    BY <1>0, <1>2, <1>3, <2>1, LetGoTypes DEF ConnectHost
  <2>2. CASE ConnectIp(c)
    BY <1>0, <1>2, <1>3, <1>4, <2>2 DEF ConnectIp, TypeOK
  <2> QED
    BY <1>5, <2>1, <2>2
<1>6. ASSUME NEW c \in Clients, AskConnectPoll(c) \/ FlushCall(c)
      PROVE  TypeOK'
  BY <1>0, <1>2, <1>3, <1>4, <1>6 DEF AskConnectPoll, FlushCall, TypeOK
<1>7. ASSUME NEW c \in Clients, WriteCall(c)
      PROVE  TypeOK'
  <2>1. LateOK
    BY <1>7 DEF WriteCall, TypeOK
  <2> QED
    BY <1>0, <1>3, <1>4, <1>7, <2>1 DEF WriteCall, TypeOK
<1>8. ASSUME NEW c \in Clients, StopClient(c)
      PROVE  TypeOK'
  <2>1. sockindex[c] \in 0 .. socket_num /\ CloseThen(sockindex[c], "stopped") /\ "stopped" \in PCs
    BY <1>0, <1>8 DEF StopClient, TypeOK
  <2>2. TableOK /\ entry' \in 0 .. socket_num /\ then' \in PCs /\ pc' \in PCs
    BY <2>1, CloseThenTypes
  <2>3. LateOK /\ size' \in Writes \cup {0}
    BY <1>8 DEF StopClient, TypeOK
  <2> QED
    BY <1>3, <1>8, <2>2, <2>3 DEF StopClient, TypeOK
<1>9. ASSUME NEW c \in Clients, CloseClient(c)
      PROVE  TypeOK'
  <2>1. HasEntry(c) => sockindex[c] \in Socks
    BY <1>9, ClientAssumption DEF HasEntry, TypeOK, Socks
  <2>2. TableOK
    BY <1>9, <2>1 DEF CloseClient, TypeOK
  <2>3. CallOK /\ LateOK
    BY <1>2, <1>9 DEF CloseClient, TypeOK
  <2> QED
    BY <1>3, <1>9, <2>2, <2>3 DEF CloseClient, TypeOK
<1>10. CASE LookUp
  <2>1. lookup' \in BOOLEAN /\ resolveDone' \in {-1, 0, 1} /\ setting' \in Settings
    BY <1>10 DEF LookUp, TypeOK
  <2>2. CallOK /\ LateOK
    BY <1>0, <1>1, <1>2, <1>10 DEF LookUp
  <2>3. TableOK
    BY <1>4, <1>10 DEF LookUp
  <2> QED
    BY <1>10, <2>1, <2>2, <2>3 DEF LookUp, TypeOK
<1>11. CASE Resolved
  BY <1>0, <1>1, <1>2, <1>3, <1>4, <1>11 DEF Resolved, TypeOK
<1>12. CASE Connect
  <2>1. CallOK /\ LateOK
    BY <1>0, <1>1, <1>2, <1>12 DEF Connect
  <2> QED
    BY <1>0, <1>3, <1>12, <2>1, LetGoTypes DEF Connect
<1>13. CASE FindEntry
  <2>1. Unused # {} => (CHOOSE s \in Unused : \A t \in Unused : s <= t) \in 0 .. socket_num
    <3>1. Unused \in SUBSET Socks /\ \A s \in Socks : s \in 0 .. socket_num
      BY ClientAssumption DEF Unused, Socks
    <3> QED
      BY <3>1, LeastEntry
  <2>2. CallOK
    BY <1>0, <1>13, <2>1 DEF FindEntry, TypeOK
  <2>3. LateOK
    BY <1>13 DEF FindEntry, TypeOK
  <2> QED
    BY <1>3, <1>4, <1>13, <2>2, <2>3 DEF FindEntry, TypeOK
<1>14. CASE LastResort
  <2>1. LateOK /\ client' \in Clients
    BY <1>1, <1>2, <1>14 DEF LastResort, TypeOK
  <2>2. CASE CloseThen(entry, "create") /\ UNCHANGED size
    <3>1. TableOK /\ entry' \in 0 .. socket_num /\ then' \in PCs /\ pc' \in PCs
      BY <1>0, <2>2, CloseThenTypes DEF TypeOK
    <3> QED
      BY <1>3, <1>14, <2>1, <2>2, <3>1 DEF LastResort, TypeOK
  <2>3. CASE /\ entry < socket_num /\ entry' = entry + 1
             /\ UNCHANGED << table, pc, then, size >>
    <3>1. entry' \in 0 .. socket_num
      BY <2>3, ClientAssumption DEF TypeOK
    <3> QED
      BY <1>3, <1>4, <1>14, <2>1, <2>3, <3>1 DEF LastResort, TypeOK
  <2>4. CASE Return /\ UNCHANGED table
    BY <1>1, <1>3, <1>4, <1>14, <2>4 DEF LastResort, TypeOK
  <2> QED
    BY <1>14, <2>2, <2>3, <2>4 DEF LastResort
<1>15. CASE Create
  <2>1. socket_ptr' \in [Socks -> Sockets]
    BY <1>15 DEF Create, TypeOK, Sockets
  <2>2. CallOK /\ LateOK
    BY <1>0, <1>1, <1>2, <1>15 DEF Create
  <2>3. sockindex' \in [Clients -> 0 .. socket_num] /\ trying' \subseteq Clients
    BY <1>0, <1>15 DEF Create, TypeOK
  <2> QED
    BY <1>3, <1>15, <2>1, <2>2, <2>3 DEF Create, TypeOK
<1>16. CASE Establish
  <2>1. socket_ptr' \in [Socks -> Sockets]
    BY <1>16 DEF Establish, TypeOK, Sockets
  <2>2. CallOK /\ LateOK
    BY <1>0, <1>1, <1>2, <1>16 DEF Establish
  <2> QED
    BY <1>3, <1>16, <2>1, <2>2 DEF Establish, TypeOK
<1>17. CASE Poll \/ PollOnce
  BY <1>3, <1>17, ConnectPollTypes DEF Poll, PollOnce, TypeOK
<1>18. CASE Timer
  <2>1. LateOK /\ size' \in Writes \cup {0}
    BY <1>18 DEF Timer, TypeOK
  <2>2. CASE CloseThen(sockindex[client], "failed")
    <3>1. TableOK /\ entry' \in 0 .. socket_num /\ then' \in PCs /\ pc' \in PCs
      BY <1>0, <2>2, CloseThenTypes
    <3> QED
      BY <1>3, <1>18, <2>1, <3>1 DEF Timer, TypeOK
  <2>3. CASE pc' = "poll" /\ UNCHANGED << table, entry, then >>
    BY <1>0, <1>3, <1>4, <1>18, <2>1, <2>3 DEF Timer, TypeOK
  <2> QED
    BY <1>18, <2>2, <2>3 DEF Timer
<1>19. CASE LetGoAfterClose
  <2>1. sockindex' \in [Clients -> 0 .. socket_num]
    BY <1>0, <1>19 DEF LetGoAfterClose, IndexCleared, TypeOK
  <2>2. CallOK /\ LateOK /\ TableOK
    BY <1>1, <1>4, <1>19 DEF LetGoAfterClose
  <2> QED
    BY <1>3, <1>19, <2>1, <2>2 DEF LetGoAfterClose, TypeOK
<1>20. CASE Send
  <2>1. pending' \in [Socks -> 0 .. SndBuf]
    <3> DEFINE s == sockindex[client]
    <3>1. CASE pending' = pending
      BY <3>1 DEF TypeOK
    <3>2. CASE /\ pending' = [pending EXCEPT ![s] = @ + size]
               /\ s < socket_num /\ socket_ptr[s] \notin {"null", "freed"}
      <4>1. CASE s \in Socks
        <5>1. pending[s] \in 0 .. SndBuf /\ size \in Nat /\ SndBuf \in Nat
          BY <4>1, ClientAssumption DEF TypeOK
        <5>2. SndBuf - pending[s] >= size
          BY <1>20, <3>2, ClientAssumption DEF Send, EnoughRoom, Room
        <5>3. pending[s] + size \in 0 .. SndBuf
          BY <5>1, <5>2
        <5> QED
          BY <3>2, <5>3 DEF TypeOK
      <4>2. CASE s \notin Socks
        BY <3>2, <4>2 DEF TypeOK
      <4> QED
        BY <4>1, <4>2
    <3> QED
      BY <1>20, <3>1, <3>2 DEF Send
  <2>2. CallOK /\ LateOK
    BY <1>1, <1>20 DEF Send
  <2> QED
    BY <1>3, <1>20, <2>1, <2>2 DEF Send, TypeOK
<1>21. CASE Flush
  BY <1>1, <1>3, <1>4, <1>21 DEF Flush, TypeOK
<1>22. CASE SocketClosed
  <2>1. socket_ptr' \in [Socks -> Sockets]
    BY <1>22 DEF SocketClosed, TypeOK, Sockets
  <2>2. CallOK /\ LateOK
    <3>1. CASE Return
      BY <1>1, <3>1
    <3>2. CASE pc' = then /\ Kept
      BY <1>2, <3>2 DEF TypeOK
    <3> QED
      BY <1>22, <3>1, <3>2 DEF SocketClosed
  <2> QED
    BY <1>3, <1>22, <2>1, <2>2 DEF SocketClosed, TypeOK
<1>23. CASE TimePasses
  <2>1. LateOK
    BY <1>23 DEF TimePasses
  <2> QED
    BY <1>3, <1>4, <1>23, <2>1 DEF TimePasses, TypeOK
<1>24. CASE Connections
  <2>1. PICK s \in Socks : Established(s) \/ PeerFin(s) \/ Lost(s) \/ Acknowledged(s)
    BY <1>24 DEF Connections
  <2>2. TableOK
    BY <1>0, <2>1 DEF Established, PeerFin, Lost, Acknowledged, TypeOK, Sockets
  <2>3. CallOK /\ LateOK
    BY <1>24 DEF Connections, TypeOK
  <2> QED
    BY <1>3, <1>24, <2>2, <2>3 DEF Connections, TypeOK
<1>25. CASE Answered
  <2>1. lookup' \in BOOLEAN /\ resolveDone' \in {-1, 0, 1}
    BY <1>25 DEF Answered, TypeOK
  <2>2. TableOK /\ CallOK
    BY <1>4, <1>25 DEF Answered, TypeOK
  <2>3. LateOK
    BY <1>25 DEF Answered, TypeOK
  <2> QED
    BY <1>25, <2>1, <2>2, <2>3 DEF Answered, TypeOK
<1>26. CASE UNCHANGED vars
  BY <1>26 DEF vars, TypeOK
<1>27. CASE Progress
  BY <1>10, <1>11, <1>12, <1>13, <1>14, <1>15, <1>16, <1>17, <1>18, <1>19, <1>20,
     <1>21, <1>22, <1>27 DEF Progress
<1> QED
  BY <1>5, <1>6, <1>7, <1>8, <1>9, <1>23, <1>24, <1>25, <1>26, <1>27 DEF Next

LEMMA InitTypes == Init => TypeOK
<1> SUFFICES ASSUME Init PROVE TypeOK
  OBVIOUS
<1>1. /\ socket_num \in 0 .. socket_num /\ 0 \in 0 .. SndBuf
  BY ClientAssumption
<1>2. elapsed \in BOOLEAN /\ lookup \in BOOLEAN
  BY DEF Init
<1> QED
  BY <1>1, <1>2 DEF Init, TypeOK, Sockets, PCs

\* The program and the table stay in their types: in particular a write never
\* puts more into a send buffer than it holds.
THEOREM TypeCorrect == Spec => []TypeOK
<1>1. TypeOK /\ [Next]_vars => TypeOK'
  BY TypeStep
<1> QED
  BY <1>1, InitTypes, PTL DEF Spec

-----------------------------------------------------------------------------
(* The name lookup. *)

\* The call waits until the answer came, and starts with none.
LookupInv == lookup => pc = "resolve" /\ resolveDone = 0

\* A lookup never answers a call that has returned: the DNSClient it writes to
\* is still on the stack of connect, however long the answer takes and however
\* it ends.
THEOREM AnswersMeetCallers == Spec => []AnswerMeetsCaller
<1>1. Init => LookupInv
  BY DEF Init, LookupInv
<1>2. LookupInv /\ [Next]_vars => LookupInv'
  <2> SUFFICES ASSUME LookupInv, [Next]_vars PROVE LookupInv'
    OBVIOUS
  <2> USE DEF dns
  <2>1. ASSUME pc \notin {"resolve"}, UNCHANGED lookup
        PROVE  LookupInv'
    BY <2>1 DEF LookupInv
  <2>2. ASSUME NEW c \in Clients, \/ ConnectHost(c) \/ ConnectIp(c) \/ AskConnectPoll(c)
                                  \/ WriteCall(c) \/ FlushCall(c) \/ StopClient(c)
                                  \/ CloseClient(c)
        PROVE  LookupInv'
    BY <2>1, <2>2 DEF ConnectHost, ConnectIp, AskConnectPoll, WriteCall, FlushCall,
                      StopClient, CloseClient, MayUse
  <2>3. CASE LookUp
    BY <2>3 DEF LookUp, LookupInv, Return
  <2>4. CASE Resolved
    BY <2>4 DEF Resolved, WaitEnds, LookupInv
  <2>5. CASE Connect \/ FindEntry \/ LastResort \/ Create \/ Establish
    BY <2>1, <2>5 DEF Connect, FindEntry, LastResort, Create, Establish
  <2>6. CASE Poll \/ Timer \/ LetGoAfterClose \/ PollOnce \/ Send \/ Flush \/ SocketClosed
    BY <2>1, <2>6 DEF Poll, Timer, LetGoAfterClose, PollOnce, Send, Flush, SocketClosed
  <2>7. CASE TimePasses
    BY <2>7 DEF TimePasses, LookupInv
  <2>8. CASE Connections \/ Answered \/ UNCHANGED vars
    BY <2>8 DEF Connections, Answered, vars, LookupInv
  <2> QED
    BY <2>2, <2>3, <2>4, <2>5, <2>6, <2>7, <2>8 DEF Next, Progress
<1>3. LookupInv => AnswerMeetsCaller
  BY DEF LookupInv, AnswerMeetsCaller
<1> QED
  BY <1>1, <1>2, <1>3, PTL DEF Spec

-----------------------------------------------------------------------------
(* The entries of a regular program. *)

\* The table has an entry for every client.  With fewer, the last resort of
\* socketBegin may take the entry of a client that is still using it.
ClientsFit == IsFiniteSet(Clients) /\ Cardinality(Clients) <= socket_num

Closing == {"close", "failed", "stopped"}

\* Entries belong to one client each and to one at least while they have a
\* socket, which is there but for the end of connect and stop; a connection
\* that was not reported is not lost.
TableInv ==
    /\ \A c, d \in Clients : c # d /\ sockindex[c] = sockindex[d] => sockindex[c] = socket_num
    /\ \A s \in Socks : socket_ptr[s] # "null" => \E c \in Clients : sockindex[c] = s
    /\ \A c \in Clients : sockindex[c] < socket_num =>
          \/ c = client /\ pc \in Closing
          \/ socket_ptr[sockindex[c]] \notin {"null", "freed"}
    /\ \A c \in trying :
          /\ sockindex[c] < socket_num
          /\ \/ c = client /\ pc \in Closing \cup {"establish"}
             \/ socket_ptr[sockindex[c]] \in {"connecting", "connected", "closing"}

\* What each step of a call finds: connect comes without an entry, and with
\* the table large enough never reaches the last resort.
CallInv ==
    /\ pc # "last"
    /\ pc \in {"lookup", "resolve", "connect", "find", "create"} => sockindex[client] = socket_num
    /\ pc \in {"establish", "poll", "timer", "ask"} \cup Closing => sockindex[client] < socket_num
    /\ pc \in {"establish", "close"} => entry = sockindex[client]
    /\ pc = "create" => entry \in Socks /\ socket_ptr[entry] = "null"
    /\ pc = "establish" => socket_ptr[entry] = "fresh"
    /\ pc \in {"establish", "poll", "timer", "ask"} => client \in trying
    /\ pc = "close" => then \in {"failed", "stopped"} /\ socket_ptr[entry] = "freed"
    /\ pc \in {"failed", "stopped"} => socket_ptr[sockindex[client]] = "null"

RegularInv == setting = "regular" => TableInv /\ CallInv

\* A client without an entry leaves one unused.
LEMMA UnusedEntry ==
    ASSUME TypeOK, TableInv, ClientsFit, sockindex[client] = socket_num
    PROVE  Unused # {}
<1> SUFFICES ASSUME Unused = {} PROVE FALSE
  OBVIOUS
<1> DEFINE Others == Clients \ {client}
           f == [s \in Socks |-> CHOOSE c \in Clients : sockindex[c] = s]
<1>1. \A s \in Socks : f[s] \in Clients /\ sockindex[f[s]] = s
  BY DEF Unused, TableInv
<1>2. \A s \in Socks : s # socket_num
  BY ClientAssumption DEF Socks
<1>3. f \in [Socks -> Others]
  BY <1>1, <1>2
<1>4. IsFiniteSet(Socks) /\ Cardinality(Socks) = socket_num
  <2>1. 0 \in Int /\ socket_num - 1 \in Int /\ ~ (0 > socket_num - 1)
    BY ClientAssumption
  <2>2. /\ IsFiniteSet(0 .. socket_num - 1)
        /\ Cardinality(0 .. socket_num - 1) = socket_num - 1 - 0 + 1
    BY <2>1, FS_Interval
  <2> QED
    BY <2>2, ClientAssumption DEF Socks
<1>5. IsFiniteSet(Others) /\ Cardinality(Others) = Cardinality(Clients) - 1
  BY FS_RemoveElement DEF TypeOK, ClientsFit
<1>6. Cardinality(Others) < Cardinality(Socks)
  <2>1. Cardinality(Clients) \in Nat
    BY FS_CardinalityType DEF ClientsFit
  <2> QED
    BY <1>4, <1>5, <2>1, ClientAssumption DEF ClientsFit
<1> HIDE DEF f, Others
<1>7. \E s, t \in Socks : s # t /\ f[s] = f[t]
  BY <1>3, <1>4, <1>5, <1>6, FS_PigeonHole
<1>8. PICK s, t \in Socks : s # t /\ f[s] = f[t]
  BY <1>7
<1> QED
  BY <1>1, <1>8

\* The program begins a call on a client.
LEMMA CallRegular ==
    ASSUME TypeOK, TableInv, CallInv, setting = "regular", NEW c \in Clients,
           \/ ConnectHost(c) \/ ConnectIp(c) \/ AskConnectPoll(c) \/ WriteCall(c)
           \/ FlushCall(c) \/ StopClient(c) \/ CloseClient(c)
    PROVE  TableInv' /\ CallInv'
<1> USE DEF Closing
<1>1. pc = "idle" /\ sockindex \in [Clients -> 0 .. socket_num] /\ trying \subseteq Clients
  BY DEF ConnectHost, ConnectIp, AskConnectPoll, WriteCall, FlushCall, StopClient,
         CloseClient, MayUse, TypeOK
<1>2. \A d \in Clients : sockindex[d] < socket_num => socket_ptr[sockindex[d]] \notin {"null", "freed"}
  BY <1>1 DEF TableInv
<1>3. \A d \in trying : socket_ptr[sockindex[d]] \in {"connecting", "connected", "closing"}
  BY <1>1 DEF TableInv
<1>4. CASE ConnectHost(c)
  <2>1. /\ sockindex[c] = socket_num /\ socket_ptr' = socket_ptr
        /\ sockindex' = [sockindex EXCEPT ![c] = socket_num]
        /\ trying' = trying \ {c} /\ client' = c /\ pc' = "lookup"
    BY <1>4 DEF ConnectHost, MayConnect, Careful, LetGo
  <2>2. sockindex' = sockindex
    BY <1>1, <2>1
  <2> QED
    BY <1>2, <1>3, <2>1, <2>2 DEF TableInv, CallInv
<1>5. CASE ConnectIp(c)
  BY <1>2, <1>3, <1>5 DEF ConnectIp, MayConnect, Careful, table, TableInv, CallInv
<1>6. CASE AskConnectPoll(c)
  BY <1>1, <1>2, <1>3, <1>6 DEF AskConnectPoll, HasEntry, table, TableInv, CallInv
<1>7. CASE WriteCall(c) \/ FlushCall(c)
  BY <1>2, <1>3, <1>7 DEF WriteCall, FlushCall, MayUse, table, TableInv, CallInv
<1>8. CASE CloseClient(c)
  BY <1>1, <1>2, <1>3, <1>8 DEF CloseClient, calls, TableInv, CallInv
<1>9. CASE StopClient(c)
  <2> DEFINE s == sockindex[c]
  <2>1. s \in Socks
    BY <1>9, ClientAssumption DEF StopClient, HasEntry, TypeOK, Socks
  <2>2. /\ \A t \in Socks : socket_ptr'[t] = IF t = s THEN "freed" ELSE socket_ptr[t]
        /\ entry' = s /\ then' = "stopped" /\ pc' = "close" /\ client' = c
        /\ UNCHANGED << sockindex, trying >>
    BY <1>9, <2>1 DEF StopClient, CloseThen, TypeOK
  <2>3. \A d \in Clients : d # c /\ sockindex[d] < socket_num =>
                              sockindex[d] # s /\ sockindex[d] \in Socks
    BY <1>1, <2>1, ClientAssumption DEF TableInv, Socks
  <2>4. \A t \in Socks : socket_ptr[t] # "null" => \E d \in Clients : sockindex[d] = t
    BY DEF TableInv
  <2>5. sockindex[c] < socket_num
    BY <1>9 DEF StopClient, HasEntry
  <2>6. \A d \in trying : sockindex[d] < socket_num
    BY DEF TableInv
  <2>7. TableInv'
    BY <1>1, <1>2, <1>3, <2>1, <2>2, <2>3, <2>4, <2>6 DEF TableInv
  <2>8. CallInv'
    BY <2>1, <2>2, <2>5 DEF CallInv
  <2> QED
    BY <2>7, <2>8
<1> QED
  BY <1>4, <1>5, <1>6, <1>7, <1>8, <1>9

\* A step that changes neither the table nor the clients.
LEMMA QuietRegular ==
    ASSUME TypeOK, TableInv, CallInv,
           UNCHANGED << socket_ptr, sockindex, client >>,
           trying' \subseteq trying,
           pc \notin Closing \cup {"establish"},
           pc' \notin Closing \cup {"establish"},
           CallInv'
    PROVE  TableInv'
BY DEF TableInv, Closing

\* connect, up to the entry it found.
LEMMA ConnectRegular ==
    ASSUME TypeOK, TableInv, CallInv, setting = "regular", ClientsFit,
           LookUp \/ Resolved \/ Connect \/ FindEntry
    PROVE  TableInv' /\ CallInv'
<1> USE DEF Closing
<1>1. /\ pc \in {"lookup", "resolve", "connect", "find"} /\ sockindex[client] = socket_num
      /\ sockindex \in [Clients -> 0 .. socket_num] /\ client \in Clients
  BY DEF LookUp, Resolved, Connect, FindEntry, CallInv, TypeOK
<1>2. CASE LookUp \/ Resolved
  <2>1. /\ pc' \in {"idle", "resolve", "connect"}
        /\ UNCHANGED << socket_ptr, sockindex, client, trying >>
    BY <1>2 DEF LookUp, Resolved, Return, table
  <2>2. CallInv'
    BY <1>1, <2>1 DEF CallInv
  <2> QED
    BY <1>1, <2>1, <2>2, QuietRegular
<1>3. CASE Connect
  <2>1. /\ pc' \in {"idle", "find"} /\ UNCHANGED << socket_ptr, client >>
        /\ sockindex' = [sockindex EXCEPT ![client] = socket_num]
        /\ trying' = trying \ {client}
    BY <1>3 DEF Connect, LetGo, Return
  <2>2. sockindex' = sockindex
    BY <1>1, <2>1
  <2>3. CallInv'
    BY <1>1, <2>1, <2>2 DEF CallInv
  <2> QED
    BY <1>1, <2>1, <2>2, <2>3, QuietRegular
<1>4. CASE FindEntry
  <2>1. Unused # {}
    BY <1>1, UnusedEntry
  <2>2. entry' \in Unused
    <3>1. Unused \in SUBSET Socks
      BY DEF Unused
    <3> QED
      BY <1>4, <2>1, <3>1, LeastEntry DEF FindEntry
  <2>3. pc' = "create" /\ UNCHANGED << socket_ptr, sockindex, client, trying >>
    BY <1>4, <2>1 DEF FindEntry, table
  <2>4. CallInv'
    BY <1>1, <2>2, <2>3 DEF CallInv, Unused
  <2> QED
    BY <1>1, <2>3, <2>4, QuietRegular
<1> QED
  BY <1>2, <1>3, <1>4

\* The client gets the entry with its socket, or none.
LEMMA CreateRegular ==
    ASSUME TypeOK, TableInv, CallInv, setting = "regular", Create
    PROVE  TableInv' /\ CallInv'
<1> USE DEF Closing
<1>1. /\ pc = "create" /\ sockindex[client] = socket_num /\ entry \in Socks
      /\ socket_ptr[entry] = "null" /\ client \in Clients /\ trying \subseteq Clients
      /\ sockindex \in [Clients -> 0 .. socket_num] /\ entry < socket_num
      /\ client' = client
  BY ClientAssumption DEF Create, CallInv, TypeOK, Socks
<1>2. \A c \in Clients : sockindex[c] # entry
  BY <1>1 DEF TableInv
<1>3. \A c \in trying : c # client /\ sockindex[c] < socket_num
                        /\ socket_ptr[sockindex[c]] \in {"connecting", "connected", "closing"}
  BY <1>1 DEF TableInv
<1>4. CASE /\ socket_ptr' = [socket_ptr EXCEPT ![entry] = "fresh"]
           /\ sockindex' = [sockindex EXCEPT ![client] = entry]
           /\ trying' = trying \cup {client}
           /\ pc' = "establish"
           /\ UNCHANGED entry
  <2>1. /\ \A t \in Socks : socket_ptr'[t] = IF t = entry THEN "fresh" ELSE socket_ptr[t]
        /\ \A c \in Clients : sockindex'[c] = IF c = client THEN entry ELSE sockindex[c]
    BY <1>1, <1>4 DEF TypeOK
  <2>2. \A c \in Clients : sockindex[c] < socket_num => sockindex[c] \in Socks
    BY <1>1, ClientAssumption DEF Socks
  <2>3. CallInv'
    BY <1>1, <1>4, <2>1 DEF CallInv
  <2>4. /\ \A c, d \in Clients : c # d /\ sockindex'[c] = sockindex'[d] => sockindex'[c] = socket_num
        /\ \A s \in Socks : socket_ptr'[s] # "null" => \E c \in Clients : sockindex'[c] = s
    BY <1>1, <1>2, <2>1 DEF TableInv, Socks
  <2>5. \A c \in Clients : sockindex'[c] < socket_num => socket_ptr'[sockindex'[c]] \notin {"null", "freed"}
    BY <1>1, <1>2, <2>1, <2>2 DEF TableInv
  <2>6. \A c \in trying' : sockindex'[c] < socket_num
           /\ (c = client \/ socket_ptr'[sockindex'[c]] \in {"connecting", "connected", "closing"})
    BY <1>1, <1>2, <1>3, <1>4, <2>1, <2>2
  <2> QED
    BY <1>1, <1>4, <2>3, <2>4, <2>5, <2>6 DEF TableInv
<1>5. CASE /\ socket_ptr' = [socket_ptr EXCEPT ![entry] = "null"]
           /\ pc' = "idle"
           /\ UNCHANGED << sockindex, trying >>
  <2>1. socket_ptr' = socket_ptr
    BY <1>1, <1>5 DEF TypeOK
  <2>2. CallInv'
    BY <1>5 DEF CallInv
  <2> QED
    BY <1>1, <1>5, <2>1, <2>2, QuietRegular
<1> QED
  BY <1>4, <1>5 DEF Create, Return

\* A step at the entry of the client whose call it is: its connection starts,
\* or its socket is on the way out.
LEMMA OwnEntry ==
    ASSUME TypeOK, TableInv, sockindex[client] < socket_num,
           NEW v \in Sockets, v = "connecting" \/ pc' \in Closing,
           socket_ptr' = [socket_ptr EXCEPT ![sockindex[client]] = v],
           UNCHANGED << sockindex, trying, client >>
    PROVE  TableInv' /\ sockindex[client] \in Socks /\ socket_ptr'[sockindex[client]] = v
<1> DEFINE s == sockindex[client]
<1>1. /\ client \in Clients /\ s \in Socks /\ trying \subseteq Clients
      /\ \A c \in Clients : sockindex[c] < socket_num => sockindex[c] \in Socks
  BY ClientAssumption DEF TypeOK, Socks
<1>2. \A t \in Socks : socket_ptr'[t] = IF t = s THEN v ELSE socket_ptr[t]
  BY <1>1 DEF TypeOK
<1>3. \A c \in Clients \ {client} : sockindex[c] < socket_num =>
         /\ sockindex[c] # s
         /\ socket_ptr'[sockindex[c]] = socket_ptr[sockindex[c]]
         /\ socket_ptr[sockindex[c]] \notin {"null", "freed"}
  BY <1>1, <1>2, ClientAssumption DEF TableInv
<1>4. \A c \in Clients : sockindex'[c] < socket_num =>
         \/ c = client' /\ pc' \in Closing
         \/ socket_ptr'[sockindex'[c]] \notin {"null", "freed"}
  BY <1>1, <1>2, <1>3
<1>5. \A c \in trying : sockindex[c] < socket_num /\
         (c # client => socket_ptr'[sockindex[c]] \in {"connecting", "connected", "closing"})
  BY <1>1, <1>3 DEF TableInv
<1>6. \A c \in trying' :
         /\ sockindex'[c] < socket_num
         /\ \/ c = client' /\ pc' \in Closing \cup {"establish"}
            \/ socket_ptr'[sockindex'[c]] \in {"connecting", "connected", "closing"}
  BY <1>1, <1>2, <1>5
<1>7. /\ \A c, d \in Clients : c # d /\ sockindex'[c] = sockindex'[d] => sockindex'[c] = socket_num
      /\ \A t \in Socks : socket_ptr'[t] # "null" => \E c \in Clients : sockindex'[c] = t
  BY <1>1, <1>2 DEF TableInv
<1> QED
  BY <1>1, <1>2, <1>4, <1>6, <1>7 DEF TableInv

\* connect asks for the connection and waits for it.
LEMMA WaitRegular ==
    ASSUME TypeOK, TableInv, CallInv, setting = "regular",
           Establish \/ Poll \/ PollOnce \/ Timer \/ TimePasses
    PROVE  TableInv' /\ CallInv'
<1> USE DEF Closing
<1> DEFINE s == sockindex[client]
<1>1. /\ pc \in {"establish", "poll", "timer", "ask"} /\ s < socket_num
      /\ client \in trying /\ s \in Socks
  BY ClientAssumption DEF Establish, Poll, PollOnce, Timer, TimePasses, CallInv, TypeOK, Socks
<1>2. pc # "establish" => socket_ptr[s] \in {"connecting", "connected", "closing"}
  BY <1>1 DEF TableInv
<1>3. CASE Establish
  <2>1. /\ socket_ptr' = [socket_ptr EXCEPT ![s] = "connecting"]
        /\ pc' \in {"idle", "poll"} /\ UNCHANGED << sockindex, trying, client >>
    BY <1>3 DEF Establish, Return, CallInv
  <2>2. "connecting" \in Sockets
    BY DEF Sockets
  <2>3. TableInv'
    BY <1>1, <2>1, <2>2, OwnEntry
  <2>4. CallInv'
    BY <1>1, <2>1 DEF CallInv
  <2> QED
    BY <2>3, <2>4
<1>4. CASE Poll \/ PollOnce
  <2>1. /\ UNCHANGED << socket_ptr, sockindex, client >>
        /\ trying' \subseteq trying
        /\ pc' = "idle" \/ (pc' = "timer" /\ trying' = trying)
    <3>1. Status(s) # "CLOSED"
      BY <1>1, <1>2, <1>4 DEF Status, Poll, PollOnce
    <3> QED
      BY <1>4, <3>1 DEF Poll, PollOnce, ConnectPoll, Return, table
  <2>2. CallInv'
    BY <1>1, <2>1 DEF CallInv
  <2>3. pc # "establish" /\ pc \notin Closing
    BY <1>4 DEF Poll, PollOnce
  <2> QED
    BY <2>1, <2>2, <2>3, QuietRegular
<1>5. CASE Timer
  <2>1. CASE CloseThen(s, "failed")
    <3>1. /\ socket_ptr' = [socket_ptr EXCEPT ![s] = "freed"]
          /\ pc' = "close" /\ then' = "failed" /\ entry' = s
          /\ UNCHANGED << sockindex, trying, client >>
      BY <1>2, <1>5, <2>1 DEF CloseThen, Timer
    <3>2. "freed" \in Sockets
      BY DEF Sockets
    <3>3. TableInv' /\ socket_ptr'[s] = "freed"
      BY <1>1, <3>1, <3>2, OwnEntry
    <3>4. CallInv'
      BY <1>1, <3>1, <3>3 DEF CallInv
    <3> QED
      BY <3>3, <3>4
  <2>2. CASE pc' = "poll" /\ UNCHANGED << table, entry, then >>
    <3>1. UNCHANGED << socket_ptr, sockindex, client, trying >>
      BY <1>5, <2>2 DEF Timer, table
    <3>2. CallInv'
      BY <1>1, <2>2, <3>1 DEF CallInv
    <3>3. pc = "timer"
      BY <1>5 DEF Timer
    <3> QED
      BY <2>2, <3>1, <3>2, <3>3, QuietRegular
  <2> QED
    BY <1>5, <2>1, <2>2 DEF Timer
<1>6. CASE TimePasses
  <2>1. UNCHANGED << socket_ptr, sockindex, client, trying, pc, entry, then >>
    BY <1>6 DEF TimePasses, table
  <2> QED
    BY <2>1 DEF TableInv, CallInv
<1> QED
  BY <1>3, <1>4, <1>5, <1>6

\* The end of a connect that failed, and of stop.
LEMMA EndRegular ==
    ASSUME TypeOK, TableInv, CallInv, setting = "regular",
           SocketClosed \/ LetGoAfterClose
    PROVE  TableInv' /\ CallInv'
<1> USE DEF Closing
<1> DEFINE s == sockindex[client]
<1>1. /\ s < socket_num /\ s \in Socks /\ client \in Clients /\ trying \subseteq Clients
  BY ClientAssumption DEF SocketClosed, LetGoAfterClose, CallInv, TypeOK, Socks
<1>2. CASE SocketClosed
  <2>1. /\ socket_ptr' = [socket_ptr EXCEPT ![s] = "null"]
        /\ pc' \in {"failed", "stopped"}
        /\ UNCHANGED << sockindex, trying, client >>
    BY <1>2 DEF SocketClosed, CallInv
  <2>2. "null" \in Sockets
    BY DEF Sockets
  <2>3. TableInv' /\ socket_ptr'[s] = "null"
    BY <1>1, <2>1, <2>2, OwnEntry
  <2>4. CallInv'
    BY <1>1, <2>1, <2>3 DEF CallInv
  <2> QED
    BY <2>3, <2>4
<1>3. CASE LetGoAfterClose
  <2>1. /\ pc' = "idle" /\ UNCHANGED << socket_ptr, client >>
        /\ \A c \in Clients : sockindex'[c] = IF c = client THEN socket_num ELSE sockindex[c]
        /\ trying' = trying \ {client}
        /\ pc \in {"failed", "stopped"}
    BY <1>1, <1>3 DEF LetGoAfterClose, IndexCleared, Return, table, TypeOK
  <2>2. socket_ptr[s] = "null" /\ socket_num \in Nat
    BY <2>1, ClientAssumption DEF CallInv
  <2>3. /\ \A c, d \in Clients : c # d /\ sockindex'[c] = sockindex'[d] => sockindex'[c] = socket_num
        /\ \A t \in Socks : socket_ptr'[t] # "null" => \E c \in Clients : sockindex'[c] = t
    BY <1>1, <2>1, <2>2 DEF TableInv
  <2>4. \A c \in Clients : sockindex'[c] < socket_num =>
           socket_ptr'[sockindex'[c]] \notin {"null", "freed"}
    BY <1>1, <2>1, <2>2 DEF TableInv
  <2>5. \A c \in trying' :
           /\ sockindex'[c] < socket_num
           /\ socket_ptr'[sockindex'[c]] \in {"connecting", "connected", "closing"}
    BY <1>1, <2>1 DEF TableInv
  <2>6. CallInv'
    BY <2>1 DEF CallInv
  <2> QED
    BY <2>3, <2>4, <2>5, <2>6 DEF TableInv
<1> QED
  BY <1>2, <1>3

\* FNET works on the connections: none that is not reported is lost.
LEMMA ConnectionsRegular ==
    ASSUME TypeOK, TableInv, CallInv, setting = "regular", Connections
    PROVE  TableInv' /\ CallInv'
<1> USE DEF Closing
<1>1. PICK s \in Socks : Established(s) \/ PeerFin(s) \/ Lost(s) \/ Acknowledged(s)
  BY DEF Connections
<1>2. UNCHANGED << sockindex, trying, pc, client, entry, then >> /\ trying \subseteq Clients
  BY DEF Connections, calls, TypeOK
<1>3. CASE Acknowledged(s)
  BY <1>2, <1>3 DEF Acknowledged, TableInv, CallInv
<1>4. CASE Established(s) \/ PeerFin(s) \/ Lost(s)
  <2>1. PICK v \in {"connected", "closing", "closed"} :
           /\ socket_ptr[s] \in {"connecting", "connected", "closing"}
           /\ socket_ptr' = [socket_ptr EXCEPT ![s] = v]
           /\ v = "closed" => ~ Unreported(s)
    BY <1>4 DEF Established, PeerFin, Lost
  <2>2. \A t \in Socks : socket_ptr'[t] = IF t = s THEN v ELSE socket_ptr[t]
    BY <2>1 DEF TypeOK
  <2>3. \A c \in Clients : sockindex[c] < socket_num => sockindex[c] \in Socks
    BY ClientAssumption DEF TypeOK, Socks
  <2>4. /\ \A c, d \in Clients : c # d /\ sockindex'[c] = sockindex'[d] => sockindex'[c] = socket_num
        /\ \A t \in Socks : socket_ptr'[t] # "null" => \E c \in Clients : sockindex'[c] = t
    BY <1>2, <2>1, <2>2 DEF TableInv
  <2>5. \A c \in Clients : sockindex'[c] < socket_num =>
           \/ c = client' /\ pc' \in Closing
           \/ socket_ptr'[sockindex'[c]] \notin {"null", "freed"}
    BY <1>2, <2>1, <2>2, <2>3 DEF TableInv
  <2>6. \A c \in trying : sockindex[c] = s => v # "closed"
    BY <2>1 DEF Unreported
  <2>7. \A c \in trying' :
           /\ sockindex'[c] < socket_num
           /\ \/ c = client' /\ pc' \in Closing \cup {"establish"}
              \/ socket_ptr'[sockindex'[c]] \in {"connecting", "connected", "closing"}
    BY <1>2, <2>1, <2>2, <2>3, <2>6 DEF TableInv
  <2>8. \A t \in Socks : socket_ptr[t] \in {"null", "fresh", "freed"} => socket_ptr'[t] = socket_ptr[t]
    BY <2>1, <2>2
  <2>9. CallInv'
    <3>1. /\ pc \in {"create", "establish", "close"} => entry \in Socks
          /\ pc \in {"failed", "stopped"} => sockindex[client] \in Socks
      BY <2>3 DEF CallInv, TypeOK
    <3> QED
      BY <1>2, <2>8, <3>1 DEF CallInv
  <2> QED
    BY <2>4, <2>5, <2>7, <2>9 DEF TableInv
<1> QED
  BY <1>1, <1>3, <1>4

LEMMA RegularStep ==
    ASSUME ClientsFit, TypeOK, RegularInv, [Next]_vars
    PROVE  RegularInv'
<1>1. setting' = setting
  BY DEF Next, Progress, vars, ConnectHost, ConnectIp, AskConnectPoll, WriteCall, FlushCall,
         StopClient, CloseClient, LookUp, Resolved, Connect, FindEntry, LastResort, Create,
         Establish, Poll, Timer, LetGoAfterClose, PollOnce, Send, Flush, SocketClosed,
         TimePasses, Connections, Answered
<1> SUFFICES ASSUME setting = "regular", TableInv, CallInv PROVE TableInv' /\ CallInv'
  BY <1>1 DEF RegularInv
<1>2. CASE \E c \in Clients : \/ ConnectHost(c) \/ ConnectIp(c) \/ AskConnectPoll(c)
                              \/ WriteCall(c) \/ FlushCall(c) \/ StopClient(c)
                              \/ CloseClient(c)
  BY <1>2, CallRegular
<1>3. ~ LastResort
  BY DEF LastResort, CallInv
<1>4. CASE Send \/ Flush
  <2>1. /\ pc \in {"send", "flush"} /\ pc' = "idle"
        /\ UNCHANGED << socket_ptr, sockindex, client, trying >>
    BY <1>4 DEF Send, Flush, Return, table
  <2>2. CallInv'
    BY <2>1 DEF CallInv, Closing
  <2> QED
    BY <2>1, <2>2, QuietRegular DEF Closing
<1>5. CASE Answered \/ UNCHANGED vars
  <2>1. UNCHANGED << socket_ptr, sockindex, trying, pc, client, entry, then >>
    BY <1>5 DEF Answered, vars, table, calls
  <2> QED
    BY <2>1 DEF TableInv, CallInv
<1> QED
  BY <1>2, <1>3, <1>4, <1>5, ConnectRegular, CreateRegular, WaitRegular, EndRegular,
     ConnectionsRegular DEF Next, Progress

LEMMA InitRegular == Init => RegularInv
BY ClientAssumption DEF Init, RegularInv, TableInv, CallInv, Closing, Socks

\* A program that stops a client before it connects it again never loses an
\* entry of the socket table and never gives one to two clients, whatever order
\* its calls, the timeouts and the network come in.
THEOREM EntriesAreHeldOnce == ClientsFit => (Spec => []RegularHeldOnce)
<1> SUFFICES ASSUME ClientsFit PROVE Spec => []RegularHeldOnce
  OBVIOUS
<1>1. TypeOK /\ RegularInv /\ [Next]_vars => TypeOK' /\ RegularInv'
  BY TypeStep, RegularStep
<1>2. Init => TypeOK /\ RegularInv
  BY InitTypes, InitRegular
<1>3. RegularInv => RegularHeldOnce
  BY DEF RegularInv, TableInv, RegularHeldOnce, EntriesHeldOnce
<1> QED
  BY <1>1, <1>2, <1>3, PTL DEF Spec

\* A client that has an entry keeps its socket until the program stops it.
THEOREM ReportedHaveSockets == ClientsFit => (Spec => []RegularHasSocket)
<1> SUFFICES ASSUME ClientsFit PROVE Spec => []RegularHasSocket
  OBVIOUS
<1>1. TypeOK /\ RegularInv /\ [Next]_vars => TypeOK' /\ RegularInv'
  BY TypeStep, RegularStep
<1>2. Init => TypeOK /\ RegularInv
  BY InitTypes, InitRegular
<1>3. RegularInv => RegularHasSocket
  BY DEF RegularInv, TableInv, RegularHasSocket, Closing
<1> QED
  BY <1>1, <1>2, <1>3, PTL DEF Spec
================================================================================
