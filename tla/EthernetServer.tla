---------------------------- MODULE EthernetServer ----------------------------
(***************************************************************************)
(* The web server's side of NativeEthernet: the socket table of            *)
(* EthernetClass, EthernetServer::available/begin/poll, the EthernetClient *)
(* it returns and the loop of handleWebServer that uses them.              *)
(*                                                                         *)
(* The loop is one actor, a step at a time.  The others run in the timer   *)
(* interrupt that polls FNET, between any two of its steps (FNET's mutexes *)
(* are empty functions): what arrives from the peers, the service routine  *)
(* poll, and whoever else has services in FNET's table.  Beside the        *)
(* board's program there may be one that takes its clients from accept()   *)
(* and stays with each to its end.  FNET is external: a socket is what its *)
(* SO_STATE, MSG_PEEK and accept tell the code.  Calls that spin until     *)
(* FNET is done (socketSend, socketClose) are one step that takes any      *)
(* time.                                                                   *)
(***************************************************************************)
EXTENDS Integers, FiniteSets

CONSTANTS
    socket_num,   \* length of the socket table
    Peers,        \* remote hosts, one connection each at a time
    MaxChunks,    \* bound: pieces in which a peer sends its request
    MaxServices,  \* length of FNET's table of services
    Failures,     \* FNET calls of begin() that may fail in rough weather
    Weathers,     \* "rough": connections are reset or expire, calls fail;
                  \* "crowded": others come and go in the table of services;
                  \* "worst": all of that; "once": none of it; "calm": none of
                  \* it, peers close their side in the end and come back after
                  \* their connection was closed
    Programs      \* "web": the loop of handleWebServer; "accept": a program
                  \* that takes its clients from accept()

ASSUME ServerAssumption ==
    /\ socket_num \in Nat \ {0}
    /\ MaxChunks \in Nat
    /\ MaxServices \in Nat \ {0}
    /\ Failures \subseteq {"create", "bind", "listen"}
    /\ Weathers \subseteq {"rough", "crowded", "worst", "once", "calm"}
    /\ Programs \subseteq {"web", "accept"}
    /\ Peers \cap {"null", "fresh", "listener", "freed"} = {}

VARIABLES
    weather, program,
    socket_ptr,   \* FNET socket of each entry: null, fresh (bound), listener,
                  \* freed (closed under the pointer) or a peer's connection
    server_port,  \* the entry belongs to the server (its port, else 0)
    conn,         \* connection of each peer
    unread,       \* FNET holds data of the peer
    toSend,       \* pieces the peer has yet to send
    fin,          \* the peer closed its side
    ours,         \* the program closed the connection's other side
    services,     \* FNET's table of services: free, the server's poll, or another
    descriptor,   \* service_descriptor: an entry of that table, or 0
    astray,       \* auxiliary: the server unregistered a service of another
    pc,           \* where the loop is
    i,            \* loop counter of available()
    stat,         \* local stat of available(), while it is used
    listening,    \* local listening of available()
    sockindex,    \* sockindex of available() and of its client
    slot,         \* sockindex of begin()
    made,         \* what fnet_service_register returned, until it is stored
    left          \* the client's _remaining is not 0

netVars  == << conn, unread, toSend, fin, ours >>
serviceVars == << services, descriptor, astray >>
scanVars == << i, stat, listening, sockindex >>
chosen == << weather, program >>
vars == << chosen, socket_ptr, server_port, netVars, serviceVars, pc,
           scanVars, slot, made, left >>

Rough == weather \in {"rough", "worst"}
Crowded == weather \in {"crowded", "worst"}

Socks == 0 .. socket_num - 1
Services == 1 .. MaxServices
States == {"CLOSED", "INIT", "ESTABLISHED", "CLOSE_WAIT", "LISTEN", "OTHER"}
PCs == {"scan", "act", "begin", "listen", "port", "register", "store",
        "client", "respond", "connected", "stop"}

TypeOK ==
    /\ weather \in Weathers
    /\ program \in Programs
    /\ socket_ptr \in [Socks -> Peers \cup {"null", "fresh", "listener", "freed"}]
    /\ server_port \in [Socks -> BOOLEAN]
    /\ conn \in [Peers -> {"away", "queued", "open", "ended", "closed"}]
    /\ unread \in [Peers -> BOOLEAN]
    /\ toSend \in [Peers -> 0 .. MaxChunks]
    /\ fin \in [Peers -> BOOLEAN]
    /\ ours \in [Peers -> BOOLEAN]
    /\ services \in [Services -> {"free", "poll", "other"}]
    /\ descriptor \in 0 .. MaxServices
    /\ astray \in BOOLEAN
    /\ pc \in PCs
    /\ i \in 0 .. socket_num
    /\ stat \in States
    /\ listening \in BOOLEAN
    /\ sockindex \in 0 .. socket_num
    /\ slot \in Socks
    /\ made \in 0 .. MaxServices
    /\ left \in BOOLEAN

\* setup() calls server.begin() on an empty table, then loop() starts.
Init ==
    /\ weather \in Weathers
    /\ program \in Programs
    /\ socket_ptr = [s \in Socks |-> "null"]
    /\ server_port = [s \in Socks |-> FALSE]
    /\ conn = [p \in Peers |-> "away"]
    /\ unread = [p \in Peers |-> FALSE]
    /\ toSend = [p \in Peers |-> MaxChunks]
    /\ fin = [p \in Peers |-> FALSE]
    /\ ours = [p \in Peers |-> FALSE]
    /\ services = [t \in Services |-> "free"]
    /\ descriptor = 0
    /\ astray = FALSE
    /\ pc = "begin"
    /\ i = 0
    /\ stat = "CLOSED"
    /\ listening = FALSE
    /\ sockindex = socket_num
    /\ slot = 0
    /\ made = 0
    /\ left = FALSE

-----------------------------------------------------------------------------
(* The socket table. *)

\* socketStatus: the state of a freed socket is whatever its memory holds.
StatusOf(s) ==
    IF socket_ptr[s] = "freed" THEN States
    ELSE IF socket_ptr[s] = "listener" THEN {"LISTEN"}
    ELSE IF socket_ptr[s] \notin Peers THEN {"CLOSED"}
    ELSE IF conn[socket_ptr[s]] = "ended" THEN {"CLOSED"}
    ELSE IF fin[socket_ptr[s]] THEN {"CLOSE_WAIT"}
    ELSE {"ESTABLISHED"}

\* fnet_socket_recv finds data on the entry.
HasData(s) == /\ socket_ptr[s] \in Peers
              /\ conn[socket_ptr[s]] = "open"
              /\ unread[socket_ptr[s]]

\* The connections of these peers are over, in the state of that name.
Over(cut, state) ==
    /\ conn' = [p \in Peers |-> IF p \in cut THEN state ELSE conn[p]]
    /\ unread' = [p \in Peers |-> unread[p] /\ p \notin cut]
    /\ toSend' = [p \in Peers |-> IF p \in cut THEN MaxChunks ELSE toSend[p]]
    /\ fin' = [p \in Peers |-> fin[p] /\ p \notin cut]
    /\ ours' = [p \in Peers |-> ours[p] /\ p \notin cut]

\* fnet_socket_close on the entry's socket ends the connections it carries.
CloseSocket(s) ==
    LET cut == IF socket_ptr[s] = "listener" THEN {p \in Peers : conn[p] = "queued"}
               ELSE Peers \cap {socket_ptr[s]}
    IN  Over(cut, "closed")

\* socketClose, with socketDisconnect before it.  What it leaves in the entry
\* is named, KeptPtr being a faulty variant.
KeptPtr(s) == socket_ptr[s]
ClosedPtr(s) == "null"
SocketClose(s) ==
    /\ CloseSocket(s)
    /\ socket_ptr' = [socket_ptr EXCEPT ![s] = ClosedPtr(s)]

\* The loop of handleWebServer starts over with server.available().
Restart ==
    /\ pc' = "scan"
    /\ i' = 0
    /\ listening' = FALSE
    /\ sockindex' = socket_num
    /\ left' = FALSE
    /\ UNCHANGED << stat, slot, made >>

-----------------------------------------------------------------------------
(* EthernetServer::available and accept: one entry after the other, status *)
(* first, then what it calls for.                                          *)

\* The interrupt may change the entry between the two.
ScanStatus ==
    /\ pc = "scan"
    /\ IF i = socket_num
       THEN /\ pc' = IF listening THEN "client" ELSE "begin"
            /\ UNCHANGED << i, stat >>
       ELSE IF server_port[i]
       THEN /\ pc' = "act"
            /\ stat' \in StatusOf(i)
            /\ UNCHANGED i
       ELSE /\ i' = i + 1
            /\ UNCHANGED << pc, stat >>
    /\ UNCHANGED << socket_ptr, server_port, netVars, serviceVars, listening,
                    sockindex, slot, made, left >>

\* States in which data is looked for (EstablishedOnly: a faulty variant).
EstablishedOnly == {"ESTABLISHED"}
Readable == {"ESTABLISHED", "CLOSE_WAIT"}

\* Whether a listener was seen, after this entry (the first: only on this one).
LastListens == stat = "LISTEN"
ListenerSeen == listening \/ stat = "LISTEN"

\* The entry after one that was handled (the first: with a second i++).
EntrySkipped(s) == s + 2
NextEntry(s) == s + 1

\* available(): the last entry with data, which stays the server's; a connection
\* whose peer closed it and sent no more is closed.
ScanAvailable ==
    /\ IF stat \in Readable /\ HasData(i)
       THEN sockindex' = i
       ELSE sockindex' = sockindex
    /\ IF stat = "CLOSE_WAIT" /\ ~HasData(i)
       THEN SocketClose(i)
       ELSE UNCHANGED << socket_ptr, netVars >>
    /\ server_port' = [server_port EXCEPT ![i] = @ /\ stat # "CLOSED"]

\* accept(): the first connection, data or not, which is the server's no more
\* (PortKept: a faulty variant).
PortKept == TRUE
PortAfterAccept == FALSE

ScanAccept ==
    /\ IF sockindex = socket_num /\ stat \in {"ESTABLISHED", "CLOSE_WAIT"}
       THEN /\ sockindex' = i
            /\ server_port' = [server_port EXCEPT ![i] = PortAfterAccept]
       ELSE /\ sockindex' = sockindex
            /\ server_port' = [server_port EXCEPT ![i] = @ /\ stat # "CLOSED"]
    /\ UNCHANGED << socket_ptr, netVars >>

ScanAct ==
    /\ pc = "act"
    /\ IF program = "web" THEN ScanAvailable ELSE ScanAccept
    /\ listening' = ListenerSeen
    /\ i' = NextEntry(i)
    /\ pc' = "scan"
    /\ stat' = "CLOSED"
    /\ UNCHANGED << serviceVars, slot, made, left >>

-----------------------------------------------------------------------------
(* EthernetServer::begin. *)

Least(S) == CHOOSE s \in S : \A t \in S : s <= t
Failing == IF Rough THEN Failures ELSE {}
Free == {s \in Socks : socket_ptr[s] = "null"}

\* What socketBegin does with the entry it found.
Create(s) ==
    \E outcome \in {"ok"} \cup (Failing \cap {"create", "bind"}) :
        /\ CloseSocket(s)
        /\ socket_ptr' = [socket_ptr EXCEPT ![s] =
                            CASE outcome = "ok" -> "fresh"
                              [] outcome = "create" -> "null"
                              [] outcome = "bind" -> "freed"]
        /\ server_port' = [server_port EXCEPT ![s] = @ /\ outcome # "ok"]
        /\ slot' = s
        /\ pc' = IF outcome = "ok" THEN "listen" ELSE "client"

\* The first unused entry, or else the first whose peer closed its side, or
\* else none.
SocketBegin ==
    /\ pc = "begin"
    /\ \/ Free # {} /\ Create(Least(Free))
       \/ /\ Free = {}
          /\ \E s \in Socks :
               /\ "CLOSE_WAIT" \in StatusOf(s)
               /\ \A t \in 0 .. s - 1 : StatusOf(t) # {"CLOSE_WAIT"}
               /\ Create(s)
       \/ /\ Free = {}
          /\ \A s \in Socks : StatusOf(s) # {"CLOSE_WAIT"}
          /\ pc' = "client"
          /\ UNCHANGED << socket_ptr, server_port, netVars, slot >>
    /\ UNCHANGED << serviceVars, scanVars, made, left >>

Listen ==
    /\ pc = "listen"
    /\ \/ /\ socket_ptr' = [socket_ptr EXCEPT ![slot] = "listener"]
          /\ pc' = "port"
       \/ /\ "listen" \in Failing
          /\ pc' = "client"
          /\ UNCHANGED socket_ptr
    /\ UNCHANGED << server_port, netVars, serviceVars, scanVars, slot, made, left >>

SetPort ==
    /\ pc = "port"
    /\ server_port' = [server_port EXCEPT ![slot] = TRUE]
    /\ pc' = "register"
    /\ UNCHANGED << socket_ptr, netVars, serviceVars, scanVars, slot, made, left >>

\* fnet_service_register takes an entry, if there is one.  In the faulty variant
\* begin() does not register again when it has a descriptor.
WantsServiceOnce == descriptor = 0
WantsService == TRUE

Vacant == {t \in Services : services[t] = "free"}

Register ==
    /\ pc = "register"
    /\ \/ /\ WantsService
          /\ \E t \in Vacant :
                made' = t /\ services' = [services EXCEPT ![t] = "poll"]
       \/ /\ WantsService /\ Vacant = {}
          /\ made' = 0 /\ UNCHANGED services
       \/ /\ ~WantsService
          /\ made' = descriptor /\ UNCHANGED services
    /\ pc' = "store"
    /\ UNCHANGED << socket_ptr, server_port, netVars, descriptor, astray, scanVars,
                    slot, left >>

\* Its result is stored after the fact.  Without a service the socket is shut
\* down, which a listener ignores.
Store ==
    /\ pc = "store"
    /\ descriptor' = made
    /\ made' = 0
    /\ pc' = "client"
    /\ UNCHANGED << socket_ptr, server_port, netVars, services, astray, scanVars,
                    slot, left >>

-----------------------------------------------------------------------------
(* handleWebServer with the client it got; the accepting program goes on    *)
(* with the same client as long as it is connected.                        *)

Again == IF program = "web" THEN Restart
         ELSE pc' = "client" /\ UNCHANGED << scanVars, slot, made, left >>

\* client.available() reads what FNET holds.
ClientAvailable ==
    /\ pc = "client"
    /\ \/ sockindex = socket_num /\ Restart /\ UNCHANGED netVars
       \/ /\ sockindex < socket_num /\ HasData(sockindex)
          /\ unread' = [unread EXCEPT ![socket_ptr[sockindex]] = FALSE]
          /\ pc' = "respond"
          /\ UNCHANGED << conn, toSend, fin, ours, scanVars, slot, made, left >>
       \/ /\ sockindex < socket_num /\ ~HasData(sockindex)
          /\ pc' = "connected"
          /\ UNCHANGED << netVars, scanVars, slot, made, left >>
    /\ UNCHANGED << socket_ptr, server_port, serviceVars >>

\* Read the first line, answer, client.close(): the rest of what was received
\* stays with the client, and the board's side of the connection is closed.  The
\* accepting program reads everything and leaves the closing to stop().
Respond ==
    /\ pc = "respond"
    /\ IF program = "web"
       THEN /\ left' \in BOOLEAN
            /\ ours' = [p \in Peers |-> ours[p] \/ p = socket_ptr[sockindex]]
       ELSE /\ left' = FALSE
            /\ UNCHANGED ours
    /\ pc' = "connected"
    /\ UNCHANGED << socket_ptr, server_port, conn, unread, toSend, fin, serviceVars,
                    scanVars, slot, made >>

\* client.connected(), which reads once more when the peer closed its side and
\* nothing is left.
Connected ==
    /\ pc = "connected"
    /\ \E st \in StatusOf(sockindex) :
         \/ /\ \/ st \in {"LISTEN", "CLOSED"}
               \/ st = "CLOSE_WAIT" /\ ~left /\ ~HasData(sockindex)
            /\ pc' = "stop"
            /\ UNCHANGED << netVars, scanVars, slot, made, left >>
         \/ /\ st = "CLOSE_WAIT" /\ ~left /\ HasData(sockindex)
            /\ unread' = [unread EXCEPT ![socket_ptr[sockindex]] = FALSE]
            /\ Again
            /\ UNCHANGED << conn, toSend, fin, ours >>
         \/ /\ st \in States \ {"LISTEN", "CLOSED"}
            /\ st = "CLOSE_WAIT" => left
            /\ Again
            /\ UNCHANGED netVars
    /\ UNCHANGED << socket_ptr, server_port, serviceVars >>

\* client.stop().
Stop ==
    /\ pc = "stop"
    /\ IF socket_ptr[sockindex] = "null"
       THEN UNCHANGED << socket_ptr, netVars >>
       ELSE SocketClose(sockindex)
    /\ Restart
    /\ UNCHANGED << server_port, serviceVars >>

Loop ==
    /\ UNCHANGED chosen
    /\ \/ ScanStatus \/ ScanAct
       \/ SocketBegin \/ Listen \/ SetPort \/ Register \/ Store
       \/ ClientAvailable \/ Respond \/ Connected \/ Stop

-----------------------------------------------------------------------------
(* The interrupt: EthernetServer::poll, the network and FNET's services. *)

loopVars == << chosen, pc, scanVars, slot, made, left >>

\* The entries poll looks at (AnyEntry: a faulty variant).
AnyEntry(s) == TRUE
Polled(s) == server_port[s]

\* fnet_service_unregister(service_descriptor): whatever is in that entry, since
\* the descriptor is never cleared.
Unregister ==
    /\ services' = [t \in Services |-> IF t = descriptor THEN "free" ELSE services[t]]
    /\ astray' = (astray \/ \E t \in Services : t = descriptor /\ services[t] = "other")
    /\ UNCHANGED descriptor

\* poll: the connection replaces the listener in its entry.
Poll ==
    \E s \in Socks, p \in Peers :
        /\ \E t \in Services : services[t] = "poll"
        /\ Polled(s) /\ socket_ptr[s] = "listener"
        /\ conn[p] = "queued"
        /\ conn' = [conn EXCEPT ![p] = "open"]
        /\ socket_ptr' = [socket_ptr EXCEPT ![s] = p]
        /\ Unregister
        /\ UNCHANGED << server_port, unread, toSend, fin, ours, loopVars >>

\* Others register and unregister services: their own, or, when theirs was taken
\* from the table, whichever has the entry now.
OtherService ==
    /\ Crowded
    /\ \E t \in Services :
         \/ services[t] = "free" /\ services' = [services EXCEPT ![t] = "other"]
         \/ /\ services[t] = "other" \/ astray
            /\ services' = [services EXCEPT ![t] = "free"]
    /\ UNCHANGED << socket_ptr, server_port, netVars, descriptor, astray, loopVars >>

PeerConnect(p) ==
    /\ conn[p] = "away"
    /\ \E s \in Socks : socket_ptr[s] = "listener"
    /\ \A q \in Peers : conn[q] # "queued"
    /\ conn' = [conn EXCEPT ![p] = "queued"]
    /\ UNCHANGED << unread, toSend, fin, ours >>

PeerSend(p) ==
    /\ conn[p] \in {"queued", "open"} /\ ~fin[p]
    /\ toSend[p] > 0
    /\ unread' = [unread EXCEPT ![p] = TRUE]
    /\ toSend' = [toSend EXCEPT ![p] = @ - 1]
    /\ UNCHANGED << conn, fin, ours >>

PeerFin(p) ==
    /\ conn[p] \in {"queued", "open"} /\ ~fin[p]
    /\ fin' = [fin EXCEPT ![p] = TRUE]
    /\ UNCHANGED << conn, unread, toSend, ours >>

\* FNET closes the socket, whose pointer the table keeps.
Ends(p) == Over({p}, "ended")

\* Both sides are closed, which is how a connection to handleWebServer ends.
PeerEnd(p) ==
    /\ conn[p] = "open" /\ fin[p] /\ ours[p]
    /\ Ends(p)

\* A reset, or a peer that stopped answering.
PeerReset(p) ==
    /\ Rough
    /\ \/ conn[p] = "open" /\ Ends(p)
       \/ conn[p] = "queued" /\ Over({p}, "closed")

PeerReturn(p) ==
    /\ weather = "calm"
    /\ conn[p] = "closed"
    /\ conn' = [conn EXCEPT ![p] = "away"]
    /\ UNCHANGED << unread, toSend, fin, ours >>

Peer(p) ==
    /\ \/ PeerConnect(p) \/ PeerSend(p) \/ PeerFin(p)
       \/ PeerEnd(p) \/ PeerReset(p) \/ PeerReturn(p)
    /\ UNCHANGED << socket_ptr, server_port, serviceVars, loopVars >>

Next == Loop \/ Poll \/ OtherService \/ \E p \in Peers : Peer(p)

Spec == Init /\ [][Next]_vars

\* loop() keeps running and the timer keeps polling; in calm weather the peers
\* close their side some time after they connected.
ClosingPeer(p) ==
    /\ weather = "calm"
    /\ PeerFin(p)
    /\ UNCHANGED << socket_ptr, server_port, serviceVars, loopVars >>

FairSpec ==
    /\ Spec
    /\ WF_vars(Loop) /\ WF_vars(Poll)
    /\ \A p \in Peers : WF_vars(ClosingPeer(p))

-----------------------------------------------------------------------------
(* Properties. *)

\* begin() is only called when no socket listens: there is one listener at
\* most, although the interrupt turns listeners into connections meanwhile.
OneListener ==
    Cardinality({s \in Socks : socket_ptr[s] = "listener"}) <= 1

InHand(s) == program = "accept" /\ sockindex = s

\* No connection poll() accepted is lost, and none is served twice: it stays in
\* one entry, which is the server's until accept() returns it and the program's
\* from then on, until it is closed or reset.  Only when begin() took the entry
\* the program has in hand for its listener is it both (see AcceptedOnce).
ConnectionTracked ==
    \A p \in Peers : conn[p] = "open" =>
        \E s \in Socks :
            /\ socket_ptr[s] = p
            /\ server_port[s] \/ InHand(s)
            /\ server_port[s] /\ InHand(s) => slot = s
            /\ \A t \in Socks : socket_ptr[t] = p => t = s

HasListener == \E s \in Socks : socket_ptr[s] = "listener"
IsPolled == \E t \in Services : services[t] = "poll"

\* Outside begin() a listener of the server is polled by a registered service,
\* whichever poll came between the registration and the store of its
\* descriptor, unless FNET's table had no entry for it, which the descriptor
\* then tells: such a listener stays deaf (NeverDeaf).  Nothing is said once a
\* stale descriptor has unregistered a service of another (OthersStay).
ListenerIsPolled ==
    HasListener /\ pc \notin {"port", "register", "store"}
        => IsPolled \/ descriptor = 0 \/ astray

\* begin() gives a listener up for which FNET has no service.
NeverDeaf ==
    HasListener /\ pc \notin {"port", "register", "store"} => IsPolled

\* poll unregisters the service that begin() registered, never one of another.
OthersStay == ~astray


\* "close the connection": what handleWebServer stops is a connection, never
\* the socket the server listens on.
StopsAConnection ==
    [][pc = "stop" => socket_ptr[sockindex] # "listener"]_vars

\* "only return the client once": an entry accept() returned is the server's no
\* more while the program has it in hand.
AcceptedOnce ==
    \A s \in Socks : pc = "connected" /\ InHand(s) => ~server_port[s]

\* What a connected peer sends is read, however the scan, the polls and the
\* other connections interleave, unless the connection ends.  The accepting
\* program, which serves one client after the other, needs the others to end.
RequestRead ==
    \A p \in Peers :
        /\ program = "web" \/ weather = "calm"
        /\ conn[p] = "open" /\ unread[p]
        ~> ~unread[p] \/ conn[p] # "open"

\* A socket FNET has closed, under a pointer nobody looks at any more.
Leaked(s) == /\ socket_ptr[s] \in Peers /\ conn[socket_ptr[s]] = "ended"
             /\ ~server_port[s]

\* While every peer closes its side in the end and none is reset, the server
\* listens again and again, and is polled; but the board's program, which closes
\* its own side first, may lose every entry of the table to connections that
\* ended before the scan saw their peer close (ClosedIsUsed).
ListensAgain ==
    weather = "calm" ~>
        \/ HasListener /\ IsPolled
        \/ program = "web" /\ \A s \in Socks : Leaked(s)
=============================================================================
