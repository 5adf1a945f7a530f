-------------------------------- MODULE Client --------------------------------
(***************************************************************************)
(* Outgoing connections of NativeEthernet: the EthernetClient objects of   *)
(* one program, their connect, connectPoll, write, flush and stop, the     *)
(* name lookup of DNSClient, and the socket table they share.              *)
(*                                                                         *)
(* The program makes one call at a time; a call goes on from step to step, *)
(* and FNET works in the timer interrupt between any two of them: it       *)
(* establishes, refuses, loses and empties connections, and answers the    *)
(* name lookup.                                                            *)
(***************************************************************************)
EXTENDS Integers

CONSTANTS
    socket_num,  \* length of the socket table
    Clients,     \* EthernetClient objects
    connectPolls, \* those whose _connectPoll is set: connect does not wait
    SndBuf,      \* SO_SNDBUF, which is socket_size
    Writes,      \* sizes callers pass to write
    Settings     \* how the program and the network behave, see Init

ASSUME ClientAssumption ==
    /\ socket_num \in Nat \ {0}
    /\ SndBuf \in Nat \ {0}
    /\ Writes \subseteq Nat
    /\ connectPolls \subseteq Clients
    /\ Settings \subseteq {"regular", "stalled", "hasty", "failing"}

VARIABLES
    setting,
    socket_ptr,   \* null, or the state of the FNET socket of each entry
    pending,      \* SO_SNDNUM: what each socket has yet to send
    shut,         \* entries whose socket was shut down: its FIN is sent
    sockindex,    \* of each client
    trying,       \* clients whose connection has not been reported yet
    firstCall,    \* overloads of connect whose static first_call is true
    pc,           \* where the program is
    client,       \* the client whose call it is in
    entry,        \* the table entry the call is at
    then,         \* what socketClose returns to
    elapsed,      \* millis() - start > _timeout
    size,         \* of the write
    lookup,       \* FNET looks a name up for the DNSClient
    resolveDone

table == << socket_ptr, pending, shut >>
calls == << client, entry, then, elapsed, size >>
dns   == << lookup, resolveDone >>
vars  == << setting, table, sockindex, trying, firstCall, pc,
            calls, dns >>

Socks == 0 .. socket_num - 1
Sockets == {"null", "fresh", "connecting", "connected", "closing", "closed", "freed"}
PCs == {"idle", "lookup", "resolve", "connect", "find", "last", "close", "create",
        "establish", "poll", "timer", "ask", "send", "flush", "failed", "stopped"}

TypeOK ==
    /\ setting \in Settings
    /\ socket_ptr \in [Socks -> Sockets]
    /\ pending \in [Socks -> 0 .. SndBuf]
    /\ shut \subseteq Socks
    /\ sockindex \in [Clients -> 0 .. socket_num]
    /\ trying \subseteq Clients
    /\ firstCall \subseteq {"host", "ip"}
    /\ pc \in PCs
    /\ client \in Clients
    /\ entry \in 0 .. socket_num
    /\ then \in PCs
    /\ elapsed \in BOOLEAN
    /\ size \in Writes \cup {0}
    /\ lookup \in BOOLEAN
    /\ resolveDone \in {-1, 0, 1}

\* "regular": a client is stopped before it connects again, and written, flushed
\* and closed only between the report of its connection and its stop();
\* connections come about or time out, and end only after connect reported them;
\* peers read what they are sent.  "stalled": but for the peers, which may stop
\* reading and keep the connection.  "hasty": the program connects again without
\* stop(), and uses clients that have no connection, or no entry.  "failing":
\* that too, connections are refused or reset at once, FNET's calls fail, and
\* names have no IPv4 address.
Init ==
    /\ setting \in Settings
    /\ socket_ptr = [s \in Socks |-> "null"]
    /\ pending = [s \in Socks |-> 0]
    /\ shut = {}
    /\ sockindex = [c \in Clients |-> socket_num]
    /\ trying = {}
    /\ firstCall = {"host", "ip"}
    /\ pc = "idle"
    /\ client \in Clients
    /\ entry = socket_num
    /\ then = "idle"
    /\ elapsed = FALSE
    /\ size = 0
    /\ lookup = FALSE
    /\ resolveDone = 0

-----------------------------------------------------------------------------
(* The socket table. *)

\* socketStatus: of a null pointer it is CLOSED.  Once FNET has freed a socket
\* its state is none of those it knows, which gives 1.
Status(s) == CASE socket_ptr[s] \in {"null", "fresh", "closed"} -> "CLOSED"
               [] socket_ptr[s] = "connecting" -> "INIT"
               [] socket_ptr[s] = "connected" -> "ESTABLISHED"
               [] socket_ptr[s] = "closing" -> "CLOSE_WAIT"
               [] socket_ptr[s] = "freed" -> "1"

\* The call returns.  The locals have no value between calls.
Return ==
    /\ pc' = "idle"
    /\ entry' = socket_num
    /\ then' = "idle"
    /\ elapsed' = FALSE
    /\ size' = 0

\* socketClose(s), to go on at next: fnet_socket_close, which does nothing with
\* a null pointer, and the loop that waits for a status of 1.
CloseThen(s, next) ==
    /\ socket_ptr' = [socket_ptr EXCEPT ![s] = IF @ = "null" THEN @ ELSE "freed"]
    /\ pending' = [pending EXCEPT ![s] = 0]
    /\ shut' = shut \ {s}
    /\ entry' = s
    /\ then' = next
    /\ pc' = "close"

SocketClosed ==
    /\ pc = "close"
    /\ Status(entry) = "1"
    /\ socket_ptr' = [socket_ptr EXCEPT ![entry] = "null"]
    /\ IF then = "idle" THEN Return
       ELSE pc' = then /\ UNCHANGED << entry, then, elapsed, size >>
    /\ UNCHANGED << setting, pending, shut, sockindex, trying, firstCall, client, dns >>

-----------------------------------------------------------------------------
(* connect. *)

Careful == setting \in {"regular", "stalled"}
MayConnect(c) == Careful => sockindex[c] = socket_num

\* What both overloads do with the client: the first call of each takes it for
\* one that is not in use, else it is disconnected.  It is let go either way.
Disconnects(c, overload) ==
    /\ overload \notin firstCall
    /\ sockindex[c] < socket_num
    /\ Status(sockindex[c]) # "CLOSED"

LetGo(c, overload) ==
    /\ shut' = IF Disconnects(c, overload) THEN shut \cup {sockindex[c]} ELSE shut
    /\ sockindex' = [sockindex EXCEPT ![c] = socket_num]
    /\ trying' = trying \ {c}
    /\ firstCall' = firstCall \ {overload}
    /\ UNCHANGED << socket_ptr, pending >>

ConnectHost(c) ==
    /\ pc = "idle"
    /\ MayConnect(c)
    /\ client' = c
    /\ LetGo(c, "host")
    /\ pc' = "lookup"
    /\ UNCHANGED << setting, entry, then, elapsed, size, dns >>

\* getHostByName: fnet_dns_init, which may fail,
LookUp ==
    /\ pc = "lookup"
    /\ resolveDone' = 0
    /\ \/ /\ lookup' = TRUE
          /\ pc' = "resolve"
          /\ UNCHANGED << entry, then, elapsed, size >>
       \/ /\ Return
          /\ UNCHANGED lookup
    /\ UNCHANGED << setting, table, sockindex, trying, firstCall, client >>

\* and the loop that waits for the callback, however long it takes.  The
\* first definition is a faulty variant: the wait ends after the timeout.
WaitMayEnd == TRUE
WaitEnds == resolveDone # 0

Resolved ==
    /\ pc = "resolve"
    /\ WaitEnds
    /\ IF resolveDone = 1
       THEN /\ pc' = "connect"
            /\ UNCHANGED << entry, then, elapsed, size >>
       ELSE Return
    /\ UNCHANGED << setting, table, sockindex, trying, firstCall,
                    client, dns >>

ConnectIp(c) ==
    /\ pc = "idle"
    /\ MayConnect(c)
    /\ client' = c
    /\ pc' = "connect"
    /\ UNCHANGED << setting, table, sockindex, trying, firstCall,
                    entry, then, elapsed, size, dns >>

\* connect(ip, port); no connection is made to 0.0.0.0 or 255.255.255.255.
Connect ==
    /\ pc = "connect"
    /\ LetGo(client, "ip")
    /\ \/ /\ pc' = "find"
          /\ UNCHANGED << entry, then, elapsed, size >>
       \/ Return
    /\ UNCHANGED << setting, client, dns >>

\* socketBegin: the first entry without a socket.  UnusedOrClosed is a faulty
\* variant that goes by the status.
UnusedOrClosed == {s \in Socks : Status(s) = "CLOSED"}
Unused == {s \in Socks : socket_ptr[s] = "null"}

FindEntry ==
    /\ pc = "find"
    /\ IF Unused # {}
       THEN /\ entry' = CHOOSE s \in Unused : \A t \in Unused : s <= t
            /\ pc' = "create"
       ELSE /\ entry' = 0
            /\ pc' = "last"
    /\ UNCHANGED << setting, table, sockindex, trying, firstCall,
                    client, then, elapsed, size, dns >>

\* "As a last resort, forcibly close any already closing", looking at one entry
\* after the other.
LastResort ==
    /\ pc = "last"
    /\ \/ /\ entry < socket_num /\ Status(entry) = "CLOSE_WAIT"
          /\ CloseThen(entry, "create")
          /\ UNCHANGED << elapsed, size >>
       \/ /\ entry < socket_num /\ Status(entry) # "CLOSE_WAIT"
          /\ entry' = entry + 1
          /\ UNCHANGED << table, pc, then, elapsed, size >>
       \/ /\ entry = socket_num
          /\ Return
          /\ UNCHANGED table
    /\ UNCHANGED << setting, sockindex, trying, firstCall, client, dns >>

\* A failed bind leaves the pointer to the socket that was closed.
Create ==
    /\ pc = "create"
    /\ \/ /\ socket_ptr' = [socket_ptr EXCEPT ![entry] = "fresh"]
          /\ sockindex' = [sockindex EXCEPT ![client] = entry]
          /\ trying' = trying \cup {client}
          /\ pc' = "establish"
          /\ UNCHANGED << entry, then, elapsed, size >>
       \/ /\ socket_ptr' = [socket_ptr EXCEPT ![entry] = "null"]
          /\ Return
          /\ UNCHANGED << sockindex, trying >>
       \/ /\ setting = "failing"
          /\ socket_ptr' = [socket_ptr EXCEPT ![entry] = "freed"]
          /\ Return
          /\ UNCHANGED << sockindex, trying >>
    /\ UNCHANGED << setting, pending, shut, firstCall, client, dns >>

\* socketConnect, which only prints an error; then connect returns 1 when
\* connectPoll is left to the program.
Establish ==
    /\ pc = "establish"
    /\ \/ socket_ptr' = [socket_ptr EXCEPT ![entry] = "connecting"]
       \/ setting = "failing" /\ UNCHANGED socket_ptr
    /\ IF client \in connectPolls
       THEN Return
       ELSE pc' = "poll" /\ UNCHANGED << entry, then, elapsed, size >>
    /\ UNCHANGED << setting, pending, shut, sockindex, trying, firstCall, client, dns >>

\* connectPoll: a connection is reported when it is established, also if its
\* peer closed it already; a closed socket is closed in the table as well.
ConnectPoll(next) ==
    LET s == sockindex[client] IN
    \/ /\ Status(s) \in {"ESTABLISHED", "CLOSE_WAIT"}
       /\ trying' = trying \ {client}
       /\ Return
       /\ UNCHANGED table
    \/ /\ Status(s) = "CLOSED"
       /\ CloseThen(s, next)
       /\ UNCHANGED << trying, elapsed, size >>
    \/ /\ Status(s) \notin {"ESTABLISHED", "CLOSE_WAIT", "CLOSED"}
       /\ IF next = "idle" THEN Return
          ELSE pc' = next /\ UNCHANGED << entry, then, elapsed, size >>
       /\ UNCHANGED << table, trying >>

Poll ==
    /\ pc = "poll"
    /\ ConnectPoll("timer")
    /\ UNCHANGED << setting, sockindex, firstCall, client, dns >>

\* Time passes; the first definition is a faulty variant without the timeout.
NeverLate == FALSE
Late == elapsed

Timer ==
    /\ pc = "timer"
    /\ IF Late
       THEN /\ CloseThen(sockindex[client], "failed")
            /\ UNCHANGED << elapsed, size >>
       ELSE /\ pc' = "poll"
            /\ UNCHANGED << table, entry, then, elapsed, size >>
    /\ UNCHANGED << setting, sockindex, trying, firstCall, client, dns >>

TimePasses ==
    /\ pc \in {"poll", "timer"}
    /\ elapsed' = TRUE
    /\ UNCHANGED << setting, table, sockindex, trying, firstCall, pc,
                    client, entry, then, size, dns >>

\* The end of connect after its timeout, and of stop.  The first definition is
\* a faulty variant in which the client keeps its index.
IndexKept == sockindex
IndexCleared == [sockindex EXCEPT ![client] = socket_num]

LetGoAfterClose ==
    /\ pc \in {"failed", "stopped"}
    /\ sockindex' = IndexCleared
    /\ trying' = trying \ {client}
    /\ Return
    /\ UNCHANGED << setting, table, firstCall, client, dns >>

-----------------------------------------------------------------------------
(* The other calls. *)

HasEntry(c) == sockindex[c] < socket_num
MayUse(c) == pc = "idle" /\ (Careful => HasEntry(c) /\ c \notin trying)

\* connectPoll by the program, until it reported the connection.
AskConnectPoll(c) ==
    /\ pc = "idle" /\ HasEntry(c)
    /\ c \in connectPolls \cap trying
    /\ client' = c
    /\ pc' = "ask"
    /\ UNCHANGED << setting, table, sockindex, trying, firstCall,
                    entry, then, elapsed, size, dns >>

PollOnce ==
    /\ pc = "ask"
    /\ ConnectPoll("idle")
    /\ UNCHANGED << setting, sockindex, firstCall, client, dns >>

\* write() passes its index on before it looks at it.  Past the table FNET finds
\* no socket, or takes what it finds for one, and write() returns 0.
WriteCall(c) ==
    /\ MayUse(c)
    /\ client' = c
    /\ \/ /\ size' \in Writes
          /\ setting # "failing" => size' <= SndBuf
          /\ pc' = "send"
       \/ /\ ~ HasEntry(c)
          /\ UNCHANGED << size, pc >>
    /\ UNCHANGED << setting, table, sockindex, trying, firstCall,
                    entry, then, elapsed, dns >>

\* socketSendAvailable: 0 when FNET knows no such socket.
Room(s) == IF s = socket_num \/ socket_ptr[s] \in {"null", "freed"} THEN 0
           ELSE SndBuf - pending[s]

\* socketSend waits for room for all the bytes.
EnoughRoom(s) == Room(s) >= size

Send ==
    /\ pc = "send"
    /\ LET s == sockindex[client] IN
         /\ EnoughRoom(s)
         /\ pending' = IF s < socket_num /\ socket_ptr[s] \in {"connected", "closing"}
                                          /\ s \notin shut
                       THEN [pending EXCEPT ![s] = @ + size] ELSE pending
    /\ Return
    /\ UNCHANGED << setting, socket_ptr, shut, sockindex, trying, firstCall,
                    client, dns >>

FlushCall(c) ==
    /\ MayUse(c) /\ HasEntry(c)
    /\ client' = c
    /\ pc' = "flush"
    /\ UNCHANGED << setting, table, sockindex, trying, firstCall,
                    entry, then, elapsed, size, dns >>

Flush ==
    /\ pc = "flush"
    /\ LET s == sockindex[client] IN
         \/ Status(s) \notin {"ESTABLISHED", "CLOSE_WAIT"}
         \/ Room(s) >= SndBuf
    /\ Return
    /\ UNCHANGED << setting, table, sockindex, trying, firstCall,
                    client, dns >>

\* close() sends a FIN and keeps the connection; nor does it look at the index,
\* past the table there is no connection to close.
CloseClient(c) ==
    /\ MayUse(c)
    /\ shut' = IF HasEntry(c) /\ socket_ptr[sockindex[c]] \in {"connected", "closing"}
               THEN shut \cup {sockindex[c]} ELSE shut
    /\ UNCHANGED << setting, socket_ptr, pending, sockindex, trying, firstCall, pc,
                    calls, dns >>

\* stop() returns at once, and keeps the index, when the entry has no socket.
StopClient(c) ==
    /\ pc = "idle" /\ HasEntry(c)
    /\ socket_ptr[sockindex[c]] # "null"
    /\ client' = c
    /\ CloseThen(sockindex[c], "stopped")
    /\ UNCHANGED << setting, sockindex, trying, firstCall, elapsed,
                    size, dns >>

-----------------------------------------------------------------------------
(* FNET, in the interrupt. *)

Unreported(s) == \E c \in trying : sockindex[c] = s

Established(s) ==
    /\ socket_ptr[s] = "connecting"
    /\ socket_ptr' = [socket_ptr EXCEPT ![s] = "connected"]
    /\ UNCHANGED << pending, shut >>

PeerFin(s) ==
    /\ socket_ptr[s] = "connected"
    /\ socket_ptr' = [socket_ptr EXCEPT ![s] = "closing"]
    /\ UNCHANGED << pending, shut >>

\* Refused, reset, expired, or closed by both sides.
Lost(s) ==
    /\ \/ socket_ptr[s] \in {"connected", "closing"} /\ ~ Unreported(s)
       \/ socket_ptr[s] \in {"connecting", "connected"} /\ setting = "failing"
    /\ socket_ptr' = [socket_ptr EXCEPT ![s] = "closed"]
    /\ pending' = [pending EXCEPT ![s] = 0]
    /\ shut' = shut \ {s}

Acknowledged(s) ==
    /\ pending[s] > 0
    /\ pending' = [pending EXCEPT ![s] = 0]
    /\ UNCHANGED << socket_ptr, shut >>

Connections ==
    /\ \E s \in Socks :
         Established(s) \/ PeerFin(s) \/ Lost(s) \/ Acknowledged(s)
    /\ UNCHANGED << setting, sockindex, trying, firstCall, pc, calls, dns >>

\* fnet_dns_callback: no address, the first IPv4 address, or only others, in
\* which case it leaves resolveDone alone.
Answered ==
    /\ lookup
    /\ lookup' = FALSE
    /\ \/ resolveDone' \in {-1, 1}
       \/ setting = "failing" /\ UNCHANGED resolveDone
    /\ UNCHANGED << setting, table, sockindex, trying, firstCall, pc,
                    calls >>

-----------------------------------------------------------------------------
\* The rest of a call.
Progress ==
    \/ LookUp \/ Resolved \/ Connect \/ FindEntry \/ LastResort \/ Create
    \/ Establish \/ Poll \/ Timer \/ LetGoAfterClose \/ PollOnce \/ Send \/ Flush
    \/ SocketClosed

Next ==
    \/ \E c \in Clients : \/ ConnectHost(c) \/ ConnectIp(c) \/ AskConnectPoll(c)
                          \/ WriteCall(c) \/ FlushCall(c) \/ StopClient(c)
                          \/ CloseClient(c)
    \/ Progress
    \/ TimePasses
    \/ Connections
    \/ Answered

\* The processor works, time passes, FNET answers a lookup in the end, and what
\* is to be sent is acknowledged in the end or the connection is lost, unless
\* the peer is there and does not read.
SentOrLost(s) ==
    /\ setting # "stalled"
    /\ pending[s] > 0
    /\ Acknowledged(s) \/ Lost(s)
    /\ UNCHANGED << setting, sockindex, trying, firstCall, pc, calls, dns >>

Fairness ==
    /\ WF_vars(Progress)
    /\ WF_vars(TimePasses)
    /\ WF_vars(Answered)
    /\ \A s \in Socks : WF_vars(SentOrLost(s))

Spec == Init /\ [][Next]_vars /\ Fairness

-----------------------------------------------------------------------------
(* Properties. *)

\* Between calls every socket of the table is the one of exactly one client:
\* none is lost with a client that connects again or whose connect failed, and
\* no two clients believe in the same entry.
EntriesHeldOnce ==
    /\ pc = "idle" => \A s \in Socks : socket_ptr[s] # "null" =>
                        \E c \in Clients : sockindex[c] = s
    /\ \A c, d \in Clients :
         c # d /\ sockindex[c] = sockindex[d] => sockindex[c] = socket_num

RegularHeldOnce == setting = "regular" => EntriesHeldOnce

\* The callback of a lookup writes to the DNSClient it was started for, an
\* object on the stack of connect: until it came, the call is still there.
AnswerMeetsCaller == lookup => pc = "resolve"

\* A client whose connect reported a connection keeps an entry with a socket
\* until the program stops it: write never waits for a socket that is gone.
RegularHasSocket ==
    setting = "regular" =>
        \A c \in Clients : sockindex[c] < socket_num /\ pc = "idle" =>
            socket_ptr[sockindex[c]] \notin {"null", "freed"}

\* Every call of a careful program returns, whose peers read or go away: connect
\* after its timeout at the latest, write and flush when the data was taken.  A
\* write after a timeout or stop(), which reads past the table, may not, nor one
\* to a peer that stopped reading (WriteReturns).
CallsReturn == setting = "regular" /\ pc # "idle" ~> pc = "idle"

\* "Immediately close": socketClose ends.
CloseReturns == pc = "close" ~> pc # "close"

\* A lookup ends.
LookupReturns == pc = "resolve" ~> pc # "resolve"

\* A write ends: it does not to a peer that stopped reading, on a client without
\* an entry, and when it is larger than the send buffer.
WriteReturns == pc = "send" ~> pc # "send"

\* A connection that connect lets go was disconnected first: the peer is told.
PeerIsTold ==
    [][\A c \in Clients :
        sockindex[c] < socket_num /\ pc' \in {"lookup", "find"} /\ sockindex'[c] = socket_num
            => Status(sockindex[c]) = "CLOSED" \/ sockindex[c] \in shut']_vars
=============================================================================
