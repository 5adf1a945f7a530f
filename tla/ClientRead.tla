------------------------------ MODULE ClientRead ------------------------------
(***************************************************************************)
(* The receive path of NativeEthernet for one entry of the socket table:   *)
(* the buffer socket_buf_receive with its index, which outlive the         *)
(* EthernetClient objects, and the _remaining of the client at work.       *)
(*                                                                         *)
(* The bytes of the connection are numbered in the order they are sent, so *)
(* that a byte is its own place in the stream.  Byte 0 is what a new       *)
(* buffer holds.  Bytes arrive in the interrupt, between any two calls.    *)
(***************************************************************************)
EXTENDS Integers, Sequences

CONSTANTS
    socket_size,  \* size of the buffer, and of FNET's (SO_RCVBUF)
    MaxBytes,     \* bound: bytes that are ever sent
    Segments,     \* the bytes after which a segment may end
    Returns,      \* the bytes that are '\r'
    Sizes,        \* sizes callers pass to read(buf, size)
    Habits        \* "careful": read only after available() found something;
                  \* "line": readStringUntil('\r'), as handleWebServer does

ASSUME ReadAssumption ==
    /\ socket_size \in Nat \ {0}
    /\ MaxBytes \in Nat
    /\ Segments \subseteq 1 .. MaxBytes
    /\ Returns \subseteq 1 .. MaxBytes
    /\ Sizes \subseteq Nat \ {0}
    /\ Habits \subseteq {"careful", "line"}

VARIABLES
    arrived,    \* bytes FNET has received
    taken,      \* bytes fnet_socket_recv has taken out of FNET
    buffer,     \* socket_buf_receive
    index,      \* socket_buf_index
    remaining,  \* _remaining of the client
    from,       \* taken when the client was made
    client,     \* "none", "made", or "read" after its line was read
    got         \* the bytes the client's reads returned

vars == << arrived, taken, buffer, index, remaining, from, client, got >>
clientVars == << from, client, got >>

TypeOK ==
    /\ arrived \in 0 .. MaxBytes
    /\ taken \in 0 .. arrived
    /\ arrived - taken <= socket_size
    /\ buffer \in [0 .. socket_size - 1 -> 0 .. MaxBytes]
    /\ index \in 0 .. socket_size
    /\ remaining \in - socket_size .. socket_size
    /\ from \in 0 .. taken
    /\ client \in {"none", "made", "read"}
    /\ got \in Seq(0 .. MaxBytes)

Init ==
    /\ arrived = 0
    /\ taken = 0
    /\ buffer = [k \in 0 .. socket_size - 1 |-> 0]
    /\ index = 0
    /\ remaining = 0
    /\ from = 0
    /\ client = "none"
    /\ got = <<>>

\* A segment arrives; FNET takes no more than its buffer holds.
Arrive ==
    /\ \E end \in Segments :
         /\ end > arrived
         /\ end - taken <= socket_size
         /\ arrived' = end
    /\ UNCHANGED << taken, buffer, index, remaining, clientVars >>

\* fnet_socket_recv, with or without MSG_PEEK, copies what FNET holds to the
\* start of the buffer.
Received ==
    [k \in 0 .. socket_size - 1 |->
        IF k < arrived - taken THEN taken + k + 1 ELSE buffer[k]]

\* EthernetServer::available peeks, and makes a client for the entry.
ServerAvailable ==
    /\ arrived > taken
    /\ buffer' = Received
    /\ index' = 0
    /\ remaining' = 0
    /\ from' = taken
    /\ client' = "made"
    /\ got' = <<>>
    /\ UNCHANGED << arrived, taken >>

\* EthernetClient::available: the index goes back to the start of the buffer
\* even when there was nothing to receive.  In the faulty variant available()
\* does not look at _remaining.
NothingLeftAssumed == TRUE
NothingLeft == remaining = 0
IndexAfterReceive == 0

ClientAvailable ==
    /\ client = "made"
    /\ IF NothingLeft
       THEN /\ buffer' = Received
            /\ index' = IndexAfterReceive
            /\ remaining' = arrived - taken
            /\ taken' = arrived
       ELSE UNCHANGED << buffer, index, remaining, taken >>
    /\ UNCHANGED << arrived, clientVars >>

\* socketRecv(s, buf, len): how many bytes it returns (0 stands for its -1),
\* and the index after it returned n (the first: off by one).
Count(len) == IF index + len < socket_size THEN len ELSE socket_size - index

IndexPast(n) == index + n + 1
IndexAfter(n) == index + n

\* A read that asks socketRecv for len bytes.
SocketRecv(len) ==
    /\ got' = got \o [k \in 1 .. Count(len) |-> buffer[index + k - 1]]
    /\ index' = IndexAfter(Count(len))
    /\ remaining' = remaining - Count(len)
    /\ UNCHANGED << arrived, taken, buffer, from >>

MayRead == client = "made" /\ "careful" \in Habits /\ remaining > 0

\* read(), and read(buf, size), which looks at _remaining.
ReadByte ==
    /\ MayRead
    /\ SocketRecv(1)
    /\ UNCHANGED client

\* The first definition is a faulty variant without the test of _remaining.
SizeAsked(size) == size
SizeLimited(size) == IF remaining > 0 /\ size > remaining THEN remaining ELSE size

Read(size) ==
    /\ MayRead
    /\ SocketRecv(SizeLimited(size))
    /\ UNCHANGED client

\* readStringUntil('\r'): read() until the '\r' or, when read() returns -1 at
\* the end of the buffer, until its timeout.
LineEnds == {k \in index .. socket_size - 1 : buffer[k] \in Returns}

ReadLine ==
    /\ client = "made" /\ "line" \in Habits
    /\ remaining > 0 /\ got = <<>>
    /\ IF LineEnds = {} THEN SocketRecv(socket_size - index)
       ELSE \E end \in LineEnds : /\ \A k \in LineEnds : end <= k
                                 /\ SocketRecv(end - index + 1)
    /\ client' = "read"

Next ==
    \/ Arrive
    \/ ServerAvailable
    \/ ClientAvailable
    \/ ReadByte
    \/ \E size \in Sizes : Read(size)
    \/ ReadLine

Spec == Init /\ [][Next]_vars

-----------------------------------------------------------------------------
(* Properties. *)

\* What careful reads return is the stream: the bytes after those taken by
\* earlier clients, in order, none twice, none left out, none left over in the
\* buffer from before, whatever those clients read past the end.
ReadsTheStream ==
    client # "read" => got = [k \in 1 .. taken - remaining - from |-> from + k]

\* The bytes a client has yet to read are in the buffer, at the index.
RestIsInBuffer ==
    client = "made" /\ remaining > 0 =>
        /\ index + remaining <= socket_size
        /\ \A k \in 0 .. remaining - 1 : buffer[index + k] = taken - remaining + k + 1

\* "Read the first line of the request": when what was received for the client
\* holds a '\r', the line is what the peer sent, up to the first one.
ReturnsReceived == {k \in from + 1 .. taken : k \in Returns}
LineIsAsSent ==
    client = "read" =>
        \A end \in ReturnsReceived :
            (\A k \in ReturnsReceived : end <= k) =>
                got = [k \in 1 .. end - from |-> from + k]

\* "-1 for no data": a read returns nothing that was not received for it.
NoDataNoBytes ==
    \A k \in 1 .. Len(got) : got[k] > from /\ got[k] <= taken
=============================================================================
