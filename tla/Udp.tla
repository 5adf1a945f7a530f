---------------------------------- MODULE Udp ----------------------------------
(***************************************************************************)
(* EthernetUDP of NativeEthernet: one object and the entry of the socket   *)
(* table it uses, with the entry's two buffers.                            *)
(*                                                                         *)
(* Byte k of datagram d is the pair << d, k >>, on the way in as on the    *)
(* way out.  FNET's queue of received datagrams is external: datagrams are *)
(* appended to it in the interrupt, between any two FNET calls, and are    *)
(* lost when there is no room.                                             *)
(***************************************************************************)
EXTENDS Integers, Sequences, SequencesExt

CONSTANTS
    socket_size,   \* size of each buffer, and of FNET's queue (SO_RCVBUF)
    DefaultSize,   \* FNET_SOCKET_DEFAULT_SIZE, which socketBufferData uses
    Width,         \* number of values of a uint16_t
    MaxDatagrams,  \* bound: datagrams that arrive
    MaxPackets,    \* bound: packets that are begun
    Lengths,       \* lengths of the datagrams that arrive
    ReadSizes,     \* sizes callers pass to read(buffer, len); 1 for read()
    WriteSizes,    \* sizes callers pass to write
    Receivers,     \* remote addresses
    Habits         \* what the caller does: "careful" looks at every result,
                   \* "heedless" goes on although a call failed

ASSUME UdpAssumption ==
    /\ socket_size \in Nat \ {0}
    /\ DefaultSize \in Nat \ {0}
    /\ Width \in Nat /\ Width > DefaultSize /\ Width > socket_size
    /\ MaxDatagrams \in Nat /\ MaxPackets \in Nat
    /\ Lengths \subseteq 0 .. socket_size
    /\ ReadSizes \subseteq Nat \ {0}
    /\ WriteSizes \subseteq Nat
    /\ Habits \subseteq {"careful", "heedless"}

VARIABLES
    open,      \* sockindex < socket_num
    arrived,   \* datagrams sent to the board so far
    queue,     \* the datagrams FNET holds: records of number and length
    buffer,    \* socket_buf_receive
    index,     \* socket_buf_index
    remaining, \* _remaining
    parsing,   \* parsePacket is between its two FNET calls
    parsed,    \* the datagram parsePacket returned; NoDatagram after a 0
    got,       \* the bytes read() returned of it
    transmit,  \* socket_buf_transmit
    buf_len,   \* socket_buf_len
    offset,    \* _offset
    address,   \* socket_addr and socket_port
    packet,    \* what the caller asked for: the packet it began last
    sent       \* what endPacket sent of the packet begun last, and NotSent before

received == << buffer, index, remaining, parsing, parsed, got >>
outgoing == << transmit, buf_len, offset, address, packet, sent >>
vars == << open, arrived, queue, received, outgoing >>

Datagrams  == [number : 1 .. MaxDatagrams, length : Lengths]
NoDatagram == [number |-> 0, length |-> 0]

Byte == (0 .. MaxDatagrams) \X (0 .. socket_size)
Cell == (0 .. MaxPackets) \X (0 .. DefaultSize)
NoByte == << 0, 0 >>

NotSent == [bytes |-> <<>>, written |-> 0]

\* result: did beginPacket return 1; written: bytes write() took since then.
Packets == [number : 0 .. MaxPackets, result : BOOLEAN, to : Receivers,
            written : Nat]

TypeOK ==
    /\ open \in BOOLEAN /\ parsing \in BOOLEAN
    /\ arrived \in 0 .. MaxDatagrams
    /\ queue \in Seq(Datagrams)
    /\ buffer \in [0 .. socket_size - 1 -> Byte]
    /\ index \in 0 .. socket_size
    /\ remaining \in 0 .. socket_size
    /\ parsed \in Datagrams \cup {NoDatagram}
    /\ got \in Seq(Byte)
    /\ transmit \in [0 .. DefaultSize - 1 -> Cell]
    /\ buf_len \in 0 .. Width - 1
    /\ offset \in 0 .. DefaultSize
    /\ address \in Receivers
    /\ packet \in Packets
    /\ sent \in [to : Receivers, bytes : Seq(Cell), written : Nat] \cup {NotSent}

Init ==
    /\ open = FALSE
    /\ arrived = 0
    /\ queue = <<>>
    /\ buffer = [k \in 0 .. socket_size - 1 |-> NoByte]
    /\ index = 0
    /\ remaining = 0
    /\ parsing = FALSE
    /\ parsed = NoDatagram
    /\ got = <<>>
    /\ transmit = [k \in 0 .. DefaultSize - 1 |-> NoByte]
    /\ buf_len = 0
    /\ offset = 0
    /\ address \in Receivers
    /\ packet = [number |-> 0, result |-> FALSE, to |-> address, written |-> 0]
    /\ sent = NotSent

-----------------------------------------------------------------------------
(* begin, beginMulticast and stop.                                         *)

Idle == open /\ ~ parsing

\* The caller's packets are gone with the socket they belonged to.
Forgotten ==
    /\ queue' = <<>>
    /\ parsed' = NoDatagram
    /\ got' = <<>>
    /\ packet' = [packet EXCEPT !.result = FALSE]
    /\ sent' = NotSent

\* socketClose on the entry in use, if any, and socketBegin, which takes a free
\* entry or none.  A new socket has an empty queue; buffer, index and length
\* are those of the entry, whoever used it before.
SocketOpened ==
    /\ open' = TRUE
    /\ remaining' = 0
    /\ \E i \in {index, socket_size} : index' = i
    /\ \E n \in {buf_len, DefaultSize} : buf_len' = n

NoSocket ==
    /\ open' = FALSE
    /\ UNCHANGED << remaining, index, buf_len >>

Begin ==
    /\ ~ parsing
    /\ Forgotten
    /\ SocketOpened \/ NoSocket
    /\ UNCHANGED << arrived, buffer, parsing, transmit, offset, address >>

\* Joining the group may fail: socketBeginMulticast goes on all the same, so
\* that the caller cannot tell.
BeginMulticast ==
    /\ ~ parsing
    /\ Forgotten
    /\ SocketOpened \/ NoSocket
    /\ UNCHANGED << arrived, buffer, parsing, transmit, offset, address >>

StopUdp ==
    /\ Idle
    /\ open' = FALSE
    /\ Forgotten
    /\ UNCHANGED << arrived, buffer, index, remaining, parsing, transmit,
                    buf_len, offset, address >>

-----------------------------------------------------------------------------
(* Receiving. *)

Held == FoldSeq(LAMBDA d, n : d.length + n, 0, queue)

Arrive ==
    /\ open
    /\ arrived < MaxDatagrams
    /\ arrived' = arrived + 1
    /\ \E length \in Lengths :
         queue' = IF Held + length <= socket_size
                  THEN Append(queue, [number |-> arrived + 1, length |-> length])
                  ELSE queue
    /\ UNCHANGED << open, received, outgoing >>

\* What fnet_socket_recv leaves in the buffer.
Copied(d) == [k \in 0 .. socket_size - 1 |->
                IF k < d.length THEN << d.number, k >> ELSE buffer[k]]

\* parsePacket: socketRecvAvailable peeks, which may fail like any FNET call.
\* The first definition is a faulty variant, which keeps a packet that was not
\* read to its end.
UnreadIsKept == remaining = 0
UnreadIsDropped == TRUE

ParsePacket ==
    /\ Idle
    /\ UnreadIsDropped
    /\ parsed' = NoDatagram
    /\ got' = <<>>
    /\ \/ /\ queue # <<>>
          /\ buffer' = Copied(Head(queue))
          /\ remaining' = Head(queue).length
          /\ parsing' = (Head(queue).length > 0)
       \/ /\ remaining' = 0
          /\ UNCHANGED << buffer, parsing >>
    /\ UNCHANGED << open, arrived, queue, index, outgoing >>

\* ... and fnet_socket_recvfrom takes the datagram out of the queue.  In
\* the faulty variant the index is left alone.
IndexKept == index
IndexAfterReceive == 0

ParseReceives ==
    /\ parsing
    /\ buffer' = Copied(Head(queue))
    /\ queue' = Tail(queue)
    /\ parsed' = Head(queue)
    /\ index' = IndexAfterReceive
    /\ parsing' = FALSE
    /\ UNCHANGED << open, arrived, remaining, got, outgoing >>

\* The call fails: parsePacket returns 0 and leaves _remaining.
ParseFails ==
    /\ parsing
    /\ index' = 0
    /\ parsing' = FALSE
    /\ UNCHANGED << open, arrived, queue, buffer, remaining, parsed, got, outgoing >>

\* socketRecv(s, buf, len): how many bytes it returns, 0 standing for its -1.
Count(len) == IF index + len < socket_size THEN len ELSE socket_size - index

\* read() and read(buffer, len): _remaining bounds what is asked.
Bounded(len) == IF remaining <= len THEN remaining ELSE len

\* A careful caller reads only a packet that parsePacket returned.
MayRead == \/ parsed # NoDatagram
           \/ "heedless" \in Habits

Read(len) ==
    /\ Idle /\ MayRead
    /\ remaining > 0
    /\ LET n == Count(Bounded(len)) IN
         /\ n > 0
         /\ got' = got \o [k \in 1 .. n |-> buffer[index + k - 1]]
         /\ index' = index + n
         /\ remaining' = remaining - n
    /\ UNCHANGED << open, arrived, queue, buffer, parsing, parsed, outgoing >>

-----------------------------------------------------------------------------
(* Sending. *)

\* A careful caller writes and sends only after a beginPacket that returned 1.
MayWrite == \/ packet.result
            \/ "heedless" \in Habits

Begun(result, to) ==
    [number |-> packet.number + 1, result |-> result, to |-> to, written |-> 0]

\* beginPacket(ip, port) with socketStartUDP.  The first definition of the
\* length is a faulty variant.
LengthKept == buf_len
LengthAtStart == 0

BeginPacket(to) ==
    /\ Idle
    /\ packet.number < MaxPackets
    /\ offset' = 0
    /\ \/ /\ buf_len' = LengthAtStart
          /\ address' = to
          /\ packet' = Begun(TRUE, to)
       \* No address or no port: only _offset is reset.
       \/ /\ packet' = Begun(FALSE, to)
          /\ UNCHANGED << buf_len, address >>
    /\ sent' = NotSent
    /\ UNCHANGED << open, arrived, queue, received, transmit >>

\* beginPacket(host, port) whose name is not resolved returns before anything.
BeginPacketUnresolved(to) ==
    /\ Idle
    /\ packet.number < MaxPackets
    /\ packet' = Begun(FALSE, to)
    /\ sent' = NotSent
    /\ UNCHANGED << open, arrived, queue, received, transmit, buf_len, offset,
                    address >>

\* socketBufferData(s, offset, buf, len): how much of len bytes it takes; len
\* is a uint16_t.  The first definition is a faulty variant without the limit.
TakenAll(len) == len
Taken(len) == IF offset + len >= DefaultSize THEN DefaultSize - offset ELSE len

Write(size) ==
    /\ Idle /\ MayWrite
    /\ LET n == Taken(size % Width) IN
         /\ transmit' = [k \in DOMAIN transmit |->
                IF k >= offset /\ k < offset + n
                THEN << packet.number, packet.written + k - offset >>
                ELSE transmit[k]]
         /\ buf_len' = (buf_len + n) % Width
         /\ offset' = (offset + n) % Width
         /\ packet' = [packet EXCEPT !.written = @ + n]
    /\ UNCHANGED << open, arrived, queue, received, address, sent >>

\* endPacket: socketSendUDP sends socket_buf_len bytes of the buffer, or fails
\* and sends nothing.  A length past the buffer (NoByte) reads what is there.
EndPacket ==
    /\ Idle /\ MayWrite
    /\ sent' = [to |-> address,
                bytes |-> [k \in 1 .. buf_len |->
                    IF k <= socket_size /\ k <= DefaultSize
                    THEN transmit[k - 1] ELSE NoByte],
                written |-> packet.written]
    /\ UNCHANGED << open, arrived, queue, received, transmit, buf_len, offset,
                    address, packet >>

-----------------------------------------------------------------------------
Next ==
    \/ Begin
    \/ BeginMulticast
    \/ StopUdp
    \/ Arrive
    \/ ParsePacket
    \/ ParseReceives
    \/ ParseFails
    \/ \E len \in ReadSizes : Read(len)
    \/ \E to \in Receivers : BeginPacket(to) \/ BeginPacketUnresolved(to)
    \/ \E size \in WriteSizes : Write(size)
    \/ EndPacket

\* The program calls parsePacket again and again, and FNET does not fail for
\* ever.
Fairness ==
    /\ WF_vars(ParsePacket)
    /\ SF_vars(ParsePacket /\ parsing')
    /\ SF_vars(ParseReceives)
    /\ WF_vars(ParseFails)

Spec == Init /\ [][Next]_vars /\ Fairness

-----------------------------------------------------------------------------
(* Properties. *)

\* "remaining bytes of incoming packet yet to be processed": once parsePacket
\* returned a packet they are in the buffer, at the index, none of them another
\* packet's, whatever arrived or was left unread.
RestIsInBuffer ==
    parsed # NoDatagram /\ open =>
        /\ index + remaining = parsed.length
        /\ \A k \in index .. parsed.length - 1 : buffer[k] = << parsed.number, k >>

\* What is read is the packet parsePacket returned, from its first byte on, in
\* order, none twice and nothing past its end; and so it goes on, for what is
\* left of it is still in the buffer.
ReadsThePacket ==
    /\ parsed # NoDatagram =>
         got = [k \in 1 .. parsed.length - remaining |-> << parsed.number, k - 1 >>]
    /\ RestIsInBuffer

\* "return zero if parsePacket hasn't been called yet" (and after it returned
\* 0): what available() announces belongs to a packet parsePacket returned.
AvailableMeansParsed ==
    open /\ ~ parsing /\ remaining > 0 => parsed # NoDatagram

\* A datagram FNET holds is returned in the end, or dropped by begin or stop,
\* even when the caller leaves earlier ones half read.
HeldIsParsed ==
    \A n \in 1 .. MaxDatagrams :
        (\E d \in ToSet(queue) : d.number = n)
            ~> (parsed.number = n \/ \A d \in ToSet(queue) : d.number # n)

\* "Finish off this packet and send it": what goes out is all that write() said
\* it took since the last beginPacket, and nothing else, to the address given
\* there, however the writes were cut to the size of the buffer.
SentAsWritten ==
    sent # NotSent =>
        /\ sent.to = packet.to
        /\ sent.bytes = [k \in 1 .. sent.written |-> << packet.number, k - 1 >>]

\* write() stays in the entry's own buffer.
WritesInBuffer == offset <= socket_size
=============================================================================
