------------------------------- MODULE Udp_proofs -------------------------------
(***************************************************************************)
(* Proofs about EthernetUDP, for buffers of every size, datagrams, reads   *)
(* and writes of every length, and failures of every call.                 *)
(***************************************************************************)
EXTENDS Udp, TLAPS, SequenceTheorems

-----------------------------------------------------------------------------
(* Sequences given by a function of their places. *)

LEMMA FunctionIsSeq ==
    ASSUME NEW S, NEW n \in Nat, NEW f \in [1 .. n -> S]
    PROVE  f \in Seq(S) /\ Len(f) = n
OBVIOUS

\* Bytes m + 1 to m + n behind bytes 1 to m of what is numbered d make bytes 1
\* to m + n of it.
LEMMA BytesConcat ==
    ASSUME NEW d, NEW m \in Nat, NEW n \in Nat
    PROVE  [k \in 1 .. m |-> << d, k - 1 >>] \o [k \in 1 .. n |-> << d, m + k - 1 >>]
             = [k \in 1 .. m + n |-> << d, k - 1 >>]
<1> DEFINE B == {d} \X Int
           s == [k \in 1 .. m |-> << d, k - 1 >>]
           t == [k \in 1 .. n |-> << d, m + k - 1 >>]
           r == [k \in 1 .. m + n |-> << d, k - 1 >>]
<1>1. /\ s \in [1 .. m -> B] /\ t \in [1 .. n -> B] /\ r \in [1 .. m + n -> B]
  OBVIOUS
<1>2. s \in Seq(B) /\ t \in Seq(B) /\ r \in Seq(B)
  <2> HIDE DEF B, s, t, r
  <2> QED
    BY <1>1, FunctionIsSeq
<1>3. Len(s) = m /\ Len(t) = n /\ Len(r) = m + n
  <2> HIDE DEF B, s, t, r
  <2> QED
    BY <1>1, FunctionIsSeq
<1>4. s \o t \in Seq(B) /\ Len(s \o t) = m + n
  <2> HIDE DEF B, s, t, r
  <2> QED
    BY <1>2, <1>3, ConcatProperties
<1>5. ASSUME NEW k \in 1 .. m + n PROVE (s \o t)[k] = r[k]
  <2>1. (s \o t)[k] = IF k <= m THEN s[k] ELSE t[k - m]
    <3> HIDE DEF B, s, t, r
    <3> QED
      BY <1>2, <1>3, ConcatProperties
  <2>2. CASE k <= m
    BY <2>1, <2>2
  <2>3. CASE k > m
    BY <2>1, <2>3
  <2> QED
    BY <2>2, <2>3
<1> HIDE DEF B, s, t, r
<1>6. s \o t = r
  BY <1>2, <1>3, <1>4, <1>5, SeqEqual
<1> QED
  BY <1>6 DEF s, t, r

-----------------------------------------------------------------------------
(* Types. *)

\* The two halves of TypeOK, with what they rest on: while parsePacket is
\* between its two calls the peeked datagram stays at the head of the queue; a
\* caller never wrote more of its packet than the offset tells.
ReceiveOK ==
    /\ open \in BOOLEAN /\ parsing \in BOOLEAN
    /\ arrived \in 0 .. MaxDatagrams
    /\ queue \in Seq(Datagrams)
    /\ buffer \in [0 .. socket_size - 1 -> Byte]
    /\ index \in 0 .. socket_size
    /\ remaining \in 0 .. socket_size
    /\ parsed \in Datagrams \cup {NoDatagram}
    /\ got \in Seq(Byte)
    /\ parsing => open /\ queue # <<>>

SendOK ==
    /\ transmit \in [0 .. DefaultSize - 1 -> Cell]
    /\ buf_len \in 0 .. Width - 1
    /\ offset \in 0 .. DefaultSize
    /\ address \in Receivers
    /\ packet \in Packets
    /\ packet.number <= MaxPackets
    /\ packet.written <= offset
    /\ sent \in [to : Receivers, bytes : Seq(Cell), written : Nat] \cup {NotSent}

LEMMA TypesHold == ReceiveOK /\ SendOK => TypeOK
BY DEF ReceiveOK, SendOK, TypeOK

LEMMA InitTypes == Init => ReceiveOK /\ SendOK
<1> SUFFICES ASSUME Init PROVE ReceiveOK /\ SendOK
  OBVIOUS
<1> USE UdpAssumption
<1>1. NoByte \in Byte /\ NoByte \in Cell
  BY DEF NoByte, Byte, Cell
<1>2. packet \in Packets /\ packet.number <= MaxPackets /\ packet.written <= offset
  BY DEF Init, Packets
<1>3. /\ open \in BOOLEAN /\ parsing \in BOOLEAN /\ arrived \in 0 .. MaxDatagrams
      /\ index \in 0 .. socket_size /\ remaining \in 0 .. socket_size
      /\ parsed \in Datagrams \cup {NoDatagram}
  BY DEF Init
<1>4. /\ buffer \in [0 .. socket_size - 1 -> Byte]
      /\ transmit \in [0 .. DefaultSize - 1 -> Cell]
  BY <1>1 DEF Init
<1>5. queue \in Seq(Datagrams) /\ got \in Seq(Byte)
  BY DEF Init
<1>6. /\ buf_len \in 0 .. Width - 1 /\ offset \in 0 .. DefaultSize
      /\ address \in Receivers /\ sent = NotSent /\ ~ parsing
  BY DEF Init
<1> QED
  BY <1>2, <1>3, <1>4, <1>5, <1>6 DEF ReceiveOK, SendOK

\* What a peek or a receive leaves in the buffer is bytes.
LEMMA CopiedTypes ==
    ASSUME ReceiveOK, NEW d \in Datagrams
    PROVE  Copied(d) \in [0 .. socket_size - 1 -> Byte]
<1>1. ASSUME NEW k \in 0 .. socket_size - 1, k < d.length
      PROVE  << d.number, k >> \in Byte
  BY UdpAssumption DEF Datagrams, Byte
<1>2. \A k \in 0 .. socket_size - 1 : buffer[k] \in Byte
  BY DEF ReceiveOK
<1> QED
  BY <1>1, <1>2 DEF Copied

\* begin, beginMulticast and stop.
Opens == Begin \/ BeginMulticast \/ StopUdp

LEMMA OpensReceive ==
    ASSUME ReceiveOK, Opens
    PROVE  ReceiveOK'
<1>1. index' \in 0 .. socket_size /\ remaining' \in 0 .. socket_size
  BY UdpAssumption
     DEF ReceiveOK, Opens, Begin, BeginMulticast, StopUdp, SocketOpened, NoSocket
<1>2. /\ queue' = <<>> /\ parsed' = NoDatagram /\ got' = <<>>
      /\ UNCHANGED << arrived, buffer >>
  BY DEF Opens, Begin, BeginMulticast, StopUdp, Forgotten
<1>3. open' \in BOOLEAN
  BY DEF Opens, Begin, BeginMulticast, StopUdp, SocketOpened, NoSocket
<1>4. ~ parsing /\ ~ parsing' /\ parsing' \in BOOLEAN
  BY DEF ReceiveOK, Opens, Begin, BeginMulticast, StopUdp, Idle
<1>5. queue' \in Seq(Datagrams) /\ got' \in Seq(Byte)
  BY <1>2
<1> QED
  BY <1>1, <1>2, <1>3, <1>4, <1>5 DEF ReceiveOK

LEMMA OpensSend ==
    ASSUME SendOK, Opens
    PROVE  SendOK'
<1>1. buf_len' \in 0 .. Width - 1
  BY UdpAssumption
     DEF SendOK, Opens, Begin, BeginMulticast, StopUdp, SocketOpened, NoSocket
<1>2. /\ packet' = [packet EXCEPT !.result = FALSE] /\ sent' = NotSent
      /\ UNCHANGED << transmit, offset, address >>
  BY DEF Opens, Begin, BeginMulticast, StopUdp, Forgotten
<1>3. packet' \in Packets /\ packet'.number = packet.number /\ packet'.written = packet.written
  BY <1>2 DEF SendOK, Packets
<1> QED
  BY <1>1, <1>2, <1>3 DEF SendOK

LEMMA ArriveReceive ==
    ASSUME ReceiveOK, Arrive
    PROVE  ReceiveOK' /\ (queue # <<>> => Head(queue') = Head(queue))
<1>1. PICK length \in Lengths :
        queue' = IF Held + length <= socket_size
                 THEN Append(queue, [number |-> arrived + 1, length |-> length])
                 ELSE queue
  BY DEF Arrive
<1>2. /\ arrived + 1 \in 1 .. MaxDatagrams /\ arrived' = arrived + 1
      /\ queue \in Seq(Datagrams)
  BY UdpAssumption DEF ReceiveOK, Arrive
<1>3. [number |-> arrived + 1, length |-> length] \in Datagrams
  BY <1>2 DEF Datagrams
<1>4. queue' \in Seq(Datagrams) /\ (queue # <<>> => queue' # <<>> /\ Head(queue') = Head(queue))
  BY <1>1, <1>2, <1>3
<1>5. arrived' \in 0 .. MaxDatagrams
  BY <1>2, UdpAssumption
<1>6. UNCHANGED << open, buffer, index, remaining, parsing, parsed, got >>
  BY DEF Arrive, received
<1> QED
  BY <1>4, <1>5, <1>6 DEF ReceiveOK

LEMMA ParseReceive ==
    ASSUME ReceiveOK, ParsePacket \/ ParseReceives \/ ParseFails
    PROVE  ReceiveOK'
<1> USE UdpAssumption
<1>1. CASE ParsePacket
  <2>1. /\ parsed' = NoDatagram /\ got' = <<>> /\ UNCHANGED << open, arrived, queue, index >>
        /\ open /\ ~ parsing
    BY <1>1 DEF ParsePacket, Idle
  <2>2. got' \in Seq(Byte)
    BY <2>1
  <2>3. CASE queue # <<>> /\ buffer' = Copied(Head(queue))
             /\ remaining' = Head(queue).length /\ parsing' = (Head(queue).length > 0)
    <3>1. Head(queue) \in Datagrams
      BY <2>3 DEF ReceiveOK
    <3>2. remaining' \in 0 .. socket_size
      BY <2>3, <3>1 DEF Datagrams
    <3>3. buffer' \in [0 .. socket_size - 1 -> Byte]
      BY <2>3, <3>1, CopiedTypes
    <3>4. parsing' \in BOOLEAN
      BY <2>3
    <3> QED
      BY <2>1, <2>2, <2>3, <3>2, <3>3, <3>4 DEF ReceiveOK
  <2>4. CASE remaining' = 0 /\ UNCHANGED << buffer, parsing >>
    BY <2>1, <2>2, <2>4 DEF ReceiveOK
  <2> QED
    BY <1>1, <2>3, <2>4 DEF ParsePacket
<1>2. CASE ParseReceives
  <2>1. queue \in Seq(Datagrams) /\ queue # <<>>
    BY <1>2 DEF ReceiveOK, ParseReceives
  <2>2. Head(queue) \in Datagrams /\ Tail(queue) \in Seq(Datagrams)
    BY <2>1
  <2>3. buffer' \in [0 .. socket_size - 1 -> Byte]
    BY <1>2, <2>2, CopiedTypes DEF ParseReceives
  <2>4. /\ queue' = Tail(queue) /\ parsed' = Head(queue) /\ index' = 0
        /\ ~ parsing' /\ parsing' \in BOOLEAN
        /\ UNCHANGED << open, arrived, remaining, got >>
    BY <1>2 DEF ParseReceives, IndexAfterReceive
  <2> QED
    BY <2>2, <2>3, <2>4 DEF ReceiveOK
<1>3. CASE ParseFails
  <2>1. index' = 0 /\ ~ parsing' /\ parsing' \in BOOLEAN
    BY <1>3 DEF ParseFails
  <2>2. UNCHANGED << open, arrived, queue, buffer, remaining, parsed, got >>
    BY <1>3 DEF ParseFails
  <2> QED
    BY <2>1, <2>2 DEF ReceiveOK
<1> QED
  BY <1>1, <1>2, <1>3

\* What read() returns, whoever calls it: at least a byte, at most the rest,
\* and none from behind the buffer.
LEMMA ReadCount ==
    ASSUME ReceiveOK, NEW len \in ReadSizes, Read(len)
    PROVE  \E n \in 1 .. remaining :
             /\ n = Count(Bounded(len))
             /\ index + n <= socket_size
             /\ got' = got \o [k \in 1 .. n |-> buffer[index + k - 1]]
             /\ index' = index + n /\ remaining' = remaining - n
             /\ \A k \in 1 .. n : index + k - 1 \in 0 .. socket_size - 1
<1> USE UdpAssumption
<1>1. /\ len \in Nat /\ index \in 0 .. socket_size /\ remaining \in 0 .. socket_size
      /\ remaining > 0
  BY DEF ReceiveOK, Read
<1>2. Bounded(len) \in 0 .. remaining
  BY <1>1 DEF Bounded
<1>3. Count(Bounded(len)) \in Int /\ Count(Bounded(len)) <= remaining
      /\ index + Count(Bounded(len)) <= socket_size
  BY <1>1, <1>2 DEF Count
<1> DEFINE n == Count(Bounded(len))
<1>4. /\ n > 0 /\ index' = index + n /\ remaining' = remaining - n
      /\ got' = got \o [k \in 1 .. n |-> buffer[index + k - 1]]
  BY DEF Read
<1>5. n \in 1 .. remaining /\ index + n <= socket_size
  <2> HIDE DEF n
  <2> QED
    BY <1>1, <1>3, <1>4 DEF n
<1>6. \A k \in 1 .. n : index + k - 1 \in 0 .. socket_size - 1
  <2> HIDE DEF n
  <2> QED
    BY <1>1, <1>5
<1> QED
  <2> HIDE DEF n
  <2> SUFFICES /\ n = Count(Bounded(len)) /\ index + n <= socket_size
               /\ got' = got \o [k \in 1 .. n |-> buffer[index + k - 1]]
               /\ index' = index + n /\ remaining' = remaining - n
               /\ \A k \in 1 .. n : index + k - 1 \in 0 .. socket_size - 1
    BY <1>5
  <2> QED
    BY <1>4, <1>5, <1>6 DEF n

LEMMA ReadReceive ==
    ASSUME ReceiveOK, NEW len \in ReadSizes, Read(len)
    PROVE  ReceiveOK'
<1> USE UdpAssumption
<1>1. PICK n \in 1 .. remaining :
        /\ index + n <= socket_size
        /\ got' = got \o [k \in 1 .. n |-> buffer[index + k - 1]]
        /\ index' = index + n /\ remaining' = remaining - n
        /\ \A k \in 1 .. n : index + k - 1 \in 0 .. socket_size - 1
  BY ReadCount
<1>2. /\ index \in 0 .. socket_size /\ remaining \in 0 .. socket_size
      /\ got \in Seq(Byte) /\ buffer \in [0 .. socket_size - 1 -> Byte]
  BY DEF ReceiveOK
<1>3. [k \in 1 .. n |-> buffer[index + k - 1]] \in [1 .. n -> Byte]
  BY <1>1, <1>2
<1>4. [k \in 1 .. n |-> buffer[index + k - 1]] \in Seq(Byte)
  BY <1>1, <1>2, <1>3, FunctionIsSeq
<1>5. got' \in Seq(Byte)
  BY <1>1, <1>2, <1>4
<1>6. index' \in 0 .. socket_size /\ remaining' \in 0 .. socket_size
  BY <1>1, <1>2
<1>7. UNCHANGED << open, arrived, queue, buffer, parsing, parsed >>
  BY DEF Read
<1> QED
  BY <1>5, <1>6, <1>7 DEF ReceiveOK

\* beginPacket and the lengths written: what fits in the buffer is taken.
LEMMA ModSmall ==
    ASSUME NEW w \in Nat \ {0}, NEW x \in 0 .. w - 1
    PROVE  x % w = x
OBVIOUS

LEMMA ModRange ==
    ASSUME NEW w \in Nat \ {0}, NEW x \in Nat
    PROVE  x % w \in 0 .. w - 1
OBVIOUS

LEMMA TakenFits ==
    ASSUME SendOK, NEW size \in WriteSizes
    PROVE  /\ Taken(size % Width) \in Nat
           /\ offset + Taken(size % Width) <= DefaultSize
<1>1. size \in Nat /\ Width \in Nat \ {0} /\ DefaultSize \in Nat /\ offset \in 0 .. DefaultSize
  BY UdpAssumption DEF SendOK
<1>2. size % Width \in Nat
  BY <1>1, ModRange
<1> QED
  BY <1>1, <1>2 DEF Taken

LEMMA BeginSend ==
    ASSUME SendOK, NEW to \in Receivers, BeginPacket(to) \/ BeginPacketUnresolved(to)
    PROVE  SendOK'
<1>1. \E result \in BOOLEAN : packet' = Begun(result, to)
  BY DEF BeginPacket, BeginPacketUnresolved
<1>2. /\ packet' \in Packets /\ packet'.number <= MaxPackets /\ packet'.written = 0
  <2>1. packet.number \in 0 .. MaxPackets
    BY DEF SendOK, Packets
  <2>2. packet.number < MaxPackets
    BY DEF BeginPacket, BeginPacketUnresolved
  <2>3. packet.number + 1 \in 0 .. MaxPackets
    BY <2>1, <2>2, UdpAssumption
  <2> QED
    BY <1>1, <2>3 DEF Begun, Packets
<1>3. buf_len' \in 0 .. Width - 1 /\ offset' \in 0 .. DefaultSize
  BY UdpAssumption DEF SendOK, BeginPacket, BeginPacketUnresolved, LengthAtStart
<1>4. address' \in Receivers /\ transmit' = transmit /\ sent' = NotSent
  BY DEF SendOK, BeginPacket, BeginPacketUnresolved
<1> QED
  BY <1>2, <1>3, <1>4 DEF SendOK

\* What write() does to the variables: n bytes more of the packet.
LEMMA WriteTakes ==
    ASSUME SendOK, NEW size \in WriteSizes, Write(size)
    PROVE  \E n \in 0 .. DefaultSize :
             /\ offset + n <= DefaultSize /\ offset' = offset + n
             /\ buf_len' = (buf_len + n) % Width
             /\ packet' = [packet EXCEPT !.written = @ + n]
             /\ transmit' = [k \in 0 .. DefaultSize - 1 |->
                   IF k >= offset /\ k < offset + n
                   THEN << packet.number, packet.written + k - offset >>
                   ELSE transmit[k]]
<1> DEFINE n == Taken(size % Width)
<1>1. n \in Nat /\ offset + n <= DefaultSize
  BY TakenFits
<1>2. /\ Width \in Nat \ {0} /\ DefaultSize \in Nat /\ offset \in 0 .. DefaultSize
      /\ DefaultSize < Width /\ DOMAIN transmit = 0 .. DefaultSize - 1
  BY UdpAssumption DEF SendOK
<1>3. /\ offset' = (offset + n) % Width /\ buf_len' = (buf_len + n) % Width
      /\ packet' = [packet EXCEPT !.written = @ + n]
      /\ transmit' = [k \in 0 .. DefaultSize - 1 |->
            IF k >= offset /\ k < offset + n
            THEN << packet.number, packet.written + k - offset >>
            ELSE transmit[k]]
  BY <1>2 DEF Write
<1> HIDE DEF n
<1>4. offset + n \in 0 .. Width - 1 /\ n \in 0 .. DefaultSize
  BY <1>1, <1>2
<1>5. offset' = offset + n
  BY <1>2, <1>3, <1>4, ModSmall
<1> QED
  BY <1>1, <1>3, <1>4, <1>5

LEMMA WriteSend ==
    ASSUME SendOK, NEW size \in WriteSizes, Write(size)
    PROVE  SendOK'
<1>1. PICK n \in 0 .. DefaultSize :
        /\ offset + n <= DefaultSize /\ offset' = offset + n
        /\ buf_len' = (buf_len + n) % Width
        /\ packet' = [packet EXCEPT !.written = @ + n]
        /\ transmit' = [k \in 0 .. DefaultSize - 1 |->
              IF k >= offset /\ k < offset + n
              THEN << packet.number, packet.written + k - offset >>
              ELSE transmit[k]]
  BY WriteTakes
<1>2. /\ packet.number \in 0 .. MaxPackets /\ packet.written \in Nat
      /\ packet.written <= offset /\ offset \in 0 .. DefaultSize
      /\ DefaultSize \in Nat /\ Width \in Nat \ {0} /\ buf_len \in Nat
      /\ transmit \in [0 .. DefaultSize - 1 -> Cell]
  BY UdpAssumption DEF SendOK, Packets
<1>3. /\ packet' \in Packets /\ packet'.number = packet.number
      /\ packet'.written = packet.written + n
  <2>1. packet \in Packets /\ packet' = [packet EXCEPT !.written = @ + n]
    BY <1>1 DEF SendOK
  <2>2. n \in Nat /\ packet.written + n \in Nat
    BY <1>2
  <2> QED
    BY <2>1, <2>2 DEF Packets
<1>4. transmit' \in [0 .. DefaultSize - 1 -> Cell]
  <2>1. ASSUME NEW k \in 0 .. DefaultSize - 1, k >= offset, k < offset + n
        PROVE  << packet.number, packet.written + k - offset >> \in Cell
    <3>1. packet.written + k - offset \in 0 .. DefaultSize
      BY <1>1, <1>2, <2>1
    <3> QED
      BY <1>2, <3>1 DEF Cell
  <2> QED
    BY <1>1, <1>2, <2>1
<1>5. buf_len' \in 0 .. Width - 1
  BY <1>1, <1>2, ModRange
<1>6. offset' \in 0 .. DefaultSize /\ packet'.written <= offset'
  BY <1>1, <1>2, <1>3
<1>7. packet'.number <= MaxPackets /\ UNCHANGED << address, sent >>
  BY <1>3 DEF SendOK, Write
<1> QED
  BY <1>3, <1>4, <1>5, <1>6, <1>7 DEF SendOK

LEMMA EndSend ==
    ASSUME SendOK, EndPacket
    PROVE  SendOK'
<1> USE UdpAssumption
<1> DEFINE bytes == [k \in 1 .. buf_len |->
                       IF k <= socket_size /\ k <= DefaultSize
                       THEN transmit[k - 1] ELSE NoByte]
<1>1. NoByte \in Cell /\ buf_len \in Nat /\ packet.written \in Nat
  BY DEF NoByte, Cell, SendOK, Packets
<1>2. bytes \in [1 .. buf_len -> Cell]
  BY <1>1 DEF SendOK
<1>3. bytes \in Seq(Cell)
  <2> HIDE DEF bytes
  <2> QED
    BY <1>1, <1>2, FunctionIsSeq
<1>4. sent' = [to |-> address, bytes |-> bytes, written |-> packet.written]
  BY DEF EndPacket
<1>5. sent' \in [to : Receivers, bytes : Seq(Cell), written : Nat]
  <2> HIDE DEF bytes
  <2> QED
    BY <1>1, <1>3, <1>4 DEF SendOK
<1>6. UNCHANGED << transmit, buf_len, offset, address, packet >>
  BY DEF EndPacket
<1> QED
  BY <1>5, <1>6 DEF SendOK

\* The actions of one half leave the other alone.
Receives == \/ Arrive \/ ParsePacket \/ ParseReceives \/ ParseFails
            \/ \E len \in ReadSizes : Read(len)
Sends == \/ \E to \in Receivers : BeginPacket(to) \/ BeginPacketUnresolved(to)
         \/ \E size \in WriteSizes : Write(size)
         \/ EndPacket

LEMMA Steps ==
    ASSUME [Next]_vars
    PROVE  \/ Opens
           \/ Receives /\ UNCHANGED outgoing
           \/ Sends /\ UNCHANGED << open, arrived, queue, received >>
           \/ UNCHANGED vars
BY DEF Next, Opens, Receives, Sends, Arrive, ParsePacket, ParseReceives, ParseFails,
       Read, BeginPacket, BeginPacketUnresolved, Write, EndPacket

LEMMA ReceiveKept ==
    ASSUME ReceiveOK, UNCHANGED << open, arrived, queue, received >>
    PROVE  ReceiveOK'
BY DEF ReceiveOK, received

LEMMA SendKept ==
    ASSUME SendOK, UNCHANGED outgoing
    PROVE  SendOK'
BY DEF SendOK, outgoing

LEMMA TypeStep ==
    ASSUME ReceiveOK, SendOK, [Next]_vars
    PROVE  ReceiveOK' /\ SendOK'
<1>1. CASE Opens
  BY <1>1, OpensReceive, OpensSend
<1>2. CASE Receives /\ UNCHANGED outgoing
  BY <1>2, ArriveReceive, ParseReceive, ReadReceive, SendKept DEF Receives
<1>3. CASE Sends /\ UNCHANGED << open, arrived, queue, received >>
  BY <1>3, BeginSend, WriteSend, EndSend, ReceiveKept DEF Sends
<1>4. CASE UNCHANGED vars
  BY <1>4, ReceiveKept, SendKept DEF vars
<1> QED
  BY <1>1, <1>2, <1>3, <1>4, Steps

-----------------------------------------------------------------------------
(* Receiving. *)

\* The datagram that was peeked is the one the receive returns, whatever
\* arrived in between, and nothing of it was read before.
ReadInv ==
    /\ parsing => /\ remaining = Head(queue).length
                  /\ parsed = NoDatagram
                  /\ got = <<>>
    /\ parsed # NoDatagram => open
    /\ ReadsThePacket

LEMMA OpensRead ==
    ASSUME ReceiveOK, ReadInv, Opens
    PROVE  ReadInv'
<1>1. parsed' = NoDatagram /\ ~ parsing'
  BY DEF Opens, Begin, BeginMulticast, StopUdp, Forgotten, Idle
<1> QED
  BY <1>1 DEF ReadInv, ReadsThePacket, RestIsInBuffer

LEMMA ArriveRead ==
    ASSUME ReceiveOK, ReadInv, Arrive
    PROVE  ReadInv'
<1>1. UNCHANGED << open, buffer, index, remaining, parsing, parsed, got >>
  BY DEF Arrive, received
<1>2. parsing => Head(queue') = Head(queue)
  BY ArriveReceive DEF ReceiveOK
<1> QED
  BY <1>1, <1>2 DEF ReadInv, ReadsThePacket, RestIsInBuffer

LEMMA ParseRead ==
    ASSUME ReceiveOK, ReadInv, ParsePacket \/ ParseReceives \/ ParseFails
    PROVE  ReadInv'
<1>1. CASE ParsePacket
  <2>1. parsed' = NoDatagram /\ got' = <<>> /\ queue' = queue /\ ~ parsing
    BY <1>1 DEF ParsePacket, Idle
  <2>2. parsing' => remaining' = Head(queue').length
    BY <1>1, <2>1 DEF ParsePacket
  <2> QED
    BY <2>1, <2>2 DEF ReadInv, ReadsThePacket, RestIsInBuffer
<1>2. CASE ParseReceives
  <2>1. /\ open' = open /\ open /\ ~ parsing' /\ index' = 0
        /\ got' = <<>> /\ remaining' = Head(queue).length
        /\ parsed' = Head(queue) /\ buffer' = Copied(Head(queue))
    BY <1>2 DEF ParseReceives, IndexAfterReceive, ReadInv, ReceiveOK
  <2>2. Head(queue) \in Datagrams
    BY <1>2 DEF ParseReceives, ReceiveOK
  <2>3. Head(queue).length \in 0 .. socket_size /\ socket_size \in Nat
    BY <2>2, UdpAssumption DEF Datagrams
  <2>4. got' = [k \in 1 .. parsed'.length - remaining' |-> << parsed'.number, k - 1 >>]
    <3>1. [k \in 1 .. 0 |-> << parsed'.number, k - 1 >>] = <<>>
      OBVIOUS
    <3>2. parsed'.length - remaining' = 0
      BY <2>1, <2>3
    <3> QED
      BY <2>1, <3>1, <3>2
  <2>5. \A k \in index' .. parsed'.length - 1 : buffer'[k] = << parsed'.number, k >>
    BY <2>1, <2>3 DEF Copied
  <2>6. index' + remaining' = parsed'.length
    BY <2>1, <2>3
  <2> QED
    BY <2>1, <2>4, <2>5, <2>6 DEF ReadInv, ReadsThePacket, RestIsInBuffer
<1>3. CASE ParseFails
  BY <1>3 DEF ParseFails, ReadInv, ReadsThePacket, RestIsInBuffer
<1> QED
  BY <1>1, <1>2, <1>3

LEMMA ReadRead ==
    ASSUME ReceiveOK, ReadInv, NEW len \in ReadSizes, Read(len)
    PROVE  ReadInv'
<1>1. UNCHANGED << open, buffer, parsing, parsed >> /\ ~ parsing /\ open
  BY DEF Read, Idle
<1>2. CASE parsed = NoDatagram
  BY <1>1, <1>2 DEF ReadInv, ReadsThePacket, RestIsInBuffer
<1>3. CASE parsed # NoDatagram
  <2>1. PICK n \in 1 .. remaining :
          /\ got' = got \o [k \in 1 .. n |-> buffer[index + k - 1]]
          /\ index' = index + n /\ remaining' = remaining - n
    BY ReadCount
  <2>2. /\ index \in Nat /\ remaining \in Nat /\ parsed.length \in Nat /\ n \in Nat
    <3>1. parsed \in Datagrams
      BY <1>3 DEF ReceiveOK
    <3>2. parsed.length \in 0 .. socket_size
      BY <3>1, UdpAssumption DEF Datagrams
    <3> QED
      BY <3>2, UdpAssumption DEF ReceiveOK
  <2>3. /\ index + remaining = parsed.length
        /\ \A k \in index .. parsed.length - 1 : buffer[k] = << parsed.number, k >>
        /\ got = [k \in 1 .. parsed.length - remaining |-> << parsed.number, k - 1 >>]
    BY <1>1, <1>3 DEF ReadInv, ReadsThePacket, RestIsInBuffer
  <2>4. ASSUME NEW k \in 1 .. n
        PROVE  buffer[index + k - 1] = << parsed.number, index + k - 1 >>
    <3>1. index + k - 1 \in index .. parsed.length - 1
      BY <2>2, <2>3
    <3> QED
      BY <2>3, <3>1
  <2>5. [k \in 1 .. n |-> buffer[index + k - 1]]
          = [k \in 1 .. n |-> << parsed.number, index + k - 1 >>]
    BY <2>4
  <2>6. parsed.length - remaining = index /\ parsed.length - remaining' = index + n
    BY <2>1, <2>2, <2>3
  <2>7. [k \in 1 .. index |-> << parsed.number, k - 1 >>]
          \o [k \in 1 .. n |-> << parsed.number, index + k - 1 >>]
          = [k \in 1 .. index + n |-> << parsed.number, k - 1 >>]
    BY <2>2, BytesConcat
  <2>8. got' = [k \in 1 .. index + n |-> << parsed.number, k - 1 >>]
    BY <2>1, <2>3, <2>5, <2>6, <2>7
  <2>9. /\ index' + remaining' = parsed.length
        /\ \A k \in index' .. parsed.length - 1 : buffer[k] = << parsed.number, k >>
    <3>1. index' \in Nat /\ index <= index'
      BY <2>1, <2>2
    <3>2. \A k \in index' .. parsed.length - 1 : k \in index .. parsed.length - 1
      BY <2>2, <3>1
    <3>3. index' + remaining' = parsed.length
      BY <2>1, <2>2, <2>3
    <3> QED
      BY <2>3, <3>2, <3>3
  <2> QED
    BY <1>1, <1>3, <2>6, <2>8, <2>9 DEF ReadInv, ReadsThePacket, RestIsInBuffer
<1> QED
  BY <1>2, <1>3

LEMMA ReadStep ==
    ASSUME ReceiveOK, ReadInv, [Next]_vars
    PROVE  ReadInv'
<1>1. CASE Opens
  BY <1>1, OpensRead
<1>2. CASE Receives
  BY <1>2, ArriveRead, ParseRead, ReadRead DEF Receives
<1>3. CASE UNCHANGED << open, arrived, queue, received >>
  BY <1>3 DEF received, ReadInv, ReadsThePacket, RestIsInBuffer
<1> QED
  BY <1>1, <1>2, <1>3, Steps DEF vars

-----------------------------------------------------------------------------
(* Sending. *)

\* From a beginPacket that returned 1 on, the buffer holds the packet and
\* length, offset and what the caller wrote agree.
SendInv ==
    /\ packet.result =>
         /\ buf_len = offset /\ packet.written = offset
         /\ address = packet.to
         /\ \A k \in 0 .. offset - 1 : transmit[k] = << packet.number, k >>
    /\ SentAsWritten

LEMMA WriteSent ==
    ASSUME "heedless" \notin Habits, SendOK, SendInv, NEW size \in WriteSizes, Write(size)
    PROVE  SendInv'
<1>1. packet.result
  BY DEF Write, MayWrite
<1>2. /\ buf_len = offset /\ packet.written = offset /\ address = packet.to
      /\ \A k \in 0 .. offset - 1 : transmit[k] = << packet.number, k >>
  BY <1>1 DEF SendInv
<1>3. PICK n \in 0 .. DefaultSize :
        /\ offset + n <= DefaultSize /\ offset' = offset + n
        /\ buf_len' = (buf_len + n) % Width
        /\ packet' = [packet EXCEPT !.written = @ + n]
        /\ transmit' = [k \in 0 .. DefaultSize - 1 |->
              IF k >= offset /\ k < offset + n
              THEN << packet.number, packet.written + k - offset >>
              ELSE transmit[k]]
  BY WriteTakes
<1>4. /\ offset \in Nat /\ DefaultSize \in Nat /\ Width \in Nat \ {0}
      /\ DefaultSize < Width /\ packet \in Packets
  BY UdpAssumption DEF SendOK
<1>5. buf_len' = offset'
  <2>1. offset + n \in 0 .. Width - 1
    BY <1>3, <1>4
  <2>2. (offset + n) % Width = offset + n
    BY <1>4, <2>1, ModSmall
  <2> QED
    BY <1>2, <1>3, <2>2
<1>6. /\ packet'.number = packet.number /\ packet'.to = packet.to
      /\ packet'.written = offset'
  BY <1>2, <1>3, <1>4 DEF Packets
<1>7. ASSUME NEW k \in 0 .. offset' - 1
      PROVE  transmit'[k] = << packet.number, k >>
  <2>1. k \in 0 .. DefaultSize - 1
    BY <1>3, <1>4
  <2>2. CASE k < offset
    BY <1>2, <1>3, <1>4, <2>1, <2>2
  <2>3. CASE k >= offset
    <3>0. offset' = offset + n /\ packet.written = offset /\ n \in Nat
      BY <1>2, <1>3, <1>4
    <3>1. k < offset + n /\ packet.written + k - offset = k
      BY <1>4, <2>1, <3>0
    <3>2. transmit'[k] = IF k >= offset /\ k < offset + n
                         THEN << packet.number, packet.written + k - offset >>
                         ELSE transmit[k]
      BY <1>3, <2>1
    <3>3. transmit'[k] = << packet.number, packet.written + k - offset >>
      BY <2>3, <3>1, <3>2
    <3> QED
      BY <3>1, <3>3
  <2> QED
    BY <1>4, <2>1, <2>2, <2>3
<1>8. UNCHANGED << address, sent >>
  BY DEF Write
<1>9. SentAsWritten'
  BY <1>6, <1>8 DEF SendInv, SentAsWritten
<1> QED
  BY <1>2, <1>5, <1>6, <1>7, <1>8, <1>9 DEF SendInv

LEMMA EndSent ==
    ASSUME "heedless" \notin Habits, DefaultSize <= socket_size,
           SendOK, SendInv, EndPacket
    PROVE  SendInv'
<1>1. packet.result
  BY DEF EndPacket, MayWrite
<1>2. /\ buf_len = offset /\ packet.written = offset /\ address = packet.to
      /\ \A k \in 0 .. offset - 1 : transmit[k] = << packet.number, k >>
  BY <1>1 DEF SendInv
<1>3. offset \in 0 .. DefaultSize /\ DefaultSize \in Nat /\ socket_size \in Nat
  BY UdpAssumption DEF SendOK
<1> DEFINE bytes == [k \in 1 .. buf_len |->
                       IF k <= socket_size /\ k <= DefaultSize
                       THEN transmit[k - 1] ELSE NoByte]
<1>4. bytes = [k \in 1 .. packet.written |-> << packet.number, k - 1 >>]
  <2>1. ASSUME NEW k \in 1 .. buf_len
        PROVE  /\ k <= socket_size /\ k <= DefaultSize
               /\ transmit[k - 1] = << packet.number, k - 1 >>
    BY <1>2, <1>3
  <2> QED
    BY <1>2, <2>1
<1>5. sent' = [to |-> address, bytes |-> bytes, written |-> packet.written]
  BY DEF EndPacket
<1>6. /\ sent'.to = packet.to /\ sent'.written = packet.written
      /\ sent'.bytes = [k \in 1 .. packet.written |-> << packet.number, k - 1 >>]
  <2> HIDE DEF bytes
  <2> QED
    BY <1>2, <1>4, <1>5
<1>7. UNCHANGED << transmit, buf_len, offset, address, packet >>
  BY DEF EndPacket
<1> QED
  BY <1>2, <1>6, <1>7 DEF SendInv, SentAsWritten

LEMMA BeginSent ==
    ASSUME SendOK, NEW to \in Receivers, BeginPacket(to) \/ BeginPacketUnresolved(to)
    PROVE  SendInv'
<1>1. sent' = NotSent
  BY DEF BeginPacket, BeginPacketUnresolved
<1>2. CASE packet' = Begun(FALSE, to)
  BY <1>1, <1>2 DEF SendInv, SentAsWritten, Begun
<1>3. CASE BeginPacket(to) /\ packet' = Begun(TRUE, to) /\ buf_len' = 0 /\ address' = to
  <2>1. offset' = 0
    BY <1>3 DEF BeginPacket
  <2> QED
    BY <1>1, <1>3, <2>1 DEF SendInv, SentAsWritten, Begun
<1> QED
  BY <1>2, <1>3 DEF BeginPacket, BeginPacketUnresolved, LengthAtStart

LEMMA SendStep ==
    ASSUME "heedless" \notin Habits, DefaultSize <= socket_size,
           SendOK, SendInv, [Next]_vars
    PROVE  SendInv'
<1>1. CASE Opens
  <2>1. packet' = [packet EXCEPT !.result = FALSE] /\ sent' = NotSent
    BY <1>1 DEF Opens, Begin, BeginMulticast, StopUdp, Forgotten
  <2>2. ~ packet'.result
    BY <2>1 DEF SendOK, Packets
  <2> QED
    BY <2>1, <2>2 DEF SendInv, SentAsWritten
<1>2. CASE Sends
  BY <1>2, BeginSent, WriteSent, EndSent DEF Sends
<1>3. CASE UNCHANGED outgoing
  BY <1>3 DEF outgoing, SendInv, SentAsWritten
<1> QED
  BY <1>1, <1>2, <1>3, Steps DEF vars

-----------------------------------------------------------------------------

LEMMA TypesAlways == Spec => [](ReceiveOK /\ SendOK)
<1>1. ReceiveOK /\ SendOK /\ [Next]_vars => (ReceiveOK /\ SendOK)'
  BY TypeStep
<1> QED
  BY <1>1, InitTypes, PTL DEF Spec

\* Lengths stay in 16 bits and indices in their buffers, also when a call fails
\* and the caller goes on, and when an entry was used by somebody else before.
THEOREM TypeCorrect == Spec => []TypeOK
BY TypesAlways, TypesHold, PTL

\* The packet that parsePacket returned is the packet that is read, from its
\* first byte on, although datagrams arrive between its two calls of FNET,
\* packets are left half read, and calls fail.
THEOREM ParsedIsRead == Spec => []ReadsThePacket
<1>1. Init => ReadInv
  BY DEF Init, ReadInv, ReadsThePacket, RestIsInBuffer
<1>2. ReceiveOK /\ ReadInv /\ [Next]_vars => ReadInv'
  BY ReadStep
<1>3. ReadInv => ReadsThePacket
  BY DEF ReadInv
<1> QED
  BY <1>1, <1>2, <1>3, TypesAlways, PTL DEF Spec

\* What a caller that looks at the results of its calls wrote since beginPacket
\* is what endPacket sends, as long as socket_size is not less than the constant
\* socketBufferData compares with.
THEOREM WrittenIsSent ==
    "heedless" \notin Habits /\ DefaultSize <= socket_size
        => (Spec => []SentAsWritten)
<1> SUFFICES ASSUME "heedless" \notin Habits, DefaultSize <= socket_size
             PROVE  Spec => []SentAsWritten
  OBVIOUS
<1>1. Init => SendInv
  BY DEF Init, SendInv, SentAsWritten
<1>2. SendOK /\ SendInv /\ [Next]_vars => SendInv'
  BY SendStep
<1>3. SendInv => SentAsWritten
  BY DEF SendInv
<1> QED
  BY <1>1, <1>2, <1>3, TypesAlways, PTL DEF Spec
=============================================================================
