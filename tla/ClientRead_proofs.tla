--------------------------- MODULE ClientRead_proofs ---------------------------
(***************************************************************************)
(* Proofs about the receive path, for every buffer size, every stream and  *)
(* every way it is cut into segments.                                      *)
(***************************************************************************)
EXTENDS ClientRead, TLAPS, SequenceTheorems

\* Numbers counted up from a form a sequence.
LEMMA CountUpSeq ==
    ASSUME NEW a \in Int, NEW n \in Nat, NEW S, \A k \in 1 .. n : a + k \in S
    PROVE  [k \in 1 .. n |-> a + k] \in Seq(S)
<1>1. [k \in 1 .. n |-> a + k] \in [1 .. n -> S]
  OBVIOUS
<1> QED
  BY <1>1

\* Numbers counted up from a, followed by those that come next, are numbers
\* counted up from a.
LEMMA CountUpConcat ==
    ASSUME NEW a \in Int, NEW m \in Nat, NEW n \in Nat
    PROVE  [k \in 1 .. m |-> a + k] \o [k \in 1 .. n |-> a + m + k]
             = [k \in 1 .. m + n |-> a + k]
<1> DEFINE s == [k \in 1 .. m |-> a + k]
           t == [k \in 1 .. n |-> a + m + k]
           r == [k \in 1 .. m + n |-> a + k]
<1>1. s \in Seq(Int) /\ t \in Seq(Int) /\ r \in Seq(Int)
  BY CountUpSeq
<1>2. Len(s) = m /\ Len(t) = n /\ Len(r) = m + n
  OBVIOUS
<1>3. s \o t \in Seq(Int) /\ Len(s \o t) = m + n
  BY <1>1, <1>2
<1>4. \A k \in 1 .. m + n : (s \o t)[k] = r[k]
  <2> SUFFICES ASSUME NEW k \in 1 .. m + n PROVE (s \o t)[k] = r[k]
    OBVIOUS
  <2>1. (s \o t)[k] = IF k <= Len(s) THEN s[k] ELSE t[k - Len(s)]
    BY <1>1, <1>2, ConcatProperties
  <2>2. CASE k <= m
    BY <2>1, <2>2, <1>2
  <2>3. CASE k > m
    BY <2>1, <2>3, <1>2
  <2> QED
    BY <2>2, <2>3
<1> HIDE DEF s, t, r
<1>5. s \o t = r
  BY <1>1, <1>2, <1>3, <1>4, SeqEqual
<1> QED
  BY <1>5 DEF s, t, r

-----------------------------------------------------------------------------

\* What is left to read is what the last receive put at the index of the
\* buffer, and what was read is what came before it since the client was made.
ReadInv ==
    /\ TypeOK
    /\ client # "read" => remaining >= 0 /\ from <= taken - remaining
    /\ client = "none" => remaining = 0 /\ from = taken
    /\ RestIsInBuffer
    /\ ReadsTheStream
    /\ LineIsAsSent

\* The empty count.
LEMMA CountUpNone ==
    ASSUME NEW a \in Int
    PROVE  [k \in 1 .. 0 |-> a + k] = << >>
OBVIOUS

\* A read of no more bytes than are left returns the next ones.
LEMMA CarefulRead ==
    ASSUME ReadInv, NEW len \in Nat, 0 < remaining, len <= remaining,
           client = "made", SocketRecv(len), UNCHANGED client
    PROVE  ReadInv'
<1> DEFINE next == taken - remaining - from
<1>1. /\ index + remaining <= socket_size
      /\ \A k \in 0 .. remaining - 1 : buffer[index + k] = taken - remaining + k + 1
  BY DEF ReadInv, RestIsInBuffer
<1>2. /\ socket_size \in Nat /\ remaining \in Nat /\ index \in Nat /\ taken \in Nat
      /\ from \in Nat /\ next \in Nat /\ MaxBytes \in Nat /\ arrived \in Nat
  BY ReadAssumption DEF ReadInv, TypeOK
<1>3. Count(len) = len
  BY <1>1, <1>2 DEF Count
<1>4. index' = index + len /\ remaining' = remaining - len
  BY <1>3 DEF SocketRecv, IndexAfter
<1>5. UNCHANGED << arrived, taken, buffer, from, client >>
  BY DEF SocketRecv
<1>6. [k \in 1 .. len |-> buffer[index + k - 1]] = [k \in 1 .. len |-> from + next + k]
  <2> SUFFICES ASSUME NEW k \in 1 .. len
               PROVE  buffer[index + k - 1] = from + next + k
    OBVIOUS
  <2>1. k - 1 \in 0 .. remaining - 1
    BY <1>2
  <2>2. buffer[index + (k - 1)] = taken - remaining + (k - 1) + 1
    BY <1>1, <2>1
  <2> QED
    BY <2>2, <1>2
<1>7. got = [k \in 1 .. next |-> from + k]
  BY DEF ReadInv, ReadsTheStream
<1>8. got' = got \o [k \in 1 .. len |-> from + next + k]
  BY <1>3, <1>6 DEF SocketRecv
<1>9. got' = [k \in 1 .. next + len |-> from + k]
  <2> HIDE DEF next
  <2>1. [k \in 1 .. next |-> from + k] \o [k \in 1 .. len |-> from + next + k]
          = [k \in 1 .. next + len |-> from + k]
    BY <1>2, CountUpConcat
  <2> QED
    BY <1>7, <1>8, <2>1
<1>10. next + len = taken' - remaining' - from'
  BY <1>2, <1>4, <1>5
<1>11. ReadsTheStream'
  <2> HIDE DEF next
  <2> QED
    BY <1>5, <1>9, <1>10 DEF ReadsTheStream
<1>12. RestIsInBuffer'
  <2> SUFFICES ASSUME remaining' > 0
               PROVE  /\ index' + remaining' <= socket_size
                      /\ \A k \in 0 .. remaining' - 1 :
                            buffer[index' + k] = taken - remaining' + k + 1
    BY <1>5 DEF RestIsInBuffer
  <2>1. index' + remaining' <= socket_size
    BY <1>1, <1>2, <1>4
  <2>2. ASSUME NEW k \in 0 .. remaining' - 1
        PROVE  buffer[index' + k] = taken - remaining' + k + 1
    <3>1. len + k \in 0 .. remaining - 1
      BY <1>2, <1>4
    <3>2. buffer[index + (len + k)] = taken - remaining + (len + k) + 1
      BY <1>1, <3>1
    <3> QED
      BY <3>2, <1>2, <1>4
  <2> QED
    BY <2>1, <2>2
<1>13. got' \in Seq(0 .. MaxBytes)
  <2>1. /\ from \in Int /\ next + len \in Nat
        /\ \A k \in 1 .. next + len : from + k \in 0 .. MaxBytes
    BY <1>2 DEF ReadInv, TypeOK
  <2> HIDE DEF next
  <2> DEFINE n == next + len
             S == 0 .. MaxBytes
  <2>2. from \in Int /\ n \in Nat /\ \A k \in 1 .. n : from + k \in S
    BY <2>1
  <2>3. [k \in 1 .. n |-> from + k] \in Seq(S)
    <3> HIDE DEF n, S
    <3> QED
      BY <2>2, CountUpSeq
  <2> QED
    BY <1>9, <2>3
<1>14. TypeOK'
  BY <1>1, <1>2, <1>4, <1>5, <1>13 DEF TypeOK, ReadInv
<1> QED
  BY <1>2, <1>4, <1>5, <1>11, <1>12, <1>14 DEF ReadInv, LineIsAsSent

\* What a receive copies: the bytes FNET holds, at the start of the buffer.
LEMMA ReceivedBytes ==
    ASSUME TypeOK
    PROVE  /\ Received \in [0 .. socket_size - 1 -> 0 .. MaxBytes]
           /\ \A k \in 0 .. arrived - taken - 1 : Received[k] = taken + k + 1
<1>1. /\ socket_size \in Nat /\ MaxBytes \in Nat /\ arrived \in Nat /\ taken \in Nat
      /\ arrived <= MaxBytes /\ arrived - taken <= socket_size
      /\ \A k \in 0 .. socket_size - 1 : buffer[k] \in 0 .. MaxBytes
  BY ReadAssumption DEF TypeOK
<1>2. \A k \in 0 .. socket_size - 1 :
        (IF k < arrived - taken THEN taken + k + 1 ELSE buffer[k]) \in 0 .. MaxBytes
  BY <1>1
<1>3. \A k \in 0 .. arrived - taken - 1 :
        k \in 0 .. socket_size - 1 /\ k < arrived - taken
  BY <1>1
<1> QED
  BY <1>2, <1>3 DEF Received

\* The first read of a line: when what was received holds a '\r', it returns
\* what was received up to the first one.
LEMMA LineRead ==
    ASSUME ReadInv, ReadLine
    PROVE  LineIsAsSent'
<1>1. /\ client = "made" /\ remaining > 0 /\ got = << >>
      /\ client' = "read"
  BY DEF ReadLine
<1>2. /\ socket_size \in Nat /\ remaining \in Nat /\ index \in Nat /\ taken \in Nat
      /\ from \in Nat /\ taken - remaining - from \in Nat
  BY <1>1, ReadAssumption DEF ReadInv, TypeOK
<1>3. from = taken - remaining
  <2> DEFINE next == taken - remaining - from
  <2>1. got = [k \in 1 .. next |-> from + k]
    BY <1>1 DEF ReadInv, ReadsTheStream
  <2>2. Len([k \in 1 .. next |-> from + k]) = next
    BY <1>2
  <2>3. Len(got) = 0
    BY <1>1
  <2>4. next = 0
    <3> HIDE DEF next
    <3> QED
      BY <2>1, <2>2, <2>3
  <2> QED
    BY <1>2, <2>4
<1>4. /\ index + remaining <= socket_size
      /\ \A k \in 0 .. remaining - 1 : buffer[index + k] = from + k + 1
  BY <1>1, <1>3 DEF ReadInv, RestIsInBuffer
<1>5. UNCHANGED << taken, from >>
  BY DEF ReadLine, SocketRecv
<1>6. ASSUME NEW end \in ReturnsReceived, \A k \in ReturnsReceived : end <= k
      PROVE  got' = [k \in 1 .. end - from |-> from + k]
  <2> DEFINE last == index + (end - from - 1)
  <2>1. /\ end \in from + 1 .. taken /\ end \in Returns
        /\ end - from - 1 \in 0 .. remaining - 1
    BY <1>2, <1>3, <1>6 DEF ReturnsReceived
  <2>2. buffer[last] = from + (end - from - 1) + 1
    BY <1>4, <2>1
  <2>3. buffer[last] = end
    BY <1>2, <2>1, <2>2
  <2>4. last \in LineEnds
    BY <1>2, <1>4, <2>1, <2>3 DEF LineEnds
  <2>5. PICK e \in LineEnds : /\ \A k \in LineEnds : e <= k
                              /\ SocketRecv(e - index + 1)
    BY <2>4 DEF ReadLine
  <2>6. e \in index .. last
    BY <2>4, <2>5 DEF LineEnds
  <2>7. /\ e - index \in 0 .. remaining - 1
        /\ buffer[index + (e - index)] = from + (e - index) + 1
    BY <1>2, <1>4, <2>1, <2>6
  <2>8. from + (e - index) + 1 \in ReturnsReceived
    BY <1>2, <1>3, <2>6, <2>7 DEF LineEnds, ReturnsReceived
  <2>9. end <= from + (e - index) + 1
    BY <1>6, <2>8
  <2>10. e = last /\ e - index + 1 = end - from
    BY <1>2, <2>1, <2>6, <2>9
  <2>11. Count(end - from) = end - from
    BY <1>2, <1>4, <2>1 DEF Count
  <2>12. SocketRecv(end - from)
    BY <2>5, <2>10
  <2>13. got' = got \o [k \in 1 .. end - from |-> buffer[index + k - 1]]
    BY <2>11, <2>12 DEF SocketRecv
  <2>14. [k \in 1 .. end - from |-> buffer[index + k - 1]]
           = [k \in 1 .. end - from |-> from + k]
    <3> SUFFICES ASSUME NEW k \in 1 .. end - from
                 PROVE  buffer[index + k - 1] = from + k
      OBVIOUS
    <3>1. k - 1 \in 0 .. remaining - 1
      BY <1>2, <2>1
    <3>2. buffer[index + (k - 1)] = from + (k - 1) + 1
      BY <1>4, <3>1
    <3> QED
      BY <1>2, <3>2
  <2>15. [k \in 1 .. end - from |-> from + k] \in Seq(Int)
    BY <1>2, <2>1, CountUpSeq
  <2> QED
    BY <1>1, <2>13, <2>14, <2>15
<1>7. from' = from /\ ReturnsReceived' = ReturnsReceived
  BY <1>5 DEF ReturnsReceived
<1> QED
  BY <1>6, <1>7 DEF LineIsAsSent

LEMMA ReadStep ==
    ASSUME ReadInv, [Next]_vars
    PROVE  ReadInv'
<1>0. /\ TypeOK /\ socket_size \in Nat \ {0} /\ MaxBytes \in Nat
      /\ arrived \in Nat /\ taken \in Nat /\ from \in Nat /\ remaining \in Int
      /\ arrived - taken \in Nat
  BY ReadAssumption DEF ReadInv, TypeOK
<1>1. CASE Arrive
  <2>1. PICK end \in Segments : /\ end > arrived /\ end - taken <= socket_size
                                /\ arrived' = end
    BY <1>1 DEF Arrive
  <2>2. UNCHANGED << taken, buffer, index, remaining, from, client, got >>
    BY <1>1 DEF Arrive, clientVars
  <2>3. TypeOK'
    BY <1>0, <2>1, <2>2, ReadAssumption DEF TypeOK
  <2> QED
    BY <2>2, <2>3 DEF ReadInv, RestIsInBuffer, ReadsTheStream, LineIsAsSent,
                      ReturnsReceived
<1>2. CASE ServerAvailable
  <2>1. got' = [k \in 1 .. taken' - remaining' - from' |-> from' + k]
    BY <1>0, <1>2, CountUpNone DEF ServerAvailable
  <2>2. TypeOK'
    BY <1>0, <1>2, ReceivedBytes DEF ServerAvailable, TypeOK
  <2> QED
    BY <1>0, <1>2, <2>1, <2>2 DEF ServerAvailable, ReadInv, RestIsInBuffer,
                                  ReadsTheStream, LineIsAsSent
<1>3. CASE ClientAvailable
  <2>1. CASE NothingLeft
    <3>1. /\ buffer' = Received /\ index' = 0 /\ remaining' = arrived - taken
          /\ taken' = arrived /\ remaining = 0
          /\ UNCHANGED << arrived, from, client, got >> /\ client = "made"
      BY <1>3, <2>1 DEF ClientAvailable, NothingLeft, IndexAfterReceive, clientVars
    <3>2. TypeOK'
      BY <1>0, <3>1, ReceivedBytes DEF TypeOK
    <3>3. RestIsInBuffer'
      BY <1>0, <3>1, ReceivedBytes DEF TypeOK, RestIsInBuffer
    <3>4. taken' - remaining' - from' = taken - remaining - from
      BY <1>0, <3>1
    <3>5. ReadsTheStream'
      BY <3>1, <3>4 DEF ReadInv, ReadsTheStream
    <3> QED
      BY <1>0, <3>1, <3>2, <3>3, <3>4, <3>5 DEF ReadInv, LineIsAsSent
  <2>2. CASE ~NothingLeft
    BY <1>3, <2>2 DEF ClientAvailable, clientVars, ReadInv, TypeOK, RestIsInBuffer,
                      ReadsTheStream, LineIsAsSent
  <2> QED
    BY <2>1, <2>2
<1>4. CASE ReadByte
  BY <1>0, <1>4, CarefulRead DEF ReadByte, MayRead
<1>5. ASSUME NEW size \in Sizes, Read(size)
      PROVE  ReadInv'
  <2>1. SizeLimited(size) \in Nat /\ SizeLimited(size) <= remaining
    BY <1>0, <1>5, ReadAssumption DEF Read, MayRead, SizeLimited
  <2> QED
    BY <1>5, <2>1, CarefulRead DEF Read, MayRead
<1>6. CASE ReadLine
  <2>1. PICK n \in Nat : SocketRecv(n) /\ index + n <= socket_size
    <3>1. CASE LineEnds = {}
      BY <1>0, <1>6, <3>1 DEF ReadLine, TypeOK
    <3>2. CASE LineEnds # {}
      <4>1. PICK e \in LineEnds : SocketRecv(e - index + 1)
        BY <1>6, <3>2 DEF ReadLine
      <4> QED
        BY <1>0, <4>1 DEF LineEnds, TypeOK
    <3> QED
      BY <3>1, <3>2
  <2>2. Count(n) = n
    BY <1>0, <2>1 DEF Count, TypeOK
  <2>3. /\ index' = index + n /\ remaining' = remaining - n
        /\ got' = got \o [k \in 1 .. n |-> buffer[index + k - 1]]
        /\ UNCHANGED << arrived, taken, buffer, from >>
    BY <2>1, <2>2 DEF SocketRecv, IndexAfter
  <2>4. [k \in 1 .. n |-> buffer[index + k - 1]] \in Seq(0 .. MaxBytes)
    <3>1. \A k \in 1 .. n : buffer[index + k - 1] \in 0 .. MaxBytes
      BY <1>0, <2>1 DEF TypeOK
    <3> QED
      BY <3>1
  <2>5. got' \in Seq(0 .. MaxBytes)
    BY <1>0, <2>3, <2>4 DEF TypeOK
  <2>6. client = "made" /\ client' = "read" /\ remaining > 0
    BY <1>6 DEF ReadLine
  <2>7. TypeOK'
    BY <1>0, <2>1, <2>3, <2>5, <2>6 DEF TypeOK
  <2> QED
    BY <1>6, <2>6, <2>7, LineRead DEF ReadInv, RestIsInBuffer, ReadsTheStream
<1>7. CASE UNCHANGED vars
  BY <1>7 DEF vars, ReadInv, TypeOK, RestIsInBuffer, ReadsTheStream, LineIsAsSent,
              ReturnsReceived
<1> QED
  BY <1>1, <1>2, <1>3, <1>4, <1>5, <1>6, <1>7 DEF Next

LEMMA ReadInvariant == Spec => []ReadInv
<1>1. Init => ReadInv
  <2> SUFFICES ASSUME Init PROVE ReadInv
    OBVIOUS
  <2>1. got = [k \in 1 .. taken - remaining - from |-> from + k]
    BY CountUpNone DEF Init
  <2>2. TypeOK
    BY ReadAssumption DEF Init, TypeOK
  <2> QED
    BY <2>1, <2>2 DEF Init, ReadInv, RestIsInBuffer, ReadsTheStream, LineIsAsSent
<1>2. ReadInv /\ [Next]_vars => ReadInv'
  BY ReadStep
<1> QED
  BY <1>1, <1>2, PTL DEF Spec

\* Type correctness: the index never leaves the buffer, FNET never holds more
\* than its own, and _remaining, which goes below 0 when a line has no end in
\* the buffer, does so by no more than a buffer's size.
THEOREM TypeCorrect == Spec => []TypeOK
<1>1. ReadInv => TypeOK
  BY DEF ReadInv
<1> QED
  BY <1>1, ReadInvariant, PTL

\* Callers that read only what available() announced get the peer's stream: in
\* order, nothing twice, nothing left out, no byte of an earlier request.
THEOREM ReadsAreTheStream == Spec => []ReadsTheStream
<1>1. ReadInv => ReadsTheStream
  BY DEF ReadInv
<1> QED
  BY <1>1, ReadInvariant, PTL

\* A line that was received whole is read as it was sent: no byte of it is
\* lost, and none of an earlier request is taken for one of it.
THEOREM LinesAreAsSent == Spec => []LineIsAsSent
<1>1. ReadInv => LineIsAsSent
  BY DEF ReadInv
<1> QED
  BY <1>1, ReadInvariant, PTL
================================================================================
