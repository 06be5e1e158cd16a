-------------------------- MODULE XptReceiveProofs --------------------------
(***************************************************************************)
(* Proofs about XptReceive, for every initial buffer size of at least a    *)
(* header, every size limit and every set of byte streams.                 *)
(***************************************************************************)
EXTENDS XptReceive, SequenceTheorems, TLAPS

(* Where the packet now being received starts. *)
Start == rpos - recvIndex

(* The bytes in the buffer are the stream's, from Start on. *)
BufferIsStream ==
    /\ recvIndex <= rpos
    /\ buffer = SubSeq(stream, Start + 1, rpos)

(* The receive state of a live client: it stands right after the packets   *)
(* delivered so far, and what it remembers of the header is the header.    *)
HeaderRemembered ==
    pc # "gone" =>
        /\ Start = NextAt(stream, delivered)
        /\ recvIndex < 4 => recvSize = 0
        /\ recvIndex >= 4 =>
              /\ recvSize = HeaderSize(HeaderAt(stream, Start))
              /\ opcode = HeaderOpcode(HeaderAt(stream, Start))
              /\ opcode \in Byte
              /\ recvSize < SizeLimit

IInv ==
    /\ TypeOK
    /\ BufferLargeEnough
    /\ NoLostEdge
    /\ BufferIsStream
    /\ HeaderRemembered

-----------------------------------------------------------------------------
(* A header of four bytes announces an opcode and a size.                  *)
LEMMA HeaderTypes ==
    ASSUME NEW b \in Seq(Byte), Len(b) >= 4
    PROVE  HeaderSize(b) \in Nat /\ HeaderOpcode(b) \in Byte
<1>1. Len(b) \in Nat /\ \A i \in 1..Len(b) : b[i] \in Byte
  BY ElementOfSeq, LenProperties
<1>2. b[1] \in Byte /\ b[2] \in Byte /\ b[3] \in Byte /\ b[4] \in Byte
  BY <1>1
<1>3. PICK x \in 0..255, y \in 0..255, z \in 0..255 :
          b[2] = x /\ b[3] = y /\ b[4] = z
  BY <1>2, Zenon DEF Byte
<1>4. x + 256 * y + 65536 * z \in Nat
  OBVIOUS
<1> QED
  BY <1>2, <1>3, <1>4 DEF HeaderSize, HeaderOpcode

(* What read() of n bytes makes of the buffer: the stream from Start on.   *)
LEMMA FilledIsStream ==
    ASSUME IInv, NEW n \in 1..BytesToReceive, Receive(n)
    PROVE  /\ Filled(n) \in Seq(Byte)
           /\ Len(Filled(n)) = recvIndex + n
           /\ Filled(n) = SubSeq(stream, Start + 1, rpos + n)
           /\ rpos + n \in 0..sent
           /\ recvIndex + n <= PacketFullSize
           /\ n \in Nat /\ recvIndex \in Nat /\ rpos \in Nat /\ Start \in Nat
<1> USE DEF recvIndex
<1>1. /\ stream \in Seq(Byte) /\ buffer \in Seq(Byte) /\ rpos \in 0..sent
      /\ sent \in 0..Len(stream) /\ Len(stream) \in Nat /\ Len(buffer) \in Nat
      /\ recvSize \in Nat
  BY DEF IInv, TypeOK
<1>2. n \in Nat /\ n <= sent - rpos /\ recvIndex + n <= PacketFullSize
  BY <1>1 DEF Receive, BytesToReceive, PacketFullSize
<1>3. buffer = SubSeq(stream, Start + 1, rpos) /\ Start \in Nat /\ Start <= rpos
  BY <1>1 DEF IInv, BufferIsStream, Start
<1>4. Filled(n) = SubSeq(stream, Start + 1, rpos + n)
  <2>1. /\ Start + 1 \in 1..Len(stream) + 1
        /\ rpos \in (Start + 1) - 1 .. Len(stream)
        /\ rpos + n \in rpos .. Len(stream)
    BY <1>1, <1>2, <1>3
  <2> QED
    BY <1>1, <1>3, <2>1, ConcatAdjacentSubSeq DEF Filled
<1>5. SubSeq(stream, rpos + 1, rpos + n) \in Seq(Byte)
      /\ Len(SubSeq(stream, rpos + 1, rpos + n)) = n
  <2>1. \A i \in rpos + 1 .. rpos + n : stream[i] \in Byte
    BY <1>1, <1>2, ElementOfSeq
  <2> QED
    BY <1>1, <1>2, <2>1, SubSeqProperties
<1>6. Filled(n) \in Seq(Byte) /\ Len(Filled(n)) = recvIndex + n
  BY <1>1, <1>5, ConcatProperties DEF Filled
<1> QED
  BY <1>1, <1>2, <1>3, <1>4, <1>6

-----------------------------------------------------------------------------
(* The initial states satisfy the inductive invariant.                     *)
LEMMA InitIInv == Init => IInv
<1> SUFFICES ASSUME Init PROVE IInv
  OBVIOUS
<1> USE DEF Init, recvIndex
<1>1. stream \in Seq(Byte) /\ Len(stream) \in Nat /\ Len(buffer) = 0
  BY StreamAssumption, LenProperties
<1>2. TypeOK
  <2>1. buffer \in Seq(Byte)
        /\ delivered \in Seq([at : Nat, opcode : Byte, data : Seq(Byte)])
    OBVIOUS
  <2>2. bufferLimit \in Nat
    BY LimitAssumption
  <2>3. sent \in 0..Len(stream) /\ rpos \in 0..sent
    BY <1>1
  <2> QED
    BY <1>1, <2>1, <2>2, <2>3 DEF TypeOK
<1>3. BufferLargeEnough
  BY <1>1, LimitAssumption DEF BufferLargeEnough, PacketFullSize
<1>4. NoLostEdge
  BY DEF NoLostEdge
<1>5. BufferIsStream
  BY <1>1, SubSeqEmpty DEF BufferIsStream, Start
<1>6. HeaderRemembered
  <2>1. Start = 0 /\ NextAt(stream, delivered) = 0
    <3>1. Start = 0
      <4> HIDE DEF Init, recvIndex
      <4>1. rpos = 0 /\ recvIndex = 0
        BY <1>1 DEF Init, recvIndex
      <4> QED
        BY <4>1 DEF Start
    <3>2. NextAt(stream, delivered) = 0
      BY Zenon DEF NextAt
    <3> QED
      BY <3>1, <3>2
  <2>2. recvSize = 0 /\ ~(recvIndex >= 4)
    BY <1>1
  <2> QED
    BY <2>1, <2>2 DEF HeaderRemembered
<1> QED
  BY <1>2, <1>3, <1>4, <1>5, <1>6 DEF IInv

(* Bytes that arrive, a hangup, and the steps of the thread that read      *)
(* nothing leave the receive state of the client alone.                    *)
LEMMA QuietIInv ==
    ASSUME IInv,
           \/ \E n \in 1..Len(stream) : Arrive(n)
           \/ \E how \in {"fin", "reset"} : Hangup(how)
           \/ EventIn \/ EventError \/ ReadAgain \/ ReadFails
           \/ UNCHANGED vars
    PROVE  IInv'
<1> USE DEF recvIndex, PacketFullSize, Start, vars, socketVars, clientVars
<1>1. stream' = stream /\ UNCHANGED clientVars /\ (pc' # "gone" => pc # "gone")
  BY DEF Arrive, Hangup, EventIn, EventError, ReadAgain, ReadFails
<1>2. TypeOK'
  <2> USE DEF IInv, TypeOK, Arrive, Hangup, EventIn, EventError, ReadAgain, ReadFails
  <2>1. sent' \in 0..Len(stream) /\ rpos \in 0..sent'
    <3>1. Len(stream) \in Nat
      BY LenProperties
    <3> QED
      BY <3>1
  <2>2. /\ closed' \in {"open", "fin", "reset"}
        /\ pc' \in {"wait", "reading", "gone"}
    OBVIOUS
  <2>3. edge' \in BOOLEAN
    BY Zenon
  <2> QED
    BY <1>1, <2>1, <2>2, <2>3
<1>3. BufferLargeEnough'
  BY <1>1 DEF IInv, BufferLargeEnough
<1>4. NoLostEdge'
  BY <1>1 DEF IInv, TypeOK, NoLostEdge, Arrive, Hangup, EventIn, EventError,
              ReadAgain, ReadFails
<1>5. BufferIsStream'
  BY <1>1 DEF IInv, BufferIsStream
<1>6. HeaderRemembered'
  BY <1>1 DEF IInv, HeaderRemembered, NextAt
<1> QED
  BY <1>2, <1>3, <1>4, <1>5, <1>6 DEF IInv

-----------------------------------------------------------------------------
(* A read that completes neither the header nor the data.                  *)
LEMMA PartIInv ==
    ASSUME IInv, NEW n \in 1..BytesToReceive, ReadPart(n)
    PROVE  IInv'
<1>1. Receive(n)
  BY DEF ReadPart
<1>2. /\ Filled(n) \in Seq(Byte)
      /\ Len(Filled(n)) = recvIndex + n
      /\ Filled(n) = SubSeq(stream, Start + 1, rpos + n)
      /\ rpos + n \in 0..sent
      /\ n \in Nat /\ recvIndex \in Nat /\ rpos \in Nat /\ Start \in Nat
  BY <1>1, FilledIsStream
<1>3. /\ rpos' = rpos + n /\ buffer' = Filled(n) /\ pc' = pc /\ pc = "reading"
      /\ UNCHANGED <<stream, sent, closed, edge, bufferLimit, recvSize, opcode, delivered>>
      /\ recvIndex + n < PacketFullSize
  BY DEF ReadPart, Receive, socketVars
<1>4. recvIndex' = recvIndex + n /\ Start' = Start /\ PacketFullSize' = PacketFullSize
  BY <1>2, <1>3 DEF recvIndex, Start, PacketFullSize
<1>5. TypeOK'
  BY <1>2, <1>3 DEF IInv, TypeOK
<1>6. BufferLargeEnough'
  <2>1. PacketFullSize \in Nat /\ bufferLimit \in Nat
    BY DEF IInv, TypeOK, PacketFullSize
  <2> QED
    BY <1>2, <1>3, <1>4, <2>1 DEF IInv, BufferLargeEnough
<1>7. NoLostEdge'
  BY <1>3 DEF NoLostEdge
<1>8. BufferIsStream'
  <2>1. recvIndex' <= rpos'
    BY <1>2, <1>3, <1>4 DEF IInv, BufferIsStream
  <2> QED
    BY <1>2, <1>3, <1>4, <2>1 DEF BufferIsStream
<1>9. HeaderRemembered'
  <2>1. recvSize \in Nat
    BY DEF IInv, TypeOK
  <2>2. recvIndex < 4 => recvSize = 0 /\ recvIndex + n < 4
    BY <1>2, <1>3, <2>1 DEF IInv, HeaderRemembered, PacketFullSize
  <2>3. Start' = NextAt(stream, delivered)'
    BY <1>3, <1>4 DEF IInv, HeaderRemembered, NextAt
  <2>4. HeaderAt(stream, Start)' = HeaderAt(stream, Start)
    BY <1>3, <1>4 DEF HeaderAt
  <2> QED
    BY <1>2, <1>3, <1>4, <2>2, <2>3, <2>4 DEF IInv, HeaderRemembered, HeaderSize, HeaderOpcode
<1> QED
  BY <1>5, <1>6, <1>7, <1>8, <1>9 DEF IInv

(* A header that announces too much ends the connection.                   *)
LEMMA OversizedIInv ==
    ASSUME IInv, NEW n \in 1..BytesToReceive, ReadOversizedHeader(n)
    PROVE  IInv'
<1>1. Receive(n)
  BY DEF ReadOversizedHeader
<1>2. /\ Filled(n) \in Seq(Byte)
      /\ Len(Filled(n)) = recvIndex + n
      /\ Filled(n) = SubSeq(stream, Start + 1, rpos + n)
      /\ rpos + n \in 0..sent
      /\ recvIndex + n <= PacketFullSize
      /\ n \in Nat /\ recvIndex \in Nat /\ rpos \in Nat /\ Start \in Nat
  BY <1>1, FilledIsStream
<1>3. /\ rpos' = rpos + n /\ buffer' = Filled(n) /\ pc' = "gone" /\ pc = "reading"
      /\ UNCHANGED <<stream, sent, closed, edge, bufferLimit, recvSize, opcode, delivered>>
  BY DEF ReadOversizedHeader, Receive, socketVars
<1>4. recvIndex' = recvIndex + n /\ Start' = Start
  BY <1>2, <1>3 DEF recvIndex, Start
<1>5. TypeOK'
  BY <1>2, <1>3 DEF IInv, TypeOK
<1>6. BufferLargeEnough'
  <2>1. PacketFullSize \in Nat /\ bufferLimit \in Nat
    BY DEF IInv, TypeOK, PacketFullSize
  <2> QED
    BY <1>2, <1>3, <1>4, <2>1 DEF IInv, BufferLargeEnough
<1>7. NoLostEdge' /\ HeaderRemembered'
  BY <1>3 DEF NoLostEdge, HeaderRemembered
<1>8. BufferIsStream'
  <2>1. recvIndex' <= rpos'
    BY <1>2, <1>3, <1>4 DEF IInv, BufferIsStream
  <2> QED
    BY <1>2, <1>3, <1>4, <2>1 DEF BufferIsStream
<1> QED
  BY <1>5, <1>6, <1>7, <1>8 DEF IInv

(* A complete header is the header of the packet at Start.                 *)
LEMMA HeaderComplete ==
    ASSUME IInv, NEW n \in 1..BytesToReceive, Receive(n), HeaderJustReceived(n)
    PROVE  /\ Filled(n) = HeaderAt(stream, Start)
           /\ recvIndex + n = 4
           /\ HeaderSize(Filled(n)) \in Nat
           /\ HeaderOpcode(Filled(n)) \in Byte
<1>1. recvIndex + n = 4
  BY DEF HeaderJustReceived
<1>2. rpos + n = Start + 4
  BY <1>1, FilledIsStream DEF Start
<1>3. Filled(n) = HeaderAt(stream, Start)
  BY <1>2, FilledIsStream DEF HeaderAt
<1>4. Filled(n) \in Seq(Byte) /\ Len(Filled(n)) = 4
  BY <1>1, FilledIsStream
<1>5. HeaderSize(Filled(n)) \in Nat /\ HeaderOpcode(Filled(n)) \in Byte
  <2>1. Filled(n) \in Seq(Byte) /\ Len(Filled(n)) >= 4
    BY <1>4
  <2> QED
    BY <2>1, HeaderTypes, Zenon
<1> QED
  BY <1>1, <1>3, <1>5

(* A header with data to follow.                                           *)
LEMMA HeaderIInv ==
    ASSUME IInv, NEW n \in 1..BytesToReceive, ReadHeader(n)
    PROVE  IInv'
<1> DEFINE size == HeaderSize(Filled(n))
<1>1. Receive(n) /\ HeaderJustReceived(n) /\ size < SizeLimit /\ size > 0
  BY DEF ReadHeader
<1>2. /\ Filled(n) \in Seq(Byte)
      /\ Len(Filled(n)) = 4
      /\ Filled(n) = SubSeq(stream, Start + 1, rpos + n)
      /\ rpos + n \in 0..sent
      /\ n \in Nat /\ recvIndex \in Nat /\ rpos \in Nat /\ Start \in Nat
      /\ size \in Nat /\ HeaderOpcode(Filled(n)) \in Byte
      /\ Filled(n) = HeaderAt(stream, Start)
      /\ recvIndex + n = 4
  BY <1>1, FilledIsStream, HeaderComplete
<1>3. /\ rpos' = rpos + n /\ buffer' = Filled(n) /\ pc' = "reading"
      /\ recvSize' = size /\ opcode' = HeaderOpcode(Filled(n))
      /\ bufferLimit' = EnlargedLimit(size) /\ pc = "reading"
      /\ UNCHANGED <<stream, sent, closed, edge, delivered>>
  BY DEF ReadHeader, Receive, socketVars
<1> HIDE DEF size
<1>4. recvIndex' = 4 /\ Start' = Start
  <2>1. recvIndex' = 4
    BY <1>2, <1>3 DEF recvIndex
  <2> QED
    BY <1>2, <1>3, <2>1 DEF Start
<1>5. /\ bufferLimit \in Nat /\ bufferLimit' \in Nat /\ size + 4 <= bufferLimit'
      /\ bufferLimit' = InitialLimit \/ bufferLimit' < SizeLimit + 4
  BY <1>1, <1>2, <1>3, SizeAssumption
     DEF EnlargedLimit, IInv, TypeOK, BufferLargeEnough
<1>6. TypeOK'
  BY <1>2, <1>3, <1>5 DEF IInv, TypeOK
<1>7. BufferLargeEnough'
  BY <1>1, <1>2, <1>3, <1>4, <1>5 DEF BufferLargeEnough, PacketFullSize
<1>8. NoLostEdge'
  BY <1>3 DEF NoLostEdge
<1>9. BufferIsStream'
  <2>1. recvIndex' <= rpos'
    BY <1>2, <1>3, <1>4 DEF IInv, BufferIsStream
  <2> QED
    BY <1>2, <1>3, <1>4, <2>1 DEF BufferIsStream
<1>10. HeaderRemembered'
  <2>1. Start' = NextAt(stream, delivered)'
    BY <1>3, <1>4 DEF IInv, HeaderRemembered, NextAt
  <2>2. HeaderAt(stream, Start)' = Filled(n)
    BY <1>2, <1>3, <1>4 DEF HeaderAt
  <2>3. HeaderSize(HeaderAt(stream, Start))' = size
        /\ HeaderOpcode(HeaderAt(stream, Start))' = HeaderOpcode(Filled(n))
    BY <2>2 DEF size, HeaderSize, HeaderOpcode
  <2>4. opcode' \in Byte
    BY <1>2, <1>3
  <2> QED
    BY <1>1, <1>3, <1>4, <2>1, <2>3, <2>4 DEF HeaderRemembered
<1> QED
  BY <1>6, <1>7, <1>8, <1>9, <1>10 DEF IInv

-----------------------------------------------------------------------------
(* A full packet: the one that starts at Start is processed and the state  *)
(* is reset.  op and size are what is known of its header.                 *)
FullPacket(n, op, size, accepted) ==
    /\ Receive(n)
    /\ recvIndex + n = 4 + size
    /\ 4 + size <= bufferLimit
    /\ op = HeaderOpcode(HeaderAt(stream, Start))
    /\ size = HeaderSize(HeaderAt(stream, Start))
    /\ op \in Byte /\ size \in Nat /\ size < SizeLimit
    /\ Process(Filled(n), n, op, size, accepted)
    /\ UNCHANGED bufferLimit

(* Both actions that process a packet do so with its own header.           *)
LEMMA ProcessesFullPacket ==
    ASSUME IInv, NEW n \in 1..BytesToReceive, NEW accepted \in BOOLEAN,
           ReadEmptyPacket(n, accepted) \/ ReadRest(n, accepted)
    PROVE  \E op, size : FullPacket(n, op, size, accepted)
<1>1. CASE ReadEmptyPacket(n, accepted)
  <2>1. Receive(n) /\ HeaderJustReceived(n) /\ HeaderSize(Filled(n)) = 0
    BY <1>1 DEF ReadEmptyPacket
  <2>2. 4 <= bufferLimit
    BY <2>1 DEF IInv, TypeOK, BufferLargeEnough, PacketFullSize, Receive
  <2> WITNESS HeaderOpcode(Filled(n)), 0
  <2> QED
    BY <1>1, <2>1, <2>2, HeaderComplete DEF FullPacket, ReadEmptyPacket
<1>2. CASE ReadRest(n, accepted)
  <2>1. Receive(n) /\ ~HeaderJustReceived(n) /\ recvIndex + n >= PacketFullSize
    BY <1>2 DEF ReadRest
  <2>2. /\ recvIndex + n = PacketFullSize /\ recvSize \in Nat /\ bufferLimit \in Nat
        /\ recvIndex \in Nat /\ n \in Nat
    BY <2>1, FilledIsStream DEF IInv, TypeOK, PacketFullSize
  <2>3. recvIndex >= 4 /\ pc = "reading"
    BY <2>1, <2>2 DEF HeaderJustReceived, PacketFullSize, Receive, IInv, HeaderRemembered
  <2>4. /\ recvSize = HeaderSize(HeaderAt(stream, Start))
        /\ opcode = HeaderOpcode(HeaderAt(stream, Start))
        /\ opcode \in Byte
        /\ recvSize < SizeLimit
        /\ 4 + recvSize <= bufferLimit
    BY <2>3 DEF IInv, HeaderRemembered, BufferLargeEnough, PacketFullSize
  <2>5. recvIndex + n = 4 + recvSize
    BY <2>2 DEF PacketFullSize
  <2>6. Process(Filled(n), n, opcode, recvSize, accepted) /\ UNCHANGED bufferLimit
    BY <1>2 DEF ReadRest
  <2> WITNESS opcode, recvSize
  <2> QED
    BY <2>1, <2>2, <2>4, <2>5, <2>6 DEF FullPacket
<1> QED
  BY <1>1, <1>2

(* What is handed to xptServer_processPacket is the packet at Start.       *)
LEMMA FullPacketDelivered ==
    ASSUME IInv, NEW n \in 1..BytesToReceive, NEW accepted \in BOOLEAN,
           NEW op, NEW size, FullPacket(n, op, size, accepted)
    PROVE  /\ delivered' = Append(delivered, PacketAt(stream, Start))
           /\ PacketAt(stream, Start) \in [at : Nat, opcode : Byte, data : Seq(Byte)]
           /\ NextAt(stream, delivered') = Start + 4 + size
           /\ Start + 4 + size = rpos + n
           /\ EndOf(stream, Start) = Start + 4 + size
<1> DEFINE b == Filled(n)
<1>1. /\ b \in Seq(Byte) /\ Len(b) = 4 + size
      /\ b = SubSeq(stream, Start + 1, rpos + n)
      /\ rpos + n \in 0..sent
      /\ n \in Nat /\ recvIndex \in Nat /\ rpos \in Nat /\ Start \in Nat
      /\ size \in Nat /\ op \in Byte
  BY FilledIsStream DEF FullPacket
<1>2. /\ delivered' = Append(delivered, [at |-> rpos + n - Len(b), opcode |-> op,
                                         data |-> SubSeq(b, 5, 4 + size)])
      /\ recvIndex + n = 4 + size
      /\ op = HeaderOpcode(HeaderAt(stream, Start))
      /\ size = HeaderSize(HeaderAt(stream, Start))
  BY DEF FullPacket, Process
<1> HIDE DEF b
<1>3. rpos + n - Len(b) = Start /\ rpos + n = Start + 4 + size
  <2>1. Start = rpos - recvIndex
    BY DEF Start
  <2>2. Len(b) = 4 + size /\ recvIndex + n = 4 + size
    BY <1>1, <1>2
  <2>3. n \in Nat /\ recvIndex \in Nat /\ rpos \in Nat /\ size \in Nat
    BY <1>1
  <2> QED
    BY <2>1, <2>2, <2>3
<1>4. EndOf(stream, Start) = Start + 4 + size
  <2>1. EndOf(stream, Start) = Start + 4 + HeaderSize(HeaderAt(stream, Start))
    BY DEF EndOf
  <2> QED
    BY <1>2, <2>1
<1>5. SubSeq(b, 5, 4 + size) = SubSeq(stream, Start + 5, Start + 4 + size)
  <2>1. CASE size = 0
    BY <1>1, <2>1, SubSeqEmpty
  <2>2. CASE size > 0
    <3>1. /\ stream \in Seq(Byte) /\ Len(stream) \in Nat
          /\ Start + 4 + size <= Len(stream)
      BY <1>1, <1>3, LenProperties DEF IInv, TypeOK
    <3>2. /\ Start + 1 \in 1..Len(stream) /\ rpos + n \in 1..Len(stream)
          /\ 5 \in 1..(rpos + n) - (Start + 1) + 1
          /\ 4 + size \in 1..(rpos + n) - (Start + 1) + 1
      BY <1>1, <1>3, <2>2, <3>1
    <3>3. SubSeq(SubSeq(stream, Start + 1, rpos + n), 5, 4 + size)
            = SubSeq(stream, (Start + 1) + 5 - 1, (Start + 1) + (4 + size) - 1)
      <4> DEFINE i == Start + 1
                 j == rpos + n
                 m == 4 + size
      <4>1. i \in 1..Len(stream) /\ j \in 1..Len(stream)
            /\ 5 \in 1..j-i+1 /\ m \in 1..j-i+1
        BY <3>2
      <4> HIDE DEF i, j, m
      <4>2. SubSeq(SubSeq(stream, i, j), 5, m) = SubSeq(stream, i+5-1, i+m-1)
        BY <3>1, <4>1, SubSeqOfSubSeq
      <4> QED
        BY <4>2 DEF i, j, m
    <3>4. (Start + 1) + 5 - 1 = Start + 5
          /\ (Start + 1) + (4 + size) - 1 = Start + 4 + size
      BY <1>1
    <3> QED
      BY <1>1, <3>3, <3>4
  <2> QED
    BY <1>1, <2>1, <2>2
<1>6. SubSeq(b, 5, 4 + size) \in Seq(Byte)
  <2>1. \A i \in 5 .. 4 + size : b[i] \in Byte
    BY <1>1, ElementOfSeq
  <2> QED
    BY <1>1, <2>1, SubSeqProperties
<1>7. PacketAt(stream, Start) = [at |-> Start, opcode |-> op, data |-> SubSeq(b, 5, 4 + size)]
  BY <1>2, <1>4, <1>5 DEF PacketAt
<1>8. delivered' = Append(delivered, PacketAt(stream, Start))
  BY <1>2, <1>3, <1>7
<1>9. PacketAt(stream, Start) \in [at : Nat, opcode : Byte, data : Seq(Byte)]
  BY <1>1, <1>6, <1>7
<1>10. NextAt(stream, delivered') = Start + 4 + size
  <2>1. delivered \in Seq([at : Nat, opcode : Byte, data : Seq(Byte)])
    BY DEF IInv, TypeOK
  <2>2. /\ delivered' # <<>>
        /\ delivered'[Len(delivered')] = PacketAt(stream, Start)
    BY <1>8, <1>9, <2>1, AppendProperties
  <2>3. PacketAt(stream, Start).at = Start
    BY <1>7
  <2> QED
    BY <1>4, <2>2, <2>3 DEF NextAt
<1> QED
  BY <1>3, <1>4, <1>8, <1>9, <1>10

(* Processing a full packet preserves the invariant.                       *)
LEMMA FullPacketIInv ==
    ASSUME IInv, NEW n \in 1..BytesToReceive, NEW accepted \in BOOLEAN,
           NEW op, NEW size, FullPacket(n, op, size, accepted)
    PROVE  IInv'
<1>1. /\ Filled(n) \in Seq(Byte) /\ Len(Filled(n)) = 4 + size
      /\ Filled(n) = SubSeq(stream, Start + 1, rpos + n)
      /\ rpos + n \in 0..sent /\ Start \in Nat /\ rpos \in Nat /\ n \in Nat
      /\ size \in Nat /\ op \in Byte /\ 4 + size <= bufferLimit
      /\ recvIndex \in Nat /\ recvIndex + n = 4 + size
  BY FilledIsStream DEF FullPacket
<1>2. /\ rpos' = rpos + n /\ pc = "reading" /\ pc' = Verdict(accepted)
      /\ buffer' = (IF accepted THEN <<>> ELSE Filled(n))
      /\ recvSize' = (IF accepted THEN 0 ELSE size)
      /\ opcode' = (IF accepted THEN 0 ELSE op)
      /\ UNCHANGED <<stream, sent, closed, edge, bufferLimit>>
  BY DEF FullPacket, Receive, Process, socketVars
<1>3. /\ delivered' \in Seq([at : Nat, opcode : Byte, data : Seq(Byte)])
      /\ NextAt(stream, delivered') = rpos + n
  <2>1. delivered \in Seq([at : Nat, opcode : Byte, data : Seq(Byte)])
    BY DEF IInv, TypeOK
  <2>2. /\ delivered' = Append(delivered, PacketAt(stream, Start))
        /\ PacketAt(stream, Start) \in [at : Nat, opcode : Byte, data : Seq(Byte)]
        /\ NextAt(stream, delivered') = rpos + n
    BY FullPacketDelivered
  <2> QED
    BY <2>1, <2>2, AppendProperties
<1>4. CASE accepted
  <2>1. pc' = "reading" /\ buffer' = <<>> /\ recvSize' = 0 /\ opcode' = 0
    BY <1>2, <1>4 DEF Verdict
  <2>2. recvIndex' = 0 /\ Start' = rpos' /\ PacketFullSize' = 4
    <3>1. recvIndex' = 0
      BY <2>1 DEF recvIndex
    <3> QED
      BY <1>1, <1>2, <2>1, <3>1 DEF Start, PacketFullSize
  <2>3. TypeOK'
    <3>1. buffer' \in Seq(Byte) /\ opcode' \in Byte
      BY <2>1, EmptySeq DEF Byte
    <3> QED
      BY <1>1, <1>2, <1>3, <2>1, <3>1 DEF IInv, TypeOK
  <2>4. BufferLargeEnough'
    BY <1>1, <1>2, <2>2 DEF IInv, TypeOK, BufferLargeEnough
  <2>5. NoLostEdge'
    BY <2>1 DEF NoLostEdge
  <2>6. BufferIsStream'
    <3>1. SubSeq(stream, Start + 1, rpos)' = <<>>
      BY <1>1, <1>2, <2>2, SubSeqEmpty
    <3> QED
      BY <1>1, <1>2, <2>1, <2>2, <3>1 DEF BufferIsStream
  <2>7. HeaderRemembered'
    BY <1>2, <1>3, <2>1, <2>2 DEF HeaderRemembered, NextAt
  <2> QED
    BY <2>3, <2>4, <2>5, <2>6, <2>7 DEF IInv
<1>5. CASE ~accepted
  <2>1. pc' = "gone" /\ buffer' = Filled(n) /\ recvSize' = size /\ opcode' = op
    BY <1>2, <1>5 DEF Verdict
  <2>2. recvIndex' = 4 + size /\ Start' = Start
    BY <1>1, <1>2, <2>1 DEF recvIndex, Start
  <2>3. TypeOK'
    BY <1>1, <1>2, <1>3, <2>1 DEF IInv, TypeOK
  <2>4. BufferLargeEnough'
    BY <1>1, <1>2, <2>1, <2>2 DEF IInv, TypeOK, BufferLargeEnough
  <2>5. NoLostEdge' /\ HeaderRemembered'
    BY <2>1 DEF NoLostEdge, HeaderRemembered
  <2>6. BufferIsStream'
    <3>1. recvIndex' <= rpos'
      BY <1>1, <1>2, <2>2 DEF IInv, BufferIsStream
    <3> QED
      BY <1>1, <1>2, <2>1, <2>2, <3>1 DEF BufferIsStream
  <2> QED
    BY <2>3, <2>4, <2>5, <2>6 DEF IInv
<1> QED
  BY <1>4, <1>5

(* IInv is inductive.                                                      *)
LEMMA NextIInv == IInv /\ [Next]_vars => IInv'
<1> SUFFICES ASSUME IInv, [Next]_vars PROVE IInv'
  OBVIOUS
<1>1. CASE Read
  <2>1. PICK n \in 1..BytesToReceive :
            \/ ReadPart(n) \/ ReadOversizedHeader(n) \/ ReadHeader(n)
            \/ \E accepted \in BOOLEAN :
                  ReadEmptyPacket(n, accepted) \/ ReadRest(n, accepted)
    BY <1>1 DEF Read
  <2>2. CASE ReadPart(n) \/ ReadOversizedHeader(n) \/ ReadHeader(n)
    BY <2>2, PartIInv, OversizedIInv, HeaderIInv
  <2>3. CASE \E accepted \in BOOLEAN :
                ReadEmptyPacket(n, accepted) \/ ReadRest(n, accepted)
    BY <2>3, ProcessesFullPacket, FullPacketIInv
  <2> QED
    BY <2>1, <2>2, <2>3
<1>2. CASE Environment \/ EventIn \/ EventError \/ ReadAgain \/ ReadFails \/ UNCHANGED vars
  BY <1>2, QuietIInv DEF Environment
<1> QED
  BY <1>1, <1>2 DEF Next, Thread

-----------------------------------------------------------------------------
(* The inductive invariant holds in every reachable state.                 *)
LEMMA Invariance == Spec => []IInv
<1> QED
  BY InitIInv, NextIInv, PTL DEF Spec

(* TypeCorrect: the fields of the receive state keep their types.          *)
THEOREM TypeCorrect == Spec => []TypeOK
<1>1. IInv => TypeOK
  BY DEF IInv
<1> QED
  BY <1>1, Invariance, PTL

(* NoOverrun: xptServer_receiveData never reads past its buffer nor asks   *)
(* read() for zero bytes, whatever headers a miner sends.                  *)
THEOREM NoOverrun == Spec => []BufferLargeEnough
<1>1. IInv => BufferLargeEnough
  BY DEF IInv
<1> QED
  BY <1>1, Invariance, PTL

(* EdgesAreEnough: the read loop never goes back to epoll_wait with input  *)
(* left in the socket that no event will announce.                         *)
THEOREM EdgesAreEnough == Spec => []NoLostEdge
<1>1. IInv => NoLostEdge
  BY DEF IInv
<1> QED
  BY <1>1, Invariance, PTL

-----------------------------------------------------------------------------
(* Processing a full packet is the delivery of the next packet.            *)
LEMMA FullPacketDelivers ==
    ASSUME IInv, NEW n \in 1..BytesToReceive, NEW accepted \in BOOLEAN,
           NEW op, NEW size, FullPacket(n, op, size, accepted)
    PROVE  Packets!Deliver(accepted)
<1>1. /\ delivered' = Append(delivered, PacketAt(stream, Start))
      /\ EndOf(stream, Start) = Start + 4 + size
      /\ Start + 4 + size = rpos + n
  BY FullPacketDelivered
<1>2. /\ rpos + n \in 0..sent /\ Start \in Nat /\ size \in Nat
      /\ size = HeaderSize(HeaderAt(stream, Start)) /\ size < SizeLimit
  BY FilledIsStream DEF FullPacket
<1>3. sent <= Len(stream) /\ sent \in Nat /\ Len(stream) \in Nat
  BY LenProperties DEF IInv, TypeOK
<1>4. Start + 4 <= Len(stream) /\ EndOf(stream, Start) <= Len(stream)
  BY <1>1, <1>2, <1>3
<1>5. /\ pc = "reading" /\ pc' = Verdict(accepted) /\ UNCHANGED stream
      /\ NextAt(stream, delivered) = Start
  BY DEF FullPacket, Process, Receive, IInv, HeaderRemembered, socketVars
<1>6. (pc' # "gone") = accepted
  <2>1. pc' = (IF accepted THEN "reading" ELSE "gone")
    BY <1>5 DEF Verdict
  <2>2. CASE accepted = TRUE
    BY <2>1, <2>2, Zenon
  <2>3. CASE accepted = FALSE
    BY <2>1, <2>3
  <2> QED
    BY <2>2, <2>3
<1> DEFINE p == NextAt(stream, delivered)
<1>7. /\ p + 4 <= Len(stream)
      /\ EndOf(stream, p) <= Len(stream)
      /\ HeaderSize(HeaderAt(stream, p)) < SizeLimit
      /\ delivered' = Append(delivered, PacketAt(stream, p))
  <2> HIDE DEF p
  <2>1. p = Start
    BY <1>5 DEF p
  <2> QED
    BY <2>1, <1>1, <1>2, <1>4
<1>8. pc # "gone" /\ UNCHANGED stream
  BY <1>5
<1>9. /\ \A b : Packets!HeaderSize(b) = HeaderSize(b)
      /\ \A s, q : Packets!HeaderAt(s, q) = HeaderAt(s, q)
      /\ \A s, q : Packets!EndOf(s, q) = EndOf(s, q)
      /\ \A s, q : Packets!PacketAt(s, q) = PacketAt(s, q)
      /\ \A s, d : Packets!NextAt(s, d) = NextAt(s, d)
  BY DEF Packets!HeaderSize, HeaderSize, Packets!HeaderOpcode, HeaderOpcode,
         Packets!HeaderAt, HeaderAt, Packets!EndOf, EndOf,
         Packets!PacketAt, PacketAt, Packets!NextAt, NextAt
<1>10. (pc # "gone")' = accepted
  BY <1>6
<1> QED
  BY <1>7, <1>8, <1>9, <1>10, Zenon DEF Packets!Deliver

(* Every step of the receive loop is a step of XptPackets or a stutter.    *)
LEMMA StepRefines ==
    IInv /\ [Next]_vars => [Packets!Next]_<<stream, delivered, pc # "gone">>
<1> SUFFICES ASSUME IInv, [Next]_vars
             PROVE  [Packets!Next]_<<stream, delivered, pc # "gone">>
  OBVIOUS
<1>1. CASE Read
  <2>1. PICK n \in 1..BytesToReceive :
            \/ ReadPart(n) \/ ReadHeader(n)
            \/ ReadOversizedHeader(n)
            \/ \E accepted \in BOOLEAN :
                  ReadEmptyPacket(n, accepted) \/ ReadRest(n, accepted)
    BY <1>1 DEF Read
  <2>2. CASE ReadPart(n) \/ ReadHeader(n)
    BY <2>2 DEF ReadPart, ReadHeader, Receive, socketVars
  <2>3. CASE ReadOversizedHeader(n)
    BY <2>3 DEF ReadOversizedHeader, Receive, socketVars, Packets!Next, Packets!GiveUp
  <2>4. CASE \E accepted \in BOOLEAN :
                ReadEmptyPacket(n, accepted) \/ ReadRest(n, accepted)
    BY <2>4, ProcessesFullPacket, FullPacketDelivers DEF Packets!Next
  <2> QED
    BY <2>1, <2>2, <2>3, <2>4
<1>2. CASE EventError \/ ReadFails
  BY <1>2 DEF EventError, ReadFails, socketVars, clientVars, Packets!Next, Packets!GiveUp
<1>3. CASE Environment \/ EventIn \/ ReadAgain \/ UNCHANGED vars
  BY <1>3 DEF Environment, Arrive, Hangup, EventIn, ReadAgain, vars, socketVars, clientVars
<1> QED
  BY <1>1, <1>2, <1>3 DEF Next, Thread

(* ImplementsPackets: for every way the network may cut up the stream, the *)
(* receive loop hands xptServer_processPacket the stream's packets in      *)
(* order, once each and unaltered: it implements XptPackets.               *)
THEOREM ImplementsPackets == Spec => Framing
<1>1. Init => Packets!Init
  BY DEF Init, Packets!Init
<1> QED
  BY <1>1, Invariance, StepRefines, PTL DEF Spec, Framing, Packets!Spec
=============================================================================
