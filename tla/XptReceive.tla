----------------------------- MODULE XptReceive -----------------------------
(***************************************************************************)
(* The receiving half of one miner connection: the edge-triggered event    *)
(* loop of StartListeningThread around xptServer_receiveData, which cuts   *)
(* the TCP byte stream into xpt packets.                                   *)
(*                                                                         *)
(* A packet is a four byte little-endian header, opcode in the low byte    *)
(* and the length of the data in the other three, followed by the data.    *)
(* xptServer_processPacket is seen here only through its verdict: TRUE to  *)
(* go on, FALSE to disconnect the client.                                  *)
(***************************************************************************)
EXTENDS Integers, XptFraming

CONSTANTS
    InitialLimit,   \* size a packet buffer is created with (4096)
    SizeLimit,      \* first data size that is refused (2 MiB - 4)
    Streams         \* the byte streams a miner may send

ASSUME LimitAssumption == InitialLimit \in Nat /\ InitialLimit >= 4
ASSUME SizeAssumption == SizeLimit \in Nat
ASSUME StreamAssumption == Streams \subseteq Seq(Byte)

VARIABLES
    stream,         \* every byte the miner sends in this session
    sent,           \* how many of them the kernel has received
    closed,         \* "open", "fin" (orderly close) or "reset"
    edge,           \* epoll holds an event for the socket
    pc,             \* "wait", "reading" (the inner while loop) or "gone"
    rpos,           \* bytes read from the socket so far
    buffer,         \* packetbuffer->buffer, the bytes of the current packet
    bufferLimit,    \* packetbuffer->bufferLimit
    recvSize,       \* data size announced by the header, 0 before it is read
    opcode,         \* opcode announced by the header, -1 at first
    delivered       \* packets handed to xptServer_processPacket, in order,
                    \* each with the position at which it starts (history)

socketVars == <<stream, sent, closed>>
clientVars == <<rpos, buffer, bufferLimit, recvSize, opcode, delivered>>
vars == <<socketVars, edge, pc, clientVars>>

-----------------------------------------------------------------------------
(* xptServerClient_t.recvIndex: the fill level of the buffer.              *)
recvIndex == Len(buffer)

(* The read always asks for the rest of the header or of the packet.       *)
PacketFullSize == 4 + recvSize
FillBuffer == bufferLimit - recvIndex
BytesToReceive == PacketFullSize - recvIndex

Init ==
    /\ stream \in Streams
    /\ sent = 0
    /\ closed = "open"
    /\ edge = FALSE
    /\ pc = "wait"
    /\ rpos = 0
    /\ buffer = <<>>
    /\ bufferLimit = InitialLimit
    /\ recvSize = 0
    /\ opcode = -1
    /\ delivered = <<>>

-----------------------------------------------------------------------------
(* The network and the miner.                                              *)

(* More bytes reach the socket buffer: edge-triggered epoll queues an event. *)
Arrive(n) ==
    /\ closed = "open"
    /\ sent + n <= Len(stream)
    /\ sent' = sent + n
    /\ edge' = TRUE
    /\ UNCHANGED <<stream, closed, pc, clientVars>>

(* The miner closes the connection, or it is reset. *)
Hangup(how) ==
    /\ closed = "open"
    /\ closed' = how
    /\ edge' = TRUE
    /\ UNCHANGED <<stream, sent, pc, clientVars>>

-----------------------------------------------------------------------------
(* The listening thread.                                                   *)

(* epoll_wait reports the client; EPOLLET clears the event. *)
EventIn ==
    /\ pc = "wait"
    /\ edge
    /\ closed # "reset"
    /\ edge' = FALSE
    /\ pc' = "reading"
    /\ UNCHANGED <<socketVars, clientVars>>

(* epoll_wait reports EPOLLERR or EPOLLHUP: the client is deleted unread. *)
EventError ==
    /\ pc = "wait"
    /\ edge
    /\ closed = "reset"
    /\ edge' = FALSE
    /\ pc' = "gone"
    /\ UNCHANGED <<socketVars, clientVars>>

(* read() finds nothing and the connection is open: EAGAIN ends the loop. *)
ReadAgain ==
    /\ pc = "reading"
    /\ closed = "open"
    /\ rpos = sent
    /\ pc' = "wait"
    /\ UNCHANGED <<socketVars, edge, clientVars>>

(* read() returns 0 at the end of the stream, or -1 after a reset. *)
ReadFails ==
    /\ pc = "reading"
    /\ \/ closed = "fin" /\ rpos = sent
       \/ closed = "reset"
    /\ pc' = "gone"
    /\ UNCHANGED <<socketVars, edge, clientVars>>

(* xptServer_receiveData, when read() returns n > 0 bytes.  The five       *)
(* outcomes below exclude one another.                                     *)
ReceiveUnchecked(n) ==
    /\ pc = "reading"
    /\ closed # "reset"
    /\ n <= Len(stream) - rpos
    /\ rpos' = rpos + n
    /\ UNCHANGED <<socketVars, edge>>

Receive(n) ==
    /\ pc = "reading"
    /\ closed # "reset"
    /\ n <= sent - rpos
    /\ rpos' = rpos + n
    /\ UNCHANGED <<socketVars, edge>>

(* The buffer once these n bytes are in it, and "header just received?".   *)
Filled(n) == buffer \o SubSeq(stream, rpos + 1, rpos + n)
HeaderJustReceived(n) ==
    recvIndex + n = PacketFullSize /\ PacketFullSize = 4

(* The read loop goes on after a packet unless the handler refused it.     *)
OnePacketPerEvent(accepted) == IF accepted THEN "wait" ELSE "gone"
Verdict(accepted) == IF accepted THEN "reading" ELSE "gone"

(* The full packet in b is processed and the receive state reset for the   *)
(* next one; a refusal disconnects the client and leaves the state alone.  *)
Process(b, n, op, size, accepted) ==
    /\ delivered' = Append(delivered, [at |-> rpos + n - Len(b),
                                       opcode |-> op,
                                       data |-> SubSeq(b, 5, 4 + size)])
    /\ pc' = Verdict(accepted)
    /\ buffer' = IF accepted THEN <<>> ELSE b
    /\ recvSize' = IF accepted THEN 0 ELSE size
    /\ opcode' = IF accepted THEN 0 ELSE op

(* The header, or the data, is still incomplete. *)
ReadPart(n) ==
    /\ Receive(n)
    /\ recvIndex + n < PacketFullSize
    /\ buffer' = Filled(n)
    /\ UNCHANGED <<pc, bufferLimit, recvSize, opcode, delivered>>

(* The header announces more than the size limit: disconnect. *)
ReadOversizedHeader(n) ==
    /\ Receive(n)
    /\ HeaderJustReceived(n)
    /\ HeaderSize(Filled(n)) >= SizeLimit
    /\ pc' = "gone"
    /\ buffer' = Filled(n)
    /\ UNCHANGED <<bufferLimit, recvSize, opcode, delivered>>

(* xptPacketbuffer_changeSizeLimit enlarges a buffer that is too small.    *)
WithoutHeader(size) == IF size > bufferLimit THEN size ELSE bufferLimit
EnlargedLimit(size) == IF size + 4 > bufferLimit THEN size + 4 ELSE bufferLimit

(* The header is complete and data follows. *)
ReadHeader(n) ==
    LET size == HeaderSize(Filled(n))
    IN  /\ Receive(n)
        /\ HeaderJustReceived(n)
        /\ size < SizeLimit
        /\ size > 0
        /\ recvSize' = size
        /\ opcode' = HeaderOpcode(Filled(n))
        /\ bufferLimit' = EnlargedLimit(size)
        /\ buffer' = Filled(n)
        /\ UNCHANGED <<pc, delivered>>

(* A packet without data is complete with its header. *)
ReadEmptyPacket(n, accepted) ==
    /\ Receive(n)
    /\ HeaderJustReceived(n)
    /\ HeaderSize(Filled(n)) < SizeLimit
    /\ HeaderSize(Filled(n)) = 0
    /\ Process(Filled(n), n, HeaderOpcode(Filled(n)), 0, accepted)
    /\ UNCHANGED bufferLimit

(* The last bytes of the data. *)
ReadRest(n, accepted) ==
    /\ Receive(n)
    /\ ~HeaderJustReceived(n)
    /\ recvIndex + n >= PacketFullSize
    /\ Process(Filled(n), n, opcode, recvSize, accepted)
    /\ UNCHANGED bufferLimit

(* read() returns between one byte and the number asked for. *)
Read ==
    \E n \in 1..BytesToReceive :
        \/ ReadPart(n)
        \/ ReadOversizedHeader(n)
        \/ ReadHeader(n)
        \/ \E accepted \in BOOLEAN :
              ReadEmptyPacket(n, accepted) \/ ReadRest(n, accepted)

Environment ==
    \/ \E n \in 1..Len(stream) : Arrive(n)
    \/ \E how \in {"fin", "reset"} : Hangup(how)

Thread == EventIn \/ EventError \/ ReadAgain \/ ReadFails \/ Read

Next == Environment \/ Thread

(* The listening thread keeps running; the miner may stop at any time.     *)
Spec == Init /\ [][Next]_vars /\ WF_vars(Thread)

-----------------------------------------------------------------------------
(* TypeOK: the fields of the client and of its socket have their types.    *)
TypeOK ==
    /\ stream \in Seq(Byte)
    /\ sent \in 0..Len(stream)
    /\ closed \in {"open", "fin", "reset"}
    /\ edge \in BOOLEAN
    /\ pc \in {"wait", "reading", "gone"}
    /\ rpos \in 0..sent
    /\ buffer \in Seq(Byte)
    /\ bufferLimit \in Nat
    /\ recvSize \in Nat
    /\ opcode \in Byte \cup {-1}
    /\ delivered \in Seq([at : Nat, opcode : Byte, data : Seq(Byte)])

(* BufferLargeEnough: "packet buffer is always large enough at this point" *)
(* (the comment above the read): whenever the thread may call read(), it   *)
(* asks for at least one byte, so that a return value of 0 can only mean   *)
(* that the miner closed, and for no more than fit in the buffer; and a    *)
(* buffer is never enlarged past the two megabytes of the size limit.      *)
BufferLargeEnough ==
    /\ pc # "gone" => recvIndex < PacketFullSize /\ PacketFullSize <= bufferLimit
    /\ recvIndex <= bufferLimit
    /\ bufferLimit = InitialLimit \/ bufferLimit < SizeLimit + 4

(* NoLostEdge: the thread never goes back to epoll_wait with bytes or a    *)
(* hangup waiting in the socket and no event queued for them, which is     *)
(* what "we must read whatever data is available completely, as we are     *)
(* running in edge-triggered mode" asks of the read loop.                  *)
NoLostEdge ==
    pc = "wait" /\ (rpos < sent \/ closed # "open") => edge

(* Consumed: every byte that reached the server is read, whatever the size *)
(* of the pieces it arrived in, unless the connection is given up.         *)
Consumed == pc = "gone" \/ (rpos = sent /\ closed = "open")

(* DrainsSocket: bytes or a hangup that reach the server are always dealt  *)
(* with in the end: no event is missed by the edge-triggered loop.         *)
DrainsSocket == []<>Consumed

(* Framing: the receive loop implements XptPackets: whatever sizes read()  *)
(* returns, xptServer_processPacket sees the packets of the stream in      *)
(* order, once each, with the opcode and the data of their own header, and *)
(* nothing after a refusal.                                                *)
Packets == INSTANCE XptPackets WITH alive <- pc # "gone"
Framing == Packets!Spec
=============================================================================
