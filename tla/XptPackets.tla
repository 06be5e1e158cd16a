----------------------------- MODULE XptPackets -----------------------------
(***************************************************************************)
(* What the receiving half of a connection promises: the packets encoded   *)
(* in the stream are processed in order, each exactly once and with its    *)
(* own opcode and data, until one of them is refused or the connection is  *)
(* given up.  How the bytes are cut up by the network does not show.       *)
(***************************************************************************)
EXTENDS XptFraming

CONSTANTS
    SizeLimit,      \* first data size that is refused (2 MiB - 4)
    Streams         \* the byte streams a miner may send

VARIABLES
    stream,         \* every byte the miner sends in this session
    delivered,      \* packets handed to xptServer_processPacket
    alive           \* the client has not been deleted

Init ==
    /\ stream \in Streams
    /\ delivered = <<>>
    /\ alive = TRUE

Deliver(accepted) ==
    LET p == NextAt(stream, delivered)
    IN  /\ alive
        /\ p + 4 <= Len(stream)
        /\ EndOf(stream, p) <= Len(stream)
        /\ HeaderSize(HeaderAt(stream, p)) < SizeLimit
        /\ delivered' = Append(delivered, PacketAt(stream, p))
        /\ alive' = accepted
        /\ UNCHANGED stream

GiveUp ==
    /\ alive
    /\ alive' = FALSE
    /\ UNCHANGED <<stream, delivered>>

Next == GiveUp \/ \E accepted \in BOOLEAN : Deliver(accepted)

Spec == Init /\ [][Next]_<<stream, delivered, alive>>
=============================================================================
