----------------------------- MODULE XptFraming -----------------------------
(***************************************************************************)
(* The layout of an xpt packet on the wire: a four byte little-endian      *)
(* header, opcode in the low byte and the length of the data in the other  *)
(* three, followed by the data.  A stream is the sequence of bytes that    *)
(* one miner sends; positions count the bytes before the one meant.        *)
(***************************************************************************)
EXTENDS Naturals, Sequences

Byte == 0..255

HeaderOpcode(b) == b[1]
HeaderSize(b) == b[2] + 256 * b[3] + 65536 * b[4]

(* The packet that starts at position p of the stream s, and its end. *)
HeaderAt(s, p) == SubSeq(s, p + 1, p + 4)
EndOf(s, p) == p + 4 + HeaderSize(HeaderAt(s, p))
PacketAt(s, p) ==
    [at |-> p,
     opcode |-> HeaderOpcode(HeaderAt(s, p)),
     data |-> SubSeq(s, p + 5, EndOf(s, p))]

(* Where the packet after the ones in d starts. *)
NextAt(s, d) == IF d = <<>> THEN 0 ELSE EndOf(s, d[Len(d)].at)
=============================================================================
