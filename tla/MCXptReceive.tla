---------------------------- MODULE MCXptReceive ----------------------------
(***************************************************************************)
(* Small instance of XptReceive.  The buffer starts with room for a header *)
(* and two bytes, data of five bytes or more is refused, so a header may   *)
(* need no room, need the buffer enlarged, or be refused.                  *)
(***************************************************************************)
EXTENDS XptReceive

MCInitialLimit == 6
MCSizeLimit == 5

Pkt(op, data) == <<op, Len(data), 0, 0>> \o data

Empty == Pkt(7, <<>>)
Small == Pkt(3, <<9, 8>>)
Large == Pkt(5, <<1, 2, 3, 4>>)
Oversized == <<5, 5, 0, 0, 1>>
(* A length that only shows in the high byte of the 24 bits. *)
Huge == <<5, 0, 0, 1>>

MCStreams ==
    {Large \o Small, Small \o Large \o <<2>>, Small \o Empty \o Small,
     Empty \o Empty \o Oversized, Small \o Huge}
=============================================================================
