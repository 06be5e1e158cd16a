----------------------------- MODULE XptReplies -----------------------------
(***************************************************************************)
(* What the miners of one listening thread are sent.  Every packet is put  *)
(* together field by field in the thread's only send buffer and handed to  *)
(* a non-blocking socket, whose answer nobody looks at.                    *)
(*                                                                         *)
(* A field is its width in bytes, how often it is repeated and what it     *)
(* holds.  A packet that was cut short makes the miner take what follows   *)
(* for its rest: nothing is understood after it.                           *)
(***************************************************************************)
EXTENDS Integers, SequencesExt

CONSTANTS
    Clients,        \* miners of the thread
    Payloads,       \* numbers of workloads they ask for
    BufferLimit,    \* bufferLimit of the send buffer (4096)
    MaxTemplates,   \* bound on the number of block templates
    MaxPackets,     \* bound on the packets and the shares of each miner
    MaxFailures,    \* bound on the number of failures of database and wallet
    MaxShort        \* bound on the number of sends that fall short

ASSUME BoundsAssumption == /\ MaxTemplates \in Nat \ {0} /\ MaxPackets \in [Clients -> Nat]
                           /\ MaxFailures \in Nat /\ MaxShort \in Nat
(* The longest answer, to a share that finds no workload, has 59 bytes. *)
ASSUME BufferAssumption == BufferLimit \in Nat /\ BufferLimit >= 59
ASSUME PayloadsAssumption == Payloads \subseteq Nat

VARIABLES
    sendBuffer,     \* opcode, fields, parserIndex and whether a write failed
    template,       \* number of the thread's template
    pc,             \* "events", "login" or "notify"
    todo,           \* miners the work is still to be sent to
    state,          \* of each miner, see States
    payloadNum,
    shares,         \* whether each share of each miner was accepted
    received,       \* packets each miner has understood
    lost,           \* miners to whom a send fell short (history)
    torn,           \* those that lost the framing by it
    failures,
    short

thread == <<sendBuffer, template, pc, todo>>
wire == <<received, lost, torn, short>>
vars == <<thread, state, payloadNum, shares, wire, failures>>

(* "marked" has `disconnected` set, "dropped" was closed by the pool.      *)
States == {"new", "in", "marked", "dropped", "left"}
AUTH_ACK == 2
WORKDATA1 == 3
SHARE_ACK == 5
PING == 8

Init ==
    /\ sendBuffer = [opcode |-> 0, fields |-> <<>>, parserIndex |-> 0, sendError |-> FALSE]
    /\ template = 1
    /\ pc = "events" /\ todo = {}
    /\ state = [c \in Clients |-> "new"]
    /\ payloadNum \in [Clients -> Payloads]
    /\ shares = [c \in Clients |-> <<>>]
    /\ received = [c \in Clients |-> <<>>]
    /\ lost = {} /\ torn = {} /\ failures = 0 /\ short = 0

-----------------------------------------------------------------------------
(* The packet buffer.                                                      *)

Field(width, count, value) == [width |-> width, count |-> count, value |-> value]

WriteOn(opcode) == [sendBuffer EXCEPT !.opcode = opcode, !.sendError = FALSE]
BeginWritePacket(opcode) ==
    [opcode |-> opcode, fields |-> <<>>, parserIndex |-> 4, sendError |-> FALSE]

Unchecked(pb, f) ==
    [pb EXCEPT !.fields = Append(@, f), !.parserIndex = @ + f.count * f.width]
Strict(pb, f) ==
    IF pb.sendError \/ pb.parserIndex + f.count * f.width >= BufferLimit - f.width
    THEN [pb EXCEPT !.sendError = TRUE]
    ELSE Unchecked(pb, f)

(* One write, or a loop of them: it stops where the buffer is full, and a  *)
(* handler writes no more after an error.                                  *)
Write(pb, f) ==
    LET room == (BufferLimit - pb.parserIndex) \div f.width
        n == IF f.count <= room THEN f.count ELSE room
    IN  IF pb.sendError \/ f.width = 0 THEN pb
        ELSE [pb EXCEPT !.fields = Append(@, [f EXCEPT !.count = n]),
                        !.parserIndex = @ + n * f.width,
                        !.sendError = n < f.count]

Built(opcode, fields) == FoldLeft(Write, BeginWritePacket(opcode), fields)

FinalizeWritePacket(pb) ==
    [opcode |-> pb.opcode, size |-> pb.parserIndex - 4, fields |-> pb.fields]

(* send() puts the packet, a part of it or nothing into the stream. *)
Send(c, pb) ==
    \/ /\ received' = IF c \in torn THEN received
                      ELSE [received EXCEPT ![c] = Append(@, FinalizeWritePacket(pb))]
       /\ UNCHANGED <<lost, torn, short>>
    \/ /\ short < MaxShort /\ short' = short + 1
       /\ lost' = lost \cup {c}
       /\ torn' \in {torn, torn \cup {c}}
       /\ UNCHANGED received

-----------------------------------------------------------------------------
(* The layout of the packets.                                              *)

U32(value) == Field(4, 1, value)
Text(prefix, length) == Field(prefix + length, 1, "text")

(* The longest text a login is answered with has 40 characters. *)
AuthFields(code) == <<U32(code), Text(2, IF code = 0 THEN 29 ELSE 40)>>
(* A string of up to 512 characters has a prefix of two bytes; the longest *)
(* text a share is refused with has 45 characters.                         *)
ShareFields(k, ok) == <<U32([share |-> k, ok |-> ok]), Text(2, IF ok THEN 0 ELSE 45), U32("value")>>
PingFields == <<Field(8, 1, "timestamp")>>
WorkFields(c, b) ==
    <<U32("version"), U32("height"), U32("nBits"), U32("nBitsShare"), U32("nTime"),
      Field(32, 1, b), U32(payloadNum[c]), Field(32, payloadNum[c], <<c, b>>)>>

-----------------------------------------------------------------------------
(* The handlers.                                                           *)

Room(c) == Len(received[c]) < MaxPackets[c] /\ Len(shares[c]) < MaxPackets[c]
Fails == failures < MaxFailures /\ failures' = failures + 1
To(c, s) == state' = [state EXCEPT ![c] = s]

(* A login that is refused: the number of workloads is out of range, or    *)
(* the worker is not found.                                                *)
RejectLogin(c) ==
    /\ pc = "events" /\ state[c] = "new"
    /\ (payloadNum[c] \notin 1..128 /\ UNCHANGED failures) \/ Fails
    /\ sendBuffer' = Built(AUTH_ACK, AuthFields(1))
    /\ Send(c, sendBuffer')
    /\ To(c, "dropped")
    /\ UNCHANGED <<template, pc, todo, payloadNum, shares>>

(* A login that succeeds; the first block of data is next. *)
Login(c) ==
    /\ pc = "events" /\ state[c] = "new"
    /\ payloadNum[c] \in 1..128
    /\ sendBuffer' = Built(AUTH_ACK, AuthFields(0))
    /\ Send(c, sendBuffer')
    /\ To(c, "in")
    /\ pc' = "login" /\ todo' = {c}
    /\ UNCHANGED <<template, payloadNum, shares, failures>>

(* The thread has a new template, and sends work to everyone. *)
NewTemplate ==
    /\ pc = "events" /\ template < MaxTemplates
    /\ \A c \in Clients : Room(c)
    /\ template' = template + 1
    /\ todo' = {c \in Clients : state[c] = "in"}
    /\ pc' = "notify"
    /\ UNCHANGED <<sendBuffer, state, payloadNum, shares, wire, failures>>

(* What the callers of xptServer_sendBlockData do when it fails. *)
Unserved(c) == To(c, IF pc = "login" THEN "dropped" ELSE "marked")

SendBlockData(c) ==
    LET pb == Built(WORKDATA1, WorkFields(c, template))
    IN  /\ pc # "events" /\ c \in todo
        /\ todo' = todo \ {c}
        /\ sendBuffer' = pb
        /\ IF pb.sendError
           THEN Unserved(c) /\ UNCHANGED wire
           ELSE Send(c, pb) /\ UNCHANGED state
        /\ UNCHANGED <<template, pc, payloadNum, shares, failures>>

GenerateWorkFails(c) ==
    /\ pc # "events" /\ c \in todo
    /\ Fails
    /\ todo' = todo \ {c}
    /\ Unserved(c)
    /\ UNCHANGED <<sendBuffer, template, pc, payloadNum, shares, wire>>

WorkDone ==
    /\ pc # "events" /\ todo = {}
    /\ pc' = "events"
    /\ UNCHANGED <<sendBuffer, template, todo, state, payloadNum, shares, wire, failures>>

(* Whether checkWork returns true: the share is valid, and if it is a      *)
(* block then it is not refused: it is not stale, ProcessBlock accepts it  *)
(* and its row is saved.  That the row of a share could not be saved is    *)
(* only logged.                                                            *)
Outcome(valid, block) == valid /\ block # "refused"

(* Every share is answered. *)
AnsweredIfOk(ok) == ok
Answered(ok) == TRUE

SubmitShare(c, valid, block) ==
    LET ok == Outcome(valid, block)
        k == Len(shares[c]) + 1
    IN  /\ pc = "events" /\ state[c] = "in" /\ Room(c)
        /\ shares' = [shares EXCEPT ![c] = Append(@, ok)]
        /\ IF Answered(ok)
           THEN /\ sendBuffer' = Built(SHARE_ACK, ShareFields(k, ok))
                /\ Send(c, sendBuffer')
           ELSE UNCHANGED <<sendBuffer, wire>>
        /\ UNCHANGED <<template, pc, todo, state, payloadNum, failures>>

PingRequest(c) ==
    /\ pc = "events" /\ state[c] \in {"in", "marked"} /\ Room(c)
    /\ sendBuffer' = Built(PING, PingFields)
    /\ Send(c, sendBuffer')
    /\ UNCHANGED <<template, pc, todo, state, payloadNum, shares, failures>>

(* The miner hangs up, or sends a share after it was marked. *)
Close(c) ==
    /\ pc = "events" /\ state[c] \in {"new", "in", "marked"}
    /\ To(c, "left")
    /\ UNCHANGED <<thread, payloadNum, shares, wire, failures>>

Next ==
    \/ \E c \in Clients : \/ RejectLogin(c) \/ Login(c) \/ PingRequest(c) \/ Close(c)
                          \/ SendBlockData(c) \/ GenerateWorkFails(c)
    \/ \E c \in Clients, valid \in BOOLEAN, block \in {"none", "refused", "accepted"} :
          SubmitShare(c, valid, block)
    \/ NewTemplate \/ WorkDone

Spec == Init /\ [][Next]_vars
-----------------------------------------------------------------------------
(* TypeOK: the state has its types, and the send buffer is not overrun.    *)
TypeOK ==
    /\ sendBuffer.parserIndex \in 0..BufferLimit
    /\ template \in 1..MaxTemplates
    /\ pc \in {"events", "login", "notify"} /\ todo \subseteq Clients
    /\ state \in [Clients -> States] /\ payloadNum \in [Clients -> Payloads]
    /\ torn \subseteq lost /\ lost \subseteq Clients
    /\ failures \in 0..MaxFailures /\ short \in 0..MaxShort

(* PacketsAreTheirOwn: whatever was written into the send buffer before,   *)
(* finished or given up half way, a packet has the fields of its layout,   *)
(* with the data of the miner it is sent to, and their size in its header. *)
Size(fields) == FoldLeft(LAMBDA n, f : n + f.width * f.count, 0, fields)
Layouts(c, p) ==
    CASE p.opcode = AUTH_ACK -> {AuthFields(code) : code \in 0..1}
      [] p.opcode = WORKDATA1 -> {WorkFields(c, b) : b \in 1..template}
      [] p.opcode = SHARE_ACK -> {ShareFields(k, shares[c][k]) : k \in DOMAIN shares[c]}
      [] p.opcode = PING -> {PingFields}
PacketsAreTheirOwn ==
    \A c \in Clients : \A i \in DOMAIN received[c] :
        LET p == received[c][i]
        IN  p.fields \in Layouts(c, p) /\ p.size = Size(p.fields)

(* SuccessMeansWork: a miner that is logged in has its work by the time    *)
(* the thread is back in its loop, unless the work was lost on the way.    *)
(* If generating work never fails, every miner whose login was answered    *)
(* with success gets that far.  This holds for up to 126 workloads; the    *)
(* work of a miner that asks for 127 or 128, which is also in the "Valid   *)
(* range: 1-128", does not fit the send buffer.                            *)
Entitled(c) ==
    \/ state[c] = "in"
    \/ /\ failures = 0 /\ state[c] # "left" /\ payloadNum[c] \in 1..126
       /\ \E i \in DOMAIN received[c] : received[c][i].fields = AuthFields(0)
SuccessMeansWork ==
    pc = "events" => \A c \in Clients \ lost :
        Entitled(c) => \E i \in DOMAIN received[c] : received[c][i].opcode = WORKDATA1

(* AnswersMatchShares: the answers a miner gets are about its shares in    *)
(* the order it sent them, which is all it can go by, since the packet     *)
(* does not have the share id.  A miner to whom a send fell short cannot   *)
(* tell any more.                                                          *)
AnswersUpTo(c, i) == {j \in 1..i : received[c][j].opcode = SHARE_ACK}
AnswersMatchShares ==
    \A c \in Clients \ lost : \A i \in DOMAIN received[c] :
        received[c][i].opcode = SHARE_ACK =>
            received[c][i].fields[1].value.share = Cardinality(AnswersUpTo(c, i))
=============================================================================
