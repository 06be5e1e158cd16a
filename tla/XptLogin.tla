------------------------------ MODULE XptLogin ------------------------------
(***************************************************************************)
(* How a miner gets in: the accepting thread takes connections from an     *)
(* edge-triggered listening socket and gives them to the listening threads *)
(* in turn; a listening thread handles the login, which finds or creates   *)
(* the worker's row in the database with up to four queries, each seen by  *)
(* the other threads.                                                      *)
(*                                                                         *)
(* What a miner does once it is logged in is the subject of XptServer.     *)
(***************************************************************************)
EXTENDS Integers, FiniteSets

CONSTANTS
    NThreads,       \* number of listening threads (-threads)
    Clients,        \* miners, each with one connection at a time
    Names,          \* worker names
    NameOf,         \* the name each miner logs in with
    Column,         \* what the column `name` varchar(32) keeps of a name
    MaxFiles,       \* connections the process may have open (RLIMIT_NOFILE)
    MaxFailures,    \* bound on the number of failing queries
    MaxLogins,      \* bound on the number of connections of each miner
    MaxRestarts     \* bound on the number of restarts

Threads == 0..NThreads - 1

ASSUME ThreadsAssumption == NThreads \in Nat \ {0}
ASSUME NamesAssumption == NameOf \in [Clients -> Names] /\ Column \in [Names -> Names]
ASSUME ColumnAssumption == \A n \in Names : Column[Column[n]] = Column[n]
ASSUME BoundsAssumption == /\ MaxFiles \in Nat /\ MaxFailures \in Nat
                           /\ MaxLogins \in [Clients -> Nat] /\ MaxRestarts \in Nat

VARIABLES
    edge,           \* an event of the listening socket is queued
    accepting,      \* the accepting thread is in its inner loop
    acceptFailed,   \* accept has failed for want of a descriptor (history)
    iThreadUsed,
    running,        \* listening threads: "start", "yes" or "no"
    state,          \* of each miner, see States
    owner,          \* the thread that got the connection
    workerId,       \* of a miner that is logging in or logged in
    logins,         \* connections each miner has made
    worker,         \* rows of the table `worker`
    nextId,         \* its AUTO_INCREMENT
    failures,
    restarts

acceptVars == <<edge, accepting, acceptFailed, iThreadUsed>>
table == <<worker, nextId>>
vars == <<acceptVars, running, state, owner, workerId, logins, table, failures, restarts>>

InLogin == {"insert", "again", "online"}
States == {"out", "waiting", "new", "in", "refused"} \cup InLogin
NoId == 0
FirstId == 1335     \* of the table; row 1, which notifications write, is a dummy

Init ==
    /\ edge = FALSE /\ accepting = FALSE /\ acceptFailed = FALSE /\ iThreadUsed = 0
    /\ running = [t \in Threads |-> "start"]
    /\ state = [c \in Clients |-> "out"]
    /\ owner = [c \in Clients |-> 0]
    /\ workerId = [c \in Clients |-> NoId]
    /\ logins = [c \in Clients |-> 0]
    /\ worker = {} /\ nextId = FirstId
    /\ failures = 0 /\ restarts = 0

-----------------------------------------------------------------------------
(* Connections.                                                            *)

Waiting == {c \in Clients : state[c] = "waiting"}
Open == {c \in Clients : state[c] \notin {"out", "waiting", "refused"}}
To(c, s) == state' = [state EXCEPT ![c] = s]

(* A miner connects: the kernel queues it and reports an edge. *)
Connect(c) ==
    /\ state[c] = "out" /\ logins[c] < MaxLogins[c]
    /\ logins' = [logins EXCEPT ![c] = @ + 1]
    /\ To(c, "waiting")
    /\ edge' = TRUE
    /\ UNCHANGED <<accepting, acceptFailed, iThreadUsed, running, owner, workerId, table,
                   failures, restarts>>

AcceptEvent ==
    /\ edge /\ ~accepting
    /\ edge' = FALSE /\ accepting' = TRUE
    /\ UNCHANGED <<acceptFailed, iThreadUsed, running, state, owner, workerId, logins, table,
                   failures, restarts>>

LateWrap == IF iThreadUsed > NThreads THEN 0 ELSE iThreadUsed
NextThread == IF iThreadUsed >= NThreads THEN 0 ELSE iThreadUsed

OnePerEvent == FALSE
AcceptMore == TRUE

Accept(c) ==
    /\ accepting /\ state[c] = "waiting"
    /\ Cardinality(Open) < MaxFiles
    /\ To(c, "new")
    /\ owner' = [owner EXCEPT ![c] = NextThread]
    /\ iThreadUsed' = NextThread + 1
    /\ accepting' = AcceptMore
    /\ UNCHANGED <<edge, acceptFailed, running, workerId, logins, table, failures, restarts>>

(* EAGAIN: there is nobody left.  Any other error ends the loop as well.   *)
AcceptEnds ==
    /\ accepting
    /\ \/ Waiting = {} /\ UNCHANGED acceptFailed
       \/ Waiting # {} /\ Cardinality(Open) >= MaxFiles /\ acceptFailed' = TRUE
    /\ accepting' = FALSE
    /\ UNCHANGED <<edge, iThreadUsed, running, state, owner, workerId, logins, table,
                   failures, restarts>>

(* A listening thread starts, or ends when there is no block template.     *)
StartThread(t, made) ==
    /\ running[t] = "start"
    /\ running' = [running EXCEPT ![t] = IF made THEN "yes" ELSE "no"]
    /\ UNCHANGED <<acceptVars, state, owner, workerId, logins, table, failures, restarts>>

(* The connection is closed and freed. *)
Close(c) ==
    /\ To(c, "out")
    /\ workerId' = [workerId EXCEPT ![c] = NoId]

(* A miner hangs up. *)
Hangup(t, c) ==
    /\ running[t] = "yes" /\ owner[c] = t /\ state[c] \in {"new", "in"}
    /\ \A d \in Clients : owner[d] = t => state[d] \notin InLogin
    /\ Close(c)
    /\ UNCHANGED <<acceptVars, running, owner, logins, table, failures, restarts>>

-----------------------------------------------------------------------------
(* xptServer_processPacket_authRequest: the queries of one login.          *)

Rows(n) == {r \in worker : r.name = n}
LatestId(n) == nextId - 1
RowId(n) == (CHOOSE r \in Rows(n) : TRUE).id

(* A query fails, and the client is dropped. *)
QueryFails(c) ==
    /\ failures < MaxFailures
    /\ failures' = failures + 1
    /\ Close(c)
    /\ UNCHANGED <<acceptVars, running, owner, logins, table, restarts>>

(* The first query looks for the worker. *)
AuthRequest(t, c) ==
    /\ running[t] = "yes" /\ owner[c] = t /\ state[c] = "new"
    /\ \A d \in Clients : owner[d] = t => state[d] \notin InLogin
    /\ \/ /\ Cardinality(Rows(NameOf[c])) = 1
          /\ workerId' = [workerId EXCEPT ![c] = RowId(NameOf[c])]
          /\ To(c, "online")
          /\ UNCHANGED <<acceptVars, running, owner, logins, table, failures, restarts>>
       \/ /\ Cardinality(Rows(NameOf[c])) # 1
          /\ To(c, "insert")
          /\ UNCHANGED <<acceptVars, running, owner, workerId, logins, table, failures, restarts>>
       \/ QueryFails(c)

(* The name is a unique key: a second row with it is an error. *)
NoKey(n) == FALSE
Duplicate(n) == Rows(n) # {}

Insert(c) ==
    LET stored == Column[NameOf[c]]
    IN  /\ state[c] = "insert"
        /\ \/ /\ ~Duplicate(stored)
              /\ worker' = worker \cup {[id |-> nextId, name |-> stored, online |-> FALSE]}
              /\ nextId' = nextId + 1
              /\ To(c, "again")
              /\ UNCHANGED <<acceptVars, running, owner, workerId, logins, failures, restarts>>
           \/ /\ Duplicate(stored)
              /\ Close(c)
              /\ UNCHANGED <<acceptVars, running, owner, logins, table, failures, restarts>>
           \/ QueryFails(c)

(* The worker is looked for once more; "SQL Error, Worker invalid". *)
Again(c) ==
    /\ state[c] = "again"
    /\ \/ /\ Cardinality(Rows(NameOf[c])) = 1
          /\ workerId' = [workerId EXCEPT ![c] = RowId(NameOf[c])]
          /\ To(c, "online")
          /\ UNCHANGED <<acceptVars, running, owner, logins, table, failures, restarts>>
       \/ /\ Cardinality(Rows(NameOf[c])) # 1
          /\ To(c, "refused")
          /\ UNCHANGED <<acceptVars, running, owner, workerId, logins, table, failures, restarts>>
       \/ QueryFails(c)

Online(c) ==
    /\ state[c] = "online"
    /\ \/ /\ worker' = {IF r.id = workerId[c] THEN [r EXCEPT !.online = TRUE] ELSE r : r \in worker}
          /\ To(c, "in")
          /\ UNCHANGED <<acceptVars, running, owner, workerId, logins, nextId, failures, restarts>>
       \/ QueryFails(c)

(* The pool starts again: "set all miners to offline". *)
Restart ==
    /\ restarts < MaxRestarts
    /\ restarts' = restarts + 1
    /\ edge' = FALSE /\ accepting' = FALSE /\ acceptFailed' = FALSE /\ iThreadUsed' = 0
    /\ running' = [t \in Threads |-> "start"]
    /\ state' = [c \in Clients |-> "out"]
    /\ workerId' = [c \in Clients |-> NoId]
    /\ worker' = {[r EXCEPT !.online = FALSE] : r \in worker}
    /\ UNCHANGED <<owner, logins, nextId, failures>>

Login(c) == Insert(c) \/ Again(c) \/ Online(c)
Accepting == AcceptEvent \/ AcceptEnds \/ \E c \in Clients : Accept(c)

Next ==
    \/ Accepting \/ Restart
    \/ \E c \in Clients : Connect(c) \/ Login(c)
    \/ \E t \in Threads, made \in BOOLEAN : StartThread(t, made)
    \/ \E t \in Threads, c \in Clients : AuthRequest(t, c) \/ Hangup(t, c)

Spec == Init /\ [][Next]_vars

(* The accepting thread and the listening threads go on; a connected miner *)
(* sends its login.                                                        *)
FairSpec ==
    /\ Spec
    /\ WF_vars(Accepting)
    /\ \A t \in Threads : WF_vars(\E made \in BOOLEAN : StartThread(t, made))
    /\ \A c \in Clients : /\ WF_vars(Login(c))
                          /\ SF_vars(\E t \in Threads : AuthRequest(t, c))
-----------------------------------------------------------------------------
(* TypeOK: the state has its types.                                        *)
TypeOK ==
    /\ edge \in BOOLEAN /\ accepting \in BOOLEAN /\ acceptFailed \in BOOLEAN
    /\ iThreadUsed \in 0..NThreads
    /\ running \in [Threads -> {"start", "yes", "no"}]
    /\ state \in [Clients -> States]
    /\ owner \in [Clients -> Threads]
    /\ workerId \in [Clients -> Nat] /\ logins \in [Clients -> Nat]
    /\ worker \subseteq [id : Nat, name : Names, online : BOOLEAN] /\ nextId \in Nat
    /\ failures \in 0..MaxFailures /\ restarts \in 0..MaxRestarts

(* NoForgottenConnection: a connection waits with no event queued only if  *)
(* accept failed; the edge-triggered socket reports it just once.          *)
NoForgottenConnection == Waiting # {} => edge \/ accepting \/ acceptFailed

(* SameWorkerSameRow: a miner that is logged in is booked under the row    *)
(* with its name, so two miners of a worker are booked under one, however  *)
(* the queries of first logins on different threads interleave.            *)
SameWorkerSameRow ==
    \A c \in Clients : state[c] = "in" =>
        \E r \in worker : r.id = workerId[c] /\ r.name = NameOf[c] /\ r.online

(* MinersGetIn: a connected miner is logged in, or closed and free to try  *)
(* again, unless accept failed or its thread has ended.  It is refused for *)
(* good ("SQL Error, Worker invalid") only if its name is longer than the  *)
(* column, though within the range that the login allows.                  *)
MinersGetIn ==
    \A c \in Clients :
        state[c] = "waiting" ~> \/ state[c] \in {"in", "out"}
                                \/ state[c] = "refused" /\ Column[NameOf[c]] # NameOf[c]
                                \/ acceptFailed \/ running[owner[c]] = "no"
=============================================================================
