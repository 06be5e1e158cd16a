--------------------------- MODULE XptLoginProofs ---------------------------
(***************************************************************************)
(* Proofs about XptLogin, for every number of threads, every set of miners *)
(* and names, and every column.                                            *)
(***************************************************************************)
EXTENDS XptLogin, FiniteSetTheorems, TLAPS

(* The ids of the table are given out once. *)
IdInv ==
    /\ \A r \in worker : r.id < nextId
    /\ \A r, s \in worker : r.id = s.id => r = s

Booked(c) == \E r \in worker : r.id = workerId[c] /\ r.name = NameOf[c]

(* A miner whose login has found a row stays booked under it. *)
BookedInv == \A c \in Clients : state[c] \in {"online", "in"} => Booked(c)

IInv == TypeOK /\ IdInv /\ BookedInv /\ SameWorkerSameRow

-----------------------------------------------------------------------------
(* A select that returns one row returns one with the name asked for.      *)
LEMMA RowIdFacts ==
    ASSUME NEW n, Cardinality(Rows(n)) = 1
    PROVE  \E r \in worker : r.id = RowId(n) /\ r.name = n
<1>1. Rows(n) # {} BY FS_EmptySet
<1> QED BY <1>1 DEF RowId, Rows

LEMMA Typing == TypeOK /\ [Next]_vars => TypeOK'
<1> SUFFICES ASSUME TypeOK, [Next]_vars PROVE TypeOK' OBVIOUS
<1> USE DEF TypeOK, States, InLogin, acceptVars, table
<1>1. CASE UNCHANGED vars BY <1>1 DEF vars
<1>2. ASSUME NEW c \in Clients, Connect(c) PROVE TypeOK'
  BY <1>2 DEF Connect, To
<1>3. CASE AcceptEvent BY <1>3 DEF AcceptEvent
<1>4. CASE AcceptEnds BY <1>4 DEF AcceptEnds
<1>5. ASSUME NEW c \in Clients, Accept(c) PROVE TypeOK'
  <2>1. NextThread \in Threads /\ NextThread + 1 \in 0..NThreads
    BY ThreadsAssumption DEF NextThread, Threads
  <2> QED BY <1>5, <2>1 DEF Accept, To, AcceptMore
<1>6. ASSUME NEW t \in Threads, NEW made \in BOOLEAN, StartThread(t, made) PROVE TypeOK'
  BY <1>6 DEF StartThread
<1>7. ASSUME NEW t \in Threads, NEW c \in Clients, Hangup(t, c) PROVE TypeOK'
  BY <1>7 DEF Hangup, Close, To, NoId
<1>8. ASSUME NEW c \in Clients, QueryFails(c) PROVE TypeOK'
  BY <1>8, BoundsAssumption DEF QueryFails, Close, To, NoId
<1>9. ASSUME NEW c \in Clients, Cardinality(Rows(NameOf[c])) = 1
      PROVE  RowId(NameOf[c]) \in Nat
  <2>1. \E r \in worker : r.id = RowId(NameOf[c]) BY <1>9, RowIdFacts
  <2> QED BY <2>1
<1>10. ASSUME NEW t \in Threads, NEW c \in Clients, AuthRequest(t, c) PROVE TypeOK'
  BY <1>8, <1>9, <1>10 DEF AuthRequest, To
<1>11. ASSUME NEW c \in Clients, Insert(c) PROVE TypeOK'
  <2>1. CASE QueryFails(c) BY <1>8, <2>1
  <2>2. CASE ~QueryFails(c)
    <3>1. Column[NameOf[c]] \in Names BY NamesAssumption
    <3> DEFINE row == [id |-> nextId, name |-> Column[NameOf[c]], online |-> FALSE]
               Row == [id : Nat, name : Names, online : BOOLEAN]
    <3>2. row \in Row /\ worker \subseteq Row BY <3>1
    <3>3. CASE ~Duplicate(Column[NameOf[c]])
      <4>0. worker' = worker \cup {row} /\ nextId' = nextId + 1
        BY <1>11, <2>2, <3>3 DEF Insert
      <4>1. worker' \subseteq Row /\ nextId' \in Nat
        <5> HIDE DEF row, Row
        <5> QED BY <3>2, <4>0
      <4>2. state' \in [Clients -> States] /\ UNCHANGED workerId
        BY <1>11, <2>2, <3>3 DEF Insert, To
      <4> QED BY <1>11, <2>2, <3>3, <4>1, <4>2 DEF Insert
    <3>4. CASE Duplicate(Column[NameOf[c]])
      BY <1>11, <2>2, <3>4 DEF Insert, To, Close, NoId
    <3> QED BY <3>3, <3>4
  <2> QED BY <2>1, <2>2
<1>12. ASSUME NEW c \in Clients, Again(c) PROVE TypeOK'
  BY <1>8, <1>9, <1>12 DEF Again, To
<1>13. ASSUME NEW c \in Clients, Online(c) PROVE TypeOK'
  <2>1. CASE QueryFails(c) BY <1>8, <2>1
  <2>2. CASE ~QueryFails(c)
    <3>1. worker' = {IF r.id = workerId[c] THEN [r EXCEPT !.online = TRUE] ELSE r : r \in worker}
      BY <1>13, <2>2 DEF Online
    <3>2. worker' \subseteq [id : Nat, name : Names, online : BOOLEAN]
      BY <3>1
    <3> QED BY <1>13, <2>2, <3>2 DEF Online, To
  <2> QED BY <2>1, <2>2
<1>14. CASE Restart
  <2>1. worker' \subseteq [id : Nat, name : Names, online : BOOLEAN] BY <1>14 DEF Restart
  <2>2. /\ running' \in [Threads -> {"start", "yes", "no"}]
        /\ state' \in [Clients -> States] /\ workerId' \in [Clients -> Nat]
    BY <1>14 DEF Restart, NoId
  <2>3. iThreadUsed' \in 0..NThreads /\ restarts' \in 0..MaxRestarts
    BY <1>14, ThreadsAssumption, BoundsAssumption DEF Restart
  <2> QED BY <1>14, <2>1, <2>2, <2>3 DEF Restart
<1> QED
  BY <1>1, <1>2, <1>3, <1>4, <1>5, <1>6, <1>7, <1>10, <1>11, <1>12, <1>13, <1>14
     DEF Next, Accepting, Login

LEMMA InitType == Init => TypeOK
<1> SUFFICES ASSUME Init PROVE TypeOK OBVIOUS
<1>1. 0 \in Threads /\ 0 \in 0..NThreads /\ 0 \in 0..MaxFailures /\ 0 \in 0..MaxRestarts
  BY ThreadsAssumption, BoundsAssumption DEF Threads
<1>2. /\ running \in [Threads -> {"start", "yes", "no"}] /\ state \in [Clients -> States]
      /\ owner \in [Clients -> Threads]
      /\ workerId \in [Clients -> Nat] /\ logins \in [Clients -> Nat]
  BY <1>1 DEF Init, States, NoId
<1>3. worker \subseteq [id : Nat, name : Names, online : BOOLEAN] /\ nextId \in Nat
  BY DEF Init, FirstId
<1>4. edge \in BOOLEAN /\ accepting \in BOOLEAN /\ acceptFailed \in BOOLEAN
  BY DEF Init
<1>5. iThreadUsed = 0 /\ failures = 0 /\ restarts = 0 BY DEF Init
<1> QED BY <1>1, <1>2, <1>3, <1>4, <1>5 DEF TypeOK

(* TypeCorrect: the state keeps its types; above all, the round robin never *)
(* indexes the vector of epoll descriptors past its end.                    *)
THEOREM TypeCorrect == Spec => []TypeOK
BY InitType, Typing, PTL DEF Spec

-----------------------------------------------------------------------------
(* EdgesSuffice: a connection waits without an event only after a failed   *)
(* accept, since the loop ends only when nobody is waiting and every later *)
(* connection queues an event.                                             *)
THEOREM EdgesSuffice == Spec => []NoForgottenConnection
<1>1. Init => NoForgottenConnection
  BY DEF Init, NoForgottenConnection, Waiting
<1>2. TypeOK /\ NoForgottenConnection /\ [Next]_vars => NoForgottenConnection'
  <2> SUFFICES ASSUME TypeOK, NoForgottenConnection, [Next]_vars,
                      NEW d \in Clients, state'[d] = "waiting"
               PROVE  edge' \/ accepting' \/ acceptFailed'
    BY DEF NoForgottenConnection, Waiting
  <2> USE DEF acceptVars, table
  <2>1. CASE \E c \in Clients : Connect(c) BY <2>1 DEF Connect
  <2>2. CASE AcceptEvent BY <2>2 DEF AcceptEvent
  <2>3. CASE AcceptEnds
    <3>1. d \in Waiting BY <2>3 DEF AcceptEnds, Waiting
    <3> QED BY <2>3, <3>1 DEF AcceptEnds
  <2>4. CASE \E c \in Clients : Accept(c) BY <2>4 DEF Accept, AcceptMore
  <2>5. CASE Restart BY <2>5 DEF Restart
  <2>6. CASE \/ UNCHANGED vars
             \/ \E t \in Threads, made \in BOOLEAN : StartThread(t, made)
    BY <2>6 DEF vars, StartThread, NoForgottenConnection, Waiting
  <2>7. ASSUME NEW c \in Clients, NEW s, s # "waiting", To(c, s), UNCHANGED acceptVars
        PROVE  edge' \/ accepting' \/ acceptFailed'
    <3>1. d \in Waiting BY <2>7 DEF To, TypeOK, Waiting
    <3> QED BY <2>7, <3>1 DEF NoForgottenConnection
  <2>8. CASE \E c \in Clients : Login(c) \/ \E t \in Threads : AuthRequest(t, c) \/ Hangup(t, c)
    BY <2>7, <2>8 DEF Login, Insert, Again, Online, AuthRequest, Hangup, QueryFails, Close
  <2> QED BY <2>1, <2>2, <2>3, <2>4, <2>5, <2>6, <2>8 DEF Next, Accepting
<1> QED BY <1>1, <1>2, TypeCorrect, PTL DEF Spec

-----------------------------------------------------------------------------
(* Steps that leave the table alone and put no miner into "online" or      *)
(* "in" that was not there.                                                *)
LEMMA TableUnchanged ==
    ASSUME IInv, UNCHANGED <<worker, nextId>>,
           \A c \in Clients : state'[c] \in {"online", "in"} =>
              state'[c] = state[c] /\ workerId'[c] = workerId[c]
    PROVE  IdInv' /\ BookedInv' /\ SameWorkerSameRow'
<1>1. IdInv' BY DEF IInv, IdInv
<1>2. BookedInv' BY DEF IInv, BookedInv, Booked
<1>3. SameWorkerSameRow' BY DEF IInv, SameWorkerSameRow
<1> QED BY <1>1, <1>2, <1>3

(* A select that finds one row. *)
LEMMA RowFound ==
    ASSUME IInv, NEW c \in Clients, Cardinality(Rows(NameOf[c])) = 1, UNCHANGED <<worker, nextId>>,
           workerId' = [workerId EXCEPT ![c] = RowId(NameOf[c])], To(c, "online")
    PROVE  IdInv' /\ BookedInv' /\ SameWorkerSameRow'
<1>2. \E r \in worker : r.id = RowId(NameOf[c]) /\ r.name = NameOf[c]
  BY RowIdFacts
<1>3. /\ state'[c] = "online" /\ workerId'[c] = RowId(NameOf[c])
      /\ \A d \in Clients : d # c => state'[d] = state[d] /\ workerId'[d] = workerId[d]
  BY DEF IInv, TypeOK, To
<1>4. IdInv' BY DEF IInv, IdInv
<1>5. BookedInv' BY <1>2, <1>3 DEF IInv, BookedInv, Booked
<1>6. SameWorkerSameRow' BY <1>3 DEF IInv, SameWorkerSameRow
<1> QED BY <1>4, <1>5, <1>6

(* A new row: its id was not given out before. *)
LEMMA RowInserted ==
    ASSUME IInv, NEW c \in Clients, NEW n,
           worker' = worker \cup {[id |-> nextId, name |-> n, online |-> FALSE]},
           nextId' = nextId + 1, To(c, "again"), UNCHANGED workerId
    PROVE  IdInv' /\ BookedInv' /\ SameWorkerSameRow'
<1>1. IdInv'
  <2>1. nextId \in Nat /\ \A r \in worker : r.id \in Nat /\ r.id < nextId
    BY DEF IInv, TypeOK, IdInv
  <2> DEFINE new == [id |-> nextId, name |-> n, online |-> FALSE]
  <2>2. worker' = worker \cup {new} /\ new.id = nextId OBVIOUS
  <2> HIDE DEF new
  <2>3. \A r \in worker' : r.id < nextId' BY <2>1, <2>2
  <2>4. \A r, s \in worker' : r.id = s.id => r = s BY <2>1, <2>2 DEF IInv, IdInv
  <2> QED BY <2>3, <2>4 DEF IdInv
<1>2. \A d \in Clients : state'[d] # "again" => state'[d] = state[d]
  BY DEF IInv, TypeOK, To
<1>3. BookedInv' BY <1>2 DEF IInv, BookedInv, Booked
<1>4. SameWorkerSameRow' BY <1>2 DEF IInv, SameWorkerSameRow
<1> QED BY <1>1, <1>3, <1>4

(* The update changes no id and no name, and the miner's row is there. *)
LEMMA RowUpdated ==
    ASSUME IInv, NEW c \in Clients, state[c] = "online",
           worker' = {IF r.id = workerId[c] THEN [r EXCEPT !.online = TRUE] ELSE r : r \in worker},
           To(c, "in"), UNCHANGED <<workerId, nextId>>
    PROVE  IdInv' /\ BookedInv' /\ SameWorkerSameRow'
<1> DEFINE upd == [r \in worker |->
                     IF r.id = workerId[c] THEN [r EXCEPT !.online = TRUE] ELSE r]
<1>1. \A r \in worker : upd[r] \in worker' /\ upd[r].id = r.id /\ upd[r].name = r.name
  BY DEF IInv, TypeOK
<1>2. \A r \in worker : r.online => upd[r].online
  BY DEF IInv, TypeOK
<1>3. \A r \in worker : r.id = workerId[c] => upd[r].online
  BY DEF IInv, TypeOK
<1>4. \A q \in worker' : \E r \in worker : q = upd[r] OBVIOUS
<1>5. state'[c] = "in" /\ \A d \in Clients : d # c => state'[d] = state[d]
  BY DEF IInv, TypeOK, To
<1>6. workerId' = workerId /\ nextId' = nextId OBVIOUS
<1> HIDE DEF upd
<1>7. IdInv'
  <2>1. \A q \in worker' : q.id < nextId' BY <1>1, <1>4, <1>6 DEF IInv, IdInv
  <2>2. ASSUME NEW p \in worker', NEW q \in worker', p.id = q.id PROVE p = q
    <3>1. PICK r \in worker : p = upd[r] BY <1>4
    <3>2. PICK z \in worker : q = upd[z] BY <1>4
    <3>3. r = z BY <1>1, <2>2, <3>1, <3>2 DEF IInv, IdInv
    <3> QED BY <3>1, <3>2, <3>3
  <2> QED BY <2>1, <2>2 DEF IdInv
<1>8. BookedInv'
  <2> SUFFICES ASSUME NEW d \in Clients, state'[d] \in {"online", "in"} PROVE Booked(d)'
    BY DEF BookedInv
  <2>1. Booked(d) BY <1>5 DEF IInv, BookedInv
  <2>2. PICK r \in worker : r.id = workerId[d] /\ r.name = NameOf[d] BY <2>1 DEF Booked
  <2> QED BY <1>1, <1>6, <2>2 DEF Booked
<1>9. SameWorkerSameRow'
  <2> SUFFICES ASSUME NEW d \in Clients, state'[d] = "in"
               PROVE  \E q \in worker' : q.id = workerId[d] /\ q.name = NameOf[d] /\ q.online
    BY <1>6 DEF SameWorkerSameRow
  <2>1. CASE d = c
    <3>1. PICK r \in worker : r.id = workerId[c] /\ r.name = NameOf[c]
      BY DEF IInv, BookedInv, Booked
    <3> QED BY <1>1, <1>3, <2>1, <3>1
  <2>2. CASE d # c
    <3>1. PICK r \in worker : r.id = workerId[d] /\ r.name = NameOf[d] /\ r.online
      BY <1>5, <2>2 DEF IInv, SameWorkerSameRow
    <3> QED BY <1>1, <1>2, <3>1
  <2> QED BY <2>1, <2>2
<1> QED BY <1>7, <1>8, <1>9

(* At a restart nobody is logged in, and the rows keep ids and names. *)
LEMMA Restarted == ASSUME IInv, Restart PROVE IdInv' /\ BookedInv' /\ SameWorkerSameRow'
<1> DEFINE off == [r \in worker |-> [r EXCEPT !.online = FALSE]]
<1>1. \A r \in worker : off[r].id = r.id BY DEF IInv, TypeOK
<1>2. \A q \in worker' : \E r \in worker : q = off[r] BY DEF Restart
<1>3. nextId' = nextId /\ \A c \in Clients : state'[c] = "out" BY DEF Restart
<1> HIDE DEF off
<1>4. IdInv' BY <1>1, <1>2, <1>3 DEF IInv, IdInv
<1>5. BookedInv' /\ SameWorkerSameRow' BY <1>3 DEF BookedInv, SameWorkerSameRow
<1> QED BY <1>4, <1>5

LEMMA Booking == ASSUME IInv, [Next]_vars PROVE IInv'
<1>1. TypeOK' BY Typing DEF IInv
<1> SUFFICES IdInv' /\ BookedInv' /\ SameWorkerSameRow' BY <1>1 DEF IInv
<1> USE DEF table, acceptVars
<1>2. ASSUME NEW c \in Clients, NEW s, s \notin {"online", "in"}, To(c, s), UNCHANGED <<worker, nextId>>,
             UNCHANGED workerId \/ workerId' = [workerId EXCEPT ![c] = NoId]
      PROVE  IdInv' /\ BookedInv' /\ SameWorkerSameRow'
  <2>1. \A d \in Clients : state'[d] \in {"online", "in"} =>
           state'[d] = state[d] /\ workerId'[d] = workerId[d]
    BY <1>2 DEF To, IInv, TypeOK
  <2> QED BY <1>2, <2>1, TableUnchanged
<1>3. ASSUME UNCHANGED <<state, workerId, worker, nextId>>
      PROVE  IdInv' /\ BookedInv' /\ SameWorkerSameRow'
  BY <1>3, TableUnchanged
<1>4. CASE \/ UNCHANGED vars \/ AcceptEvent \/ AcceptEnds
           \/ \E t \in Threads, made \in BOOLEAN : StartThread(t, made)
  BY <1>3, <1>4 DEF vars, AcceptEvent, AcceptEnds, StartThread
<1>5. CASE \E c \in Clients : Connect(c) \/ Accept(c) BY <1>2, <1>5 DEF Connect, Accept
<1>6. CASE \E t \in Threads, c \in Clients : Hangup(t, c) BY <1>2, <1>6 DEF Hangup, Close
<1>7. ASSUME NEW c \in Clients, QueryFails(c) PROVE IdInv' /\ BookedInv' /\ SameWorkerSameRow'
  BY <1>2, <1>7 DEF QueryFails, Close
<1>8. ASSUME NEW c \in Clients, NEW t \in Threads, AuthRequest(t, c)
      PROVE  IdInv' /\ BookedInv' /\ SameWorkerSameRow'
  BY <1>2, <1>7, <1>8, RowFound DEF AuthRequest
<1>9. ASSUME NEW c \in Clients, Insert(c) PROVE IdInv' /\ BookedInv' /\ SameWorkerSameRow'
  BY <1>2, <1>7, <1>9, RowInserted DEF Insert, Close
<1>10. ASSUME NEW c \in Clients, Again(c) PROVE IdInv' /\ BookedInv' /\ SameWorkerSameRow'
  BY <1>2, <1>7, <1>10, RowFound DEF Again
<1>11. ASSUME NEW c \in Clients, Online(c) PROVE IdInv' /\ BookedInv' /\ SameWorkerSameRow'
  BY <1>7, <1>11, RowUpdated DEF Online
<1> QED
  BY <1>4, <1>5, <1>6, <1>8, <1>9, <1>10, <1>11, Restarted DEF Next, Accepting, Login

(* RowsAreShared: miners that are logged in are booked under the row with  *)
(* their own name, for any number of threads and failing queries, and      *)
(* although the select and the insert of a first login are not one         *)
(* transaction.                                                            *)
THEOREM RowsAreShared == Spec => []SameWorkerSameRow
<1>1. Init => IInv
  <2>1. Init => IdInv /\ BookedInv /\ SameWorkerSameRow
    BY DEF Init, IdInv, BookedInv, SameWorkerSameRow
  <2> QED BY <2>1, InitType DEF IInv
<1>2. IInv /\ [Next]_vars => IInv' BY Booking
<1>3. IInv => SameWorkerSameRow BY DEF IInv
<1> QED BY <1>1, <1>2, <1>3, PTL DEF Spec
=============================================================================
