-------------------------- MODULE XptServerProofs --------------------------
(***************************************************************************)
(* Proofs about XptServer, for every number of threads, clients, payloads, *)
(* blocks, shares and heights.                                             *)
(***************************************************************************)
EXTENDS XptServer, SequenceTheorems, TLAPS

WorkPlaces == {"coinbase", "height", "send"}
SharePlaces == {"saveshare", "submit", "process", "saveblock"}

(* Which client a thread holds on to, and when its notification loop is    *)
(* under way.                                                              *)
CurInv ==
    \A t \in Threads :
        /\ pc[t] \in WorkPlaces => cur[t] \in Clients /\ LoggedIn(cur[t])
        /\ pc[t] \in SharePlaces => cur[t] \in Clients
        /\ pc[t] \notin WorkPlaces \cup SharePlaces => cur[t] = NoClient
        /\ todo[t] # {} =>
              pc[t] = "notify" \/ (pc[t] \in WorkPlaces /\ caller[t] = "notify")

(* Only logged in clients have workloads, and none on a block to come. *)
WorkKnown ==
    \A c \in Clients :
        /\ ~LoggedIn(c) => arrCurrentBlocks[c] = <<>>
        /\ \A i \in 1..Len(arrCurrentBlocks[c]) :
              arrCurrentBlocks[c][i].prev \in 0..Len(height)

(* The workloads of the client being served are on the thread's template.  *)
WorkOnTemplate ==
    \A t \in Threads : pc[t] \in WorkPlaces =>
        \A i \in 1..Len(arrCurrentBlocks[cur[t]]) :
            arrCurrentBlocks[cur[t]][i].prev = currentBlock[t]

(* As long as a workload is on the best block, its thread takes the next   *)
(* height for the one being mined, except between the two reads of the     *)
(* best block in generateWork; and the thread does not see a new block.    *)
WorkHeight ==
    \A c \in Clients : \A i \in 1..Len(arrCurrentBlocks[c]) :
        arrCurrentBlocks[c][i].prev = tip =>
            /\ arrCurrentBlocks[c][i].coinbase = NextHeight
            /\ \/ coinTypeBlockHeight[owner[c]] = NextHeight
               \/ pc[owner[c]] = "height" /\ cur[owner[c]] = c
            /\ pc[owner[c]] # "template"

(* The share in hand belongs to the height being mined, and so does the    *)
(* block made of it.                                                       *)
ShareHeight ==
    \A t \in Threads :
        /\ pc[t] \in SharePlaces =>
              /\ share[t].solution \in Solutions
              /\ share[t].work.prev \in 1..Len(height)
              /\ coinTypeBlockHeight[t] = height[share[t].work.prev] + 1
        /\ pc[t] = "saveblock" =>
              /\ share[t].hash \in 1..Len(height)
              /\ height[share[t].hash] = height[share[t].work.prev] + 1

RowsHeight ==
    \A i \in 1..Len(shares) :
        /\ shares[i].work.prev \in 1..Len(height)
        /\ shares[i].blockheight = height[shares[i].work.prev] + 1

IInv ==
    /\ TypeOK
    /\ NoFreedClient
    /\ CurInv
    /\ WorkKnown
    /\ WorkOnTemplate
    /\ WorkHeight
    /\ ShareHeight
    /\ RowsHeight
    /\ BlocksHaveTheirHeight

-----------------------------------------------------------------------------
LEMMA InitIInv == Init => IInv
<1> SUFFICES ASSUME Init PROVE IInv
  OBVIOUS
<1> USE DEF Init
<1>1. 0 \in Threads
  BY ThreadsAssumption DEF Threads
<1>2. height \in Seq(Nat) /\ Len(height) = 1
  OBVIOUS
<1>3. TypeOK
  <2>1. coinTypeBlockHeight \in [Threads -> Nat]
    BY GarbageAssumption
  <2>2. share \in [Threads -> ShareInHand]
    BY DEF NoShare, ShareInHand, Workload
  <2>3. arrCurrentBlocks \in [Clients -> Seq(Workload)] /\ shares \in Seq(ShareRow)
    OBVIOUS
  <2>4. /\ tip \in 1..Len(height) /\ iThreadUsed \in 0..NThreads
        /\ currentBlock \in [Threads -> 0..Len(height)]
        /\ payloadNum \in [Clients -> 0..MaxPayload]
    BY <1>2, ThreadsAssumption, PayloadAssumption
  <2>5. pc \in [Threads -> Places]
    BY DEF Places
  <2>6. owner \in [Clients -> Threads]
    BY <1>1
  <2> QED
    BY <1>2, <2>1, <2>2, <2>3, <2>4, <2>5, <2>6 DEF TypeOK
<1>4. NoFreedClient
  BY DEF NoFreedClient
<1>5. CurInv
  BY DEF CurInv, WorkPlaces, SharePlaces
<1>6. WorkKnown /\ WorkHeight
  BY DEF WorkKnown, WorkHeight
<1>7. WorkOnTemplate /\ ShareHeight
  BY DEF WorkOnTemplate, ShareHeight, WorkPlaces, SharePlaces
<1>8. RowsHeight /\ BlocksHaveTheirHeight
  BY DEF RowsHeight, BlocksHaveTheirHeight
<1> QED
  BY <1>3, <1>4, <1>5, <1>6, <1>7, <1>8 DEF IInv

-----------------------------------------------------------------------------
(* A new block leaves the known ones as they are.                          *)
LEMMA BlocksGrow ==
    ASSUME height \in Seq(Nat), NEW h \in Nat, height' = Append(height, h)
    PROVE  /\ height' \in Seq(Nat)
           /\ Len(height) \in Nat /\ Len(height') = Len(height) + 1
           /\ \A b \in 1..Len(height) : height'[b] = height[b]
           /\ height'[Len(height) + 1] = h
BY AppendProperties, LenProperties

(* The next height is a height. *)
LEMMA NextHeightType ==
    ASSUME TypeOK PROVE NextHeight \in Nat /\ height[tip] \in Nat
BY ElementOfSeq DEF TypeOK, NextHeight

(* Type correctness, one step per action.                                  *)
LEMMA TypeStep ==
    ASSUME IInv, Next PROVE TypeOK'
<1> USE DEF Goto, nodeVars, workVars, loopVars, clientVars, dbVars
<1>0. TypeOK /\ Len(height) \in Nat /\ 0 \in Threads /\ <<>> \in Seq(Workload)
  <2>1. 0 \in Threads
    BY ThreadsAssumption DEF Threads
  <2>2. TypeOK
    BY DEF IInv
  <2>3. Len(height) \in Nat
    BY <2>2, LenProperties DEF TypeOK
  <2> QED
    BY <2>1, <2>2, <2>3
<1>1. ASSUME NEW h \in 1..MaxHeight, NewTip(h) PROVE TypeOK'
  <2>1. /\ height' \in Seq(Nat) /\ Len(height') = Len(height) + 1
        /\ tip' = Len(height) + 1
    BY <1>0, <1>1, BlocksGrow, BoundsAssumption DEF NewTip, TypeOK
  <2>2. tip' \in 1..Len(height')
    BY <1>0, <2>1
  <2>3. currentBlock' \in [Threads -> 0..Len(height')]
    <3>1. 0..Len(height) \subseteq 0..Len(height')
      BY <1>0, <2>1
    <3>2. currentBlock' = currentBlock /\ currentBlock \in [Threads -> 0..Len(height)]
      BY <1>0, <1>1 DEF NewTip, TypeOK
    <3> QED
      BY <3>1, <3>2
  <2> QED
    BY <1>0, <1>1, <2>1, <2>2, <2>3 DEF NewTip, TypeOK
<1>2. ASSUME NEW c \in Clients, Accept(c) PROVE TypeOK'
  <2>1. PICK t \in Threads : owner' = [owner EXCEPT ![c] = t] /\ iThreadUsed' = t + 1
    <3>1. NextThread \in Threads
      <4>1. iThreadUsed \in 0..NThreads
        BY <1>0 DEF TypeOK
      <4> QED
        BY <4>1, ThreadsAssumption DEF Threads, NextThread
    <3>2. owner' = [owner EXCEPT ![c] = NextThread] /\ iThreadUsed' = NextThread + 1
      BY <1>2 DEF Accept
    <3> QED
      BY <3>1, <3>2
  <2>2. t + 1 \in 0..NThreads
    BY ThreadsAssumption DEF Threads
  <2>3. clientState' \in [Clients -> {"free", "new", "in"}] /\ owner' \in [Clients -> Threads]
    <3>1. clientState \in [Clients -> {"free", "new", "in"}] /\ owner \in [Clients -> Threads]
      BY <1>0 DEF TypeOK
    <3>2. clientState' = [clientState EXCEPT ![c] = "new"]
      BY <1>2 DEF Accept
    <3> QED
      BY <2>1, <3>1, <3>2
  <2>4. UNCHANGED <<nodeVars, pc, workVars, monitored, loopVars, cur, caller, share,
                    disconnected, payloadNum, arrCurrentBlocks, dbVars>>
    BY <1>2 DEF Accept
  <2> QED
    BY <1>0, <2>1, <2>2, <2>3, <2>4 DEF TypeOK
<1>3. ASSUME NEW t \in Threads, StartThread(t) PROVE TypeOK'
  <2>1. tip \in 0..Len(height)
    BY <1>0 DEF TypeOK
  <2> QED
    BY <1>0, <1>3, <2>1 DEF StartThread, TypeOK, Places
<1>4. ASSUME NEW t \in Threads, NEW c \in Clients, Drop(t, c) PROVE TypeOK'
  <2>1. 0 \in 0..MaxPayload
    BY PayloadAssumption
  <2> QED
    BY <1>0, <1>4, <2>1 DEF Drop, Delete, Free, TypeOK
<1>5. ASSUME NEW t \in Threads, NEW c \in Clients, Reply(t, c) PROVE TypeOK'
  BY <1>0, <1>5 DEF Reply, Event, TypeOK
<1>6. ASSUME NEW t \in Threads, NEW c \in Clients, NEW n \in 1..MaxPayload, AuthRequest(t, c, n)
      PROVE TypeOK'
  <2>1. n \in 0..MaxPayload
    BY PayloadAssumption
  <2>2. pc' \in [Threads -> Places]
    BY <1>0, <1>6 DEF AuthRequest, SendBlockData, TypeOK, Places
  <2>3. /\ clientState' \in [Clients -> {"free", "new", "in"}]
        /\ payloadNum' \in [Clients -> 0..MaxPayload]
        /\ monitored' \in [Threads -> SUBSET Clients]
    <3>1. /\ clientState \in [Clients -> {"free", "new", "in"}]
          /\ payloadNum \in [Clients -> 0..MaxPayload]
          /\ monitored \in [Threads -> SUBSET Clients]
      BY <1>0 DEF TypeOK
    <3>2. /\ clientState' = [clientState EXCEPT ![c] = "in"]
          /\ payloadNum' = [payloadNum EXCEPT ![c] = n]
      BY <1>6 DEF AuthRequest
    <3>3. monitored' = [monitored EXCEPT ![t] = @ \cup {c}]
      BY <1>6 DEF AuthRequest, Event
    <3>4. monitored' \in [Threads -> SUBSET Clients]
      BY <3>1, <3>3
    <3> QED
      BY <2>1, <3>1, <3>2, <3>4
  <2>4. /\ cur' \in [Threads -> Clients \cup {NoClient}]
        /\ caller' \in [Threads -> {"auth", "notify"}]
        /\ arrCurrentBlocks' \in [Clients -> Seq(Workload)]
    BY <1>0, <1>6 DEF AuthRequest, SendBlockData, TypeOK
  <2>5. UNCHANGED <<nodeVars, iThreadUsed, workVars, loopVars, share, owner, disconnected,
                    dbVars>>
    BY <1>6 DEF AuthRequest
  <2> QED
    BY <1>0, <2>2, <2>3, <2>4, <2>5 DEF TypeOK
<1>7. ASSUME NEW t \in Threads, GenerateCoinbase(t) PROVE TypeOK'
  <2>1. cur[t] \in Clients
    BY <1>7 DEF GenerateCoinbase, IInv, CurInv, WorkPlaces
  <2>2. [prev |-> currentBlock[t], coinbase |-> CoinbaseHeight(t)] \in Workload
    <3>1. currentBlock[t] \in 0..Len(height) /\ NextHeight \in Nat
      BY <1>0, NextHeightType DEF TypeOK
    <3>2. currentBlock[t] \in Nat
      BY <1>0, <3>1
    <3> QED
      BY <3>1, <3>2 DEF Workload, CoinbaseHeight
  <2>3. arrCurrentBlocks' \in [Clients -> Seq(Workload)]
    BY <1>0, <1>7, <2>1, <2>2, AppendProperties DEF GenerateCoinbase, TypeOK
  <2>4. pc' \in [Threads -> Places]
    BY <1>0, <1>7 DEF GenerateCoinbase, TypeOK, Places
  <2> QED
    BY <1>0, <1>7, <2>3, <2>4 DEF GenerateCoinbase, TypeOK
<1>8. ASSUME NEW t \in Threads, GenerateHeight(t) PROVE TypeOK'
  BY <1>0, <1>8, NextHeightType DEF GenerateHeight, MinedHeight, TypeOK, Places
<1>9. ASSUME NEW t \in Threads, SendWork(t) PROVE TypeOK'
  BY <1>0, <1>9 DEF SendWork, AfterWork, TypeOK, Places
<1>10. ASSUME NEW t \in Threads, WorkFails(t) PROVE TypeOK'
  <2>1. cur[t] \in Clients
    BY <1>10 DEF WorkFails, IInv, CurInv, WorkPlaces
  <2>2. pc' \in [Threads -> Places]
    BY <1>0, <1>10 DEF WorkFails, AfterWork, TypeOK, Places
  <2>3. 0 \in 0..MaxPayload
    BY PayloadAssumption
  <2>4. /\ cur' \in [Threads -> Clients \cup {NoClient}]
        /\ caller' \in [Threads -> {"auth", "notify"}]
    BY <1>0, <1>10 DEF WorkFails, TypeOK
  <2>5. CASE caller[t] = "auth"
    <3>1. Free(cur[t]) /\ monitored' = [monitored EXCEPT ![t] = @ \ {cur[t]}] /\ todo' = todo
      BY <1>10, <2>5 DEF WorkFails, Delete
    <3>2. /\ clientState' \in [Clients -> {"free", "new", "in"}]
          /\ owner' \in [Clients -> Threads]
          /\ disconnected' \in [Clients -> BOOLEAN]
      BY <1>0, <2>1, <3>1 DEF Free, TypeOK
    <3>3. /\ payloadNum' \in [Clients -> 0..MaxPayload]
          /\ arrCurrentBlocks' \in [Clients -> Seq(Workload)]
      BY <1>0, <2>1, <2>3, <3>1 DEF Free, TypeOK
    <3>4. monitored' \in [Threads -> SUBSET Clients]
      BY <1>0, <3>1 DEF TypeOK
    <3>5. UNCHANGED <<nodeVars, iThreadUsed, workVars, newHeight, workerCount, share, dbVars>>
      BY <1>10 DEF WorkFails
    <3> QED
      BY <1>0, <2>2, <2>4, <3>1, <3>2, <3>3, <3>4, <3>5 DEF TypeOK
  <2>6. CASE caller[t] # "auth"
    BY <1>0, <1>10, <2>1, <2>2, <2>4, <2>6 DEF WorkFails, ContinueLoop, TypeOK
  <2> QED
    BY <2>5, <2>6
<1>11. ASSUME NEW t \in Threads, CheckForNewBlocks(t) PROVE TypeOK'
  BY <1>0, <1>11, NextHeightType DEF CheckForNewBlocks, TypeOK, Places
<1>12. ASSUME NEW t \in Threads, NewTemplate(t) PROVE TypeOK'
  <2>1. tip \in 0..Len(height)
    BY <1>0 DEF TypeOK
  <2>2. pc' \in [Threads -> Places]
    BY <1>0, <1>12 DEF NewTemplate, TypeOK, Places
  <2>3. currentBlock' \in [Threads -> 0..Len(height')]
    BY <1>0, <1>12, <2>1 DEF NewTemplate, TypeOK
  <2>4. /\ coinTypeBlockHeight' \in [Threads -> Nat]
        /\ newHeight' \in [Threads -> Nat]
        /\ todo' \in [Threads -> SUBSET Clients]
    BY <1>0, <1>12 DEF NewTemplate, TypeOK
  <2> QED
    BY <1>0, <1>12, <2>2, <2>3, <2>4 DEF NewTemplate, TypeOK
<1>13. ASSUME NEW t \in Threads, NEW c \in Clients, Notify(t, c) PROVE TypeOK'
  <2>1. CASE Receives(c)
    <3>0. /\ todo' = [todo EXCEPT ![t] = @ \ {c}]
          /\ workerCount' = [workerCount EXCEPT ![t] = @ + 1]
          /\ SendBlockData(t, c, "notify")
      BY <1>13, <2>1, Zenon DEF Notify
    <3>1. pc' \in [Threads -> Places]
      BY <1>0, <3>0 DEF SendBlockData, TypeOK, Places
    <3>2. todo' \in [Threads -> SUBSET Clients] /\ workerCount' \in [Threads -> Nat]
      <4>1. todo \in [Threads -> SUBSET Clients] /\ workerCount \in [Threads -> Nat]
        BY <1>0 DEF TypeOK
      <4>2. todo' \in [Threads -> SUBSET Clients]
        BY <3>0, <4>1
      <4>3. workerCount' \in [Threads -> Nat]
        BY <3>0, <4>1
      <4> QED
        BY <4>2, <4>3
    <3>3. /\ cur' \in [Threads -> Clients \cup {NoClient}]
          /\ caller' \in [Threads -> {"auth", "notify"}]
          /\ arrCurrentBlocks' \in [Clients -> Seq(Workload)]
      BY <1>0, <3>0 DEF SendBlockData, TypeOK
    <3>4. UNCHANGED <<nodeVars, iThreadUsed, workVars, monitored, newHeight, share,
                      clientVars, dbVars>>
      BY <1>13 DEF Notify
    <3> QED
      BY <1>0, <3>1, <3>2, <3>3, <3>4 DEF TypeOK
  <2>2. CASE ~Receives(c)
    <3>1. todo' \in [Threads -> SUBSET Clients]
      BY <1>0, <1>13 DEF Notify, TypeOK
    <3>2. UNCHANGED <<nodeVars, iThreadUsed, pc, workVars, monitored, newHeight, workerCount,
                      cur, caller, share, clientVars, arrCurrentBlocks, dbVars>>
      BY <1>13, <2>2 DEF Notify
    <3> QED
      BY <1>0, <3>1, <3>2 DEF TypeOK
  <2> QED
    BY <2>1, <2>2
<1>14. ASSUME NEW t \in Threads, NotifyDone(t) PROVE TypeOK'
  BY <1>0, <1>14 DEF NotifyDone, TypeOK, Places
<1>15. ASSUME NEW t \in Threads, ShareDone(t)
       PROVE  /\ pc' \in [Threads -> Places]
              /\ cur' \in [Threads -> Clients \cup {NoClient}]
              /\ share' \in [Threads -> ShareInHand]
  <2>1. NoShare \in ShareInHand
    BY DEF NoShare, ShareInHand, Workload
  <2>2. pc' \in [Threads -> Places]
    BY <1>0, <1>15 DEF ShareDone, TypeOK, Places
  <2> QED
    BY <1>0, <1>15, <2>1, <2>2 DEF ShareDone, TypeOK
<1>16. ASSUME NEW t \in Threads, NEW c \in Clients, NEW i \in 1..MaxPayload,
              NEW s \in Solutions, NEW foundBlock \in BOOLEAN,
              SubmitShare(t, c, i, s, foundBlock)
       PROVE TypeOK'
  <2>1. arrCurrentBlocks[c][i] \in Workload
    BY <1>0, <1>16, ElementOfSeq DEF SubmitShare, TypeOK
  <2>2. share' \in [Threads -> ShareInHand]
    BY <1>0, <1>16, <2>1 DEF SubmitShare, TypeOK, ShareInHand
  <2>3. pc' \in [Threads -> Places]
    BY <1>0, <1>16 DEF SubmitShare, TypeOK, Places
  <2>4. /\ monitored' \in [Threads -> SUBSET Clients]
        /\ cur' \in [Threads -> Clients \cup {NoClient}]
    BY <1>0, <1>16 DEF SubmitShare, Event, TypeOK
  <2>5. UNCHANGED <<nodeVars, iThreadUsed, workVars, loopVars, caller, clientVars,
                    arrCurrentBlocks, dbVars>>
    BY <1>16 DEF SubmitShare
  <2> QED
    BY <1>0, <2>2, <2>3, <2>4, <2>5 DEF TypeOK
<1>17. ASSUME NEW t \in Threads, NEW saved \in BOOLEAN, SaveShare(t, saved) PROVE TypeOK'
  <2>1. /\ cur[t] \in Clients /\ share[t].solution \in Solutions
        /\ share[t].work \in Workload /\ coinTypeBlockHeight[t] \in Nat
    BY <1>0, <1>17
       DEF SaveShare, IInv, CurInv, ShareHeight, SharePlaces, TypeOK, ShareInHand
  <2>2. shares' \in Seq(ShareRow)
    BY <1>0, <1>17, <2>1, AppendProperties DEF SaveShare, TypeOK, ShareRow
  <2>3. /\ pc' \in [Threads -> Places]
        /\ cur' \in [Threads -> Clients \cup {NoClient}]
        /\ share' \in [Threads -> ShareInHand]
    <3>1. CASE ~share[t].foundBlock
      <4>1. ShareDone(t)
        BY <1>17, <3>1 DEF SaveShare
      <4> QED
        BY <1>15, <4>1
    <3>2. CASE share[t].foundBlock
      <4>1. Goto(t, "submit") /\ UNCHANGED <<cur, share>>
        BY <1>17, <3>2 DEF SaveShare
      <4>2. pc' \in [Threads -> Places]
        BY <1>0, <4>1 DEF TypeOK, Places
      <4> QED
        BY <1>0, <4>1, <4>2 DEF TypeOK
    <3> QED
      BY <3>1, <3>2
  <2>4. UNCHANGED <<nodeVars, iThreadUsed, workVars, monitored, loopVars, caller,
                    clientVars, arrCurrentBlocks, blocks, online>>
    BY <1>17 DEF SaveShare
  <2> QED
    BY <1>0, <2>2, <2>3, <2>4 DEF TypeOK
<1>18. ASSUME NEW t \in Threads, CheckStale(t) PROVE TypeOK'
  <2>1. /\ pc' \in [Threads -> Places]
        /\ cur' \in [Threads -> Clients \cup {NoClient}]
        /\ share' \in [Threads -> ShareInHand]
    <3>1. CASE share[t].work.prev # tip
      <4>1. ShareDone(t)
        BY <1>18, <3>1 DEF CheckStale
      <4> QED
        BY <1>15, <4>1
    <3>2. CASE share[t].work.prev = tip
      <4>1. Goto(t, "process") /\ UNCHANGED <<cur, share>>
        BY <1>18, <3>2 DEF CheckStale
      <4>2. pc' \in [Threads -> Places]
        BY <1>0, <4>1 DEF TypeOK, Places
      <4> QED
        BY <1>0, <4>1, <4>2 DEF TypeOK
    <3> QED
      BY <3>1, <3>2
  <2>2. UNCHANGED <<nodeVars, iThreadUsed, workVars, monitored, loopVars, caller,
                    clientVars, arrCurrentBlocks, dbVars>>
    BY <1>18 DEF CheckStale
  <2> QED
    BY <1>0, <2>1, <2>2 DEF TypeOK
<1>19. ASSUME NEW t \in Threads, ProcessBlock(t) PROVE TypeOK'
  <2>1. CASE UNCHANGED nodeVars /\ ShareDone(t)
    <3>1. /\ pc' \in [Threads -> Places]
          /\ cur' \in [Threads -> Clients \cup {NoClient}]
          /\ share' \in [Threads -> ShareInHand]
      BY <1>15, <2>1
    <3>2. UNCHANGED <<iThreadUsed, workVars, monitored, loopVars, caller, clientVars,
                      arrCurrentBlocks, dbVars>>
      BY <1>19 DEF ProcessBlock
    <3> QED
      BY <1>0, <2>1, <3>1, <3>2 DEF TypeOK
  <2>2. CASE ~(UNCHANGED nodeVars /\ ShareDone(t))
    <3> DEFINE h == height[share[t].work.prev] + 1
    <3>1. /\ height' = Append(height, h)
          /\ tip' \in {tip, Len(height) + 1}
          /\ share' = [share EXCEPT ![t].hash = Len(height) + 1]
          /\ Goto(t, "saveblock")
          /\ UNCHANGED <<iThreadUsed, workVars, monitored, loopVars, cur, caller,
                         clientVars, arrCurrentBlocks, dbVars>>
      <4> HIDE DEF Goto, nodeVars, workVars, loopVars, clientVars, dbVars
      <4> QED
        BY <1>19, <2>2, Zenon DEF ProcessBlock
    <3>2. h \in Nat
      <4>1. share[t].work.prev \in 1..Len(height)
        BY <1>19 DEF ProcessBlock, IInv, ShareHeight, SharePlaces
      <4>2. height \in Seq(Nat)
        BY <1>0 DEF TypeOK
      <4>3. height[share[t].work.prev] \in Nat
        BY <4>1, <4>2, ElementOfSeq
      <4> QED
        BY <4>3
    <3> HIDE DEF h
    <3>3. height' \in Seq(Nat) /\ Len(height') = Len(height) + 1
      BY <1>0, <3>1, <3>2, BlocksGrow DEF TypeOK
    <3>4. tip' \in 1..Len(height') /\ currentBlock' \in [Threads -> 0..Len(height')]
      <4>1. 0..Len(height) \subseteq 0..Len(height') /\ 1..Len(height) \subseteq 1..Len(height')
            /\ Len(height) + 1 \in 1..Len(height')
        BY <1>0, <3>3
      <4>2. /\ currentBlock' = currentBlock /\ currentBlock \in [Threads -> 0..Len(height)]
            /\ tip \in 1..Len(height)
        BY <1>0, <3>1 DEF TypeOK
      <4> QED
        BY <3>1, <4>1, <4>2
    <3>5. share' \in [Threads -> ShareInHand]
      <4>1. share \in [Threads -> ShareInHand] /\ Len(height) + 1 \in Nat
        BY <1>0 DEF TypeOK
      <4>2. [share[t] EXCEPT !.hash = Len(height) + 1] \in ShareInHand
        BY <4>1 DEF ShareInHand
      <4>3. share' = [share EXCEPT ![t] = [share[t] EXCEPT !.hash = Len(height) + 1]]
        BY <3>1
      <4> QED
        BY <4>1, <4>2, <4>3
    <3>6. pc' \in [Threads -> Places]
      BY <1>0, <3>1 DEF TypeOK, Places
    <3> QED
      BY <1>0, <3>1, <3>3, <3>4, <3>5, <3>6 DEF TypeOK
  <2> QED
    BY <2>1, <2>2
<1>20. ASSUME NEW t \in Threads, NEW saved \in BOOLEAN, SaveBlock(t, saved) PROVE TypeOK'
  <2>1. share[t].hash \in Nat /\ coinTypeBlockHeight[t] \in Nat
    BY <1>0 DEF TypeOK, ShareInHand
  <2>2. blocks' \subseteq [hash : Nat, height : Nat]
    <3>1. blocks \subseteq [hash : Nat, height : Nat]
      BY <1>0 DEF TypeOK
    <3>2. [hash |-> share[t].hash, height |-> RecordedHeight(t)] \in [hash : Nat, height : Nat]
      BY <2>1 DEF RecordedHeight
    <3>3. \/ blocks' = blocks
          \/ blocks' = blocks \cup {[hash |-> share[t].hash, height |-> RecordedHeight(t)]}
      BY <1>20 DEF SaveBlock
    <3> QED
      BY <3>1, <3>2, <3>3
  <2>3. /\ ShareDone(t)
        /\ UNCHANGED <<nodeVars, iThreadUsed, workVars, monitored, loopVars, caller,
                       clientVars, arrCurrentBlocks, shares, online>>
    BY <1>20 DEF SaveBlock
  <2>4. /\ pc' \in [Threads -> Places]
        /\ cur' \in [Threads -> Clients \cup {NoClient}]
        /\ share' \in [Threads -> ShareInHand]
    BY <1>15, <2>3
  <2> QED
    BY <1>0, <2>2, <2>3, <2>4 DEF TypeOK
<1> QED
  BY <1>1, <1>2, <1>3, <1>4, <1>5, <1>6, <1>7, <1>8, <1>9, <1>10, <1>11, <1>12, <1>13,
     <1>14, <1>16, <1>17, <1>18, <1>19, <1>20
     DEF Next, Environment, Internal, Packet
-----------------------------------------------------------------------------
(* The clients a thread holds on to are its own, and it knows which one it *)
(* is handling, after every step.                                          *)
LEMMA ClientsStep ==
    ASSUME IInv, Next PROVE NoFreedClient' /\ CurInv'
<1> USE DEF Goto, nodeVars, workVars, loopVars, clientVars, dbVars, Allocated, LoggedIn
<1>0. /\ pc \in [Threads -> Places]
      /\ monitored \in [Threads -> SUBSET Clients]
      /\ todo \in [Threads -> SUBSET Clients]
      /\ cur \in [Threads -> Clients \cup {NoClient}]
      /\ caller \in [Threads -> {"auth", "notify"}]
      /\ clientState \in [Clients -> {"free", "new", "in"}]
      /\ owner \in [Clients -> Threads]
  BY DEF IInv, TypeOK
<1>a. NoFreedClient /\ CurInv
  BY DEF IInv
<1> USE DEF NoFreedClient, CurInv, WorkPlaces, SharePlaces
<1>1. ASSUME NEW h \in 1..MaxHeight, NewTip(h) PROVE NoFreedClient' /\ CurInv'
  BY <1>a, <1>1 DEF NewTip
<1>2. ASSUME NEW c \in Clients, Accept(c) PROVE NoFreedClient' /\ CurInv'
  BY <1>0, <1>a, <1>2, ClientAssumption DEF Accept
<1>3. ASSUME NEW t \in Threads, StartThread(t) PROVE NoFreedClient' /\ CurInv'
  BY <1>0, <1>a, <1>3 DEF StartThread
<1>4. ASSUME NEW t \in Threads, NEW c \in Clients, Drop(t, c) PROVE NoFreedClient' /\ CurInv'
  BY <1>0, <1>a, <1>4, ClientAssumption DEF Drop, Delete, Free
<1>5. ASSUME NEW t \in Threads, NEW c \in Clients, Reply(t, c) PROVE NoFreedClient' /\ CurInv'
  BY <1>0, <1>a, <1>5 DEF Reply, Event
<1>6. ASSUME NEW t \in Threads, NEW c \in Clients, NEW n \in 1..MaxPayload, AuthRequest(t, c, n)
      PROVE NoFreedClient' /\ CurInv'
  BY <1>0, <1>a, <1>6, ClientAssumption DEF AuthRequest, Event, SendBlockData
<1>7. ASSUME NEW t \in Threads, GenerateCoinbase(t) PROVE NoFreedClient' /\ CurInv'
  BY <1>0, <1>a, <1>7 DEF GenerateCoinbase
<1>8. ASSUME NEW t \in Threads, GenerateHeight(t) PROVE NoFreedClient' /\ CurInv'
  BY <1>0, <1>a, <1>8 DEF GenerateHeight
<1>9. ASSUME NEW t \in Threads, SendWork(t) PROVE NoFreedClient' /\ CurInv'
  BY <1>0, <1>a, <1>9 DEF SendWork, AfterWork
<1>10. ASSUME NEW t \in Threads, WorkFails(t) PROVE NoFreedClient' /\ CurInv'
  BY <1>0, <1>a, <1>10, ClientAssumption DEF WorkFails, AfterWork, ContinueLoop, Delete, Free
<1>11. ASSUME NEW t \in Threads, CheckForNewBlocks(t) PROVE NoFreedClient' /\ CurInv'
  BY <1>0, <1>a, <1>11 DEF CheckForNewBlocks
<1>12. ASSUME NEW t \in Threads, NewTemplate(t) PROVE NoFreedClient' /\ CurInv'
  BY <1>0, <1>a, <1>12 DEF NewTemplate
<1>13. ASSUME NEW t \in Threads, NEW c \in Clients, Notify(t, c) PROVE NoFreedClient' /\ CurInv'
  BY <1>0, <1>a, <1>13, ClientAssumption DEF Notify, SendBlockData, Receives
<1>14. ASSUME NEW t \in Threads, NotifyDone(t) PROVE NoFreedClient' /\ CurInv'
  BY <1>0, <1>a, <1>14 DEF NotifyDone
<1>15. ASSUME NEW t \in Threads, NEW c \in Clients, NEW i \in 1..MaxPayload,
              NEW s \in Solutions, NEW foundBlock \in BOOLEAN,
              SubmitShare(t, c, i, s, foundBlock)
       PROVE NoFreedClient' /\ CurInv'
  BY <1>0, <1>a, <1>15, ClientAssumption DEF SubmitShare, Event
<1>16. ASSUME NEW t \in Threads, NEW saved \in BOOLEAN, SaveShare(t, saved)
       PROVE NoFreedClient' /\ CurInv'
  BY <1>0, <1>a, <1>16 DEF SaveShare, ShareDone
<1>17. ASSUME NEW t \in Threads, CheckStale(t) PROVE NoFreedClient' /\ CurInv'
  BY <1>0, <1>a, <1>17 DEF CheckStale, ShareDone
<1>18. ASSUME NEW t \in Threads, ProcessBlock(t) PROVE NoFreedClient' /\ CurInv'
  BY <1>0, <1>a, <1>18 DEF ProcessBlock, ShareDone
<1>19. ASSUME NEW t \in Threads, NEW saved \in BOOLEAN, SaveBlock(t, saved)
       PROVE NoFreedClient' /\ CurInv'
  BY <1>0, <1>a, <1>19 DEF SaveBlock, ShareDone
<1> QED
  <2> HIDE DEF NoFreedClient, CurInv
  <2> QED
    BY <1>1, <1>2, <1>3, <1>4, <1>5, <1>6, <1>7, <1>8, <1>9, <1>10, <1>11, <1>12, <1>13,
       <1>14, <1>15, <1>16, <1>17, <1>18, <1>19
       DEF Next, Environment, Internal, Packet
-----------------------------------------------------------------------------
(* What the steps that handle a share leave alone.                         *)
LEMMA ShareStep ==
    ASSUME TypeOK, NEW t \in Threads,
           \/ \E saved \in BOOLEAN : SaveShare(t, saved) \/ SaveBlock(t, saved)
           \/ CheckStale(t)
           \/ ProcessBlock(t)
    PROVE  /\ pc[t] \in SharePlaces
           /\ pc'[t] \in SharePlaces \cup {"events"}
           /\ \A u \in Threads \ {t} : pc'[u] = pc[u] /\ cur'[u] = cur[u] /\ share'[u] = share[u]
           /\ UNCHANGED <<currentBlock, coinTypeBlockHeight, clientState, owner, arrCurrentBlocks>>
<1> USE DEF Goto, nodeVars, workVars, loopVars, clientVars, dbVars, SharePlaces
<1>0. /\ pc \in [Threads -> Places]
      /\ cur \in [Threads -> Clients \cup {NoClient}]
      /\ share \in [Threads -> ShareInHand]
  BY DEF TypeOK
<1>1. ASSUME NEW saved \in BOOLEAN, SaveShare(t, saved)
      PROVE  /\ pc[t] = "saveshare" /\ (ShareDone(t) \/ (Goto(t, "submit") /\ UNCHANGED <<cur, share>>))
             /\ UNCHANGED <<currentBlock, coinTypeBlockHeight, clientState, owner, arrCurrentBlocks>>
  BY <1>1 DEF SaveShare
<1>2. ASSUME NEW saved \in BOOLEAN, SaveBlock(t, saved)
      PROVE  /\ pc[t] = "saveblock" /\ ShareDone(t)
             /\ UNCHANGED <<currentBlock, coinTypeBlockHeight, clientState, owner, arrCurrentBlocks>>
  BY <1>2 DEF SaveBlock
<1>3. ASSUME CheckStale(t)
      PROVE  /\ pc[t] = "submit" /\ (ShareDone(t) \/ (Goto(t, "process") /\ UNCHANGED <<cur, share>>))
             /\ UNCHANGED <<currentBlock, coinTypeBlockHeight, clientState, owner, arrCurrentBlocks>>
  BY <1>3 DEF CheckStale
<1>4. ASSUME ProcessBlock(t)
      PROVE  /\ pc[t] = "process"
             /\ \/ ShareDone(t)
                \/ /\ Goto(t, "saveblock") /\ UNCHANGED cur
                   /\ share' = [share EXCEPT ![t].hash = Len(height) + 1]
             /\ UNCHANGED <<currentBlock, coinTypeBlockHeight, clientState, owner, arrCurrentBlocks>>
  BY <1>4 DEF ProcessBlock
<1>5. /\ pc[t] \in SharePlaces
      /\ \/ ShareDone(t)
         \/ (Goto(t, "submit") \/ Goto(t, "process")) /\ UNCHANGED <<cur, share>>
         \/ /\ Goto(t, "saveblock") /\ UNCHANGED cur
            /\ share' = [share EXCEPT ![t].hash = Len(height) + 1]
      /\ UNCHANGED <<currentBlock, coinTypeBlockHeight, clientState, owner, arrCurrentBlocks>>
  BY <1>1, <1>2, <1>3, <1>4
<1>6. CASE ShareDone(t)
  BY <1>0, <1>5, <1>6 DEF ShareDone
<1>7. CASE (Goto(t, "submit") \/ Goto(t, "process")) /\ UNCHANGED <<cur, share>>
  BY <1>0, <1>5, <1>7
<1>8. CASE /\ Goto(t, "saveblock") /\ UNCHANGED cur
           /\ share' = [share EXCEPT ![t].hash = Len(height) + 1]
  BY <1>0, <1>5, <1>8
<1> QED
  BY <1>5, <1>6, <1>7, <1>8

(* What ProcessBlock does to the node: nothing, or it learns one block,    *)
(* which is one above the share's.                                         *)
LEMMA ProcessBlockNode ==
    ASSUME IInv, NEW t \in Threads, ProcessBlock(t)
    PROVE  /\ Len(height) \in Nat /\ Len(height') \in Nat /\ Len(height) <= Len(height')
           /\ \A b \in 1..Len(height) : height'[b] = height[b]
           /\ tip' = tip \/ tip' = Len(height) + 1
           /\ \/ pc'[t] = "events"
              \/ /\ share'[t].hash \in 1..Len(height')
                 /\ height'[share'[t].hash] = height[share[t].work.prev] + 1
                 /\ share'[t].work = share[t].work /\ share'[t].solution = share[t].solution
<1> DEFINE h == height[share[t].work.prev] + 1
<1>0. /\ height \in Seq(Nat) /\ pc \in [Threads -> Places] /\ share \in [Threads -> ShareInHand]
      /\ Len(height) \in Nat
  BY LenProperties DEF IInv, TypeOK
<1>1. CASE ShareDone(t) /\ UNCHANGED nodeVars
  BY <1>0, <1>1 DEF ShareDone, Goto, nodeVars
<1>2. CASE ~(ShareDone(t) /\ UNCHANGED nodeVars)
  <2>1. /\ height' = Append(height, h)
        /\ tip' \in {tip, Len(height) + 1}
        /\ share' = [share EXCEPT ![t].hash = Len(height) + 1]
    BY <1>2 DEF ProcessBlock
  <2>2. h \in Nat
    BY <1>0, ElementOfSeq DEF ProcessBlock, IInv, ShareHeight, SharePlaces
  <2> HIDE DEF h
  <2>3. /\ Len(height') = Len(height) + 1
        /\ \A b \in 1..Len(height) : height'[b] = height[b]
        /\ height'[Len(height) + 1] = h
    BY <1>0, <2>1, <2>2, BlocksGrow
  <2>4. /\ share'[t].hash = Len(height) + 1 /\ share'[t].work = share[t].work
        /\ share'[t].solution = share[t].solution
    <3>1. share'[t] = [share[t] EXCEPT !.hash = Len(height) + 1]
      BY <1>0, <2>1
    <3> QED
      BY <1>0, <3>1 DEF ShareInHand
  <2>5. Len(height) + 1 \in 1..Len(height')
    BY <1>0, <2>3
  <2> QED
    BY <1>0, <2>1, <2>3, <2>4, <2>5 DEF h
<1> QED
  BY <1>1, <1>2

-----------------------------------------------------------------------------
(* The workloads stay known ones, on the template of the thread that is    *)
(* making them, after every step.                                          *)
LEMMA WorkloadsStep ==
    ASSUME IInv, Next PROVE WorkKnown' /\ WorkOnTemplate'
<1> USE DEF Goto, nodeVars, workVars, loopVars, clientVars, dbVars, Allocated, LoggedIn
<1>0. /\ pc \in [Threads -> Places]
      /\ cur \in [Threads -> Clients \cup {NoClient}]
      /\ clientState \in [Clients -> {"free", "new", "in"}]
      /\ owner \in [Clients -> Threads]
      /\ currentBlock \in [Threads -> 0..Len(height)]
      /\ arrCurrentBlocks \in [Clients -> Seq(Workload)]
      /\ NoClient \notin Clients /\ Len(height) \in Nat
  BY ClientAssumption, LenProperties DEF IInv, TypeOK
<1>a. NoFreedClient /\ CurInv /\ WorkKnown /\ WorkOnTemplate
  BY DEF IInv
<1>b. TypeOK
  BY DEF IInv
<1> USE DEF NoFreedClient, CurInv, WorkKnown, WorkOnTemplate, WorkPlaces, SharePlaces
<1>1. ASSUME NEW h \in 1..MaxHeight, NewTip(h)
      PROVE WorkKnown' /\ WorkOnTemplate'
  BY <1>0, <1>a, <1>1 DEF NewTip
<1>2. ASSUME NEW c \in Clients, Accept(c)
      PROVE WorkKnown' /\ WorkOnTemplate'
  <2>1. /\ clientState' = [clientState EXCEPT ![c] = "new"] /\ ~LoggedIn(c)
        /\ UNCHANGED <<pc, cur, currentBlock, height, arrCurrentBlocks>>
    BY <1>2 DEF Accept
  <2>2. WorkKnown'
    BY <1>0, <1>a, <2>1
  <2>3. WorkOnTemplate'
    BY <1>a, <2>1
  <2> QED
    BY <2>2, <2>3
<1>3. ASSUME NEW t \in Threads, StartThread(t)
      PROVE WorkKnown' /\ WorkOnTemplate'
  BY <1>0, <1>a, <1>3 DEF StartThread
<1>4. ASSUME NEW t \in Threads, NEW c \in Clients, Drop(t, c)
      PROVE WorkKnown' /\ WorkOnTemplate'
  BY <1>0, <1>a, <1>4 DEF Drop, Delete, Free
<1>5. ASSUME NEW t \in Threads, NEW c \in Clients, Reply(t, c)
      PROVE WorkKnown' /\ WorkOnTemplate'
  BY <1>0, <1>a, <1>5 DEF Reply, Event
<1>6. ASSUME NEW t \in Threads, NEW c \in Clients, NEW n \in 1..MaxPayload, AuthRequest(t, c, n)
      PROVE WorkKnown' /\ WorkOnTemplate'
  BY <1>0, <1>a, <1>6 DEF AuthRequest, Event, SendBlockData
<1>7. ASSUME NEW t \in Threads, GenerateCoinbase(t)
      PROVE WorkKnown' /\ WorkOnTemplate'
  <2> DEFINE w == [prev |-> currentBlock[t], coinbase |-> CoinbaseHeight(t)]
  <2>1. /\ cur[t] \in Clients /\ LoggedIn(cur[t]) /\ owner[cur[t]] = t
        /\ pc[t] = "coinbase" /\ pc'[t] \in WorkPlaces
        /\ \A u \in Threads \ {t} : pc'[u] = pc[u]
        /\ arrCurrentBlocks' = [arrCurrentBlocks EXCEPT ![cur[t]] = Append(@, w)]
        /\ UNCHANGED <<cur, currentBlock, height, clientState, owner>>
    BY <1>0, <1>a, <1>7 DEF GenerateCoinbase
  <2>2. \A c \in Clients \ {cur[t]} : arrCurrentBlocks'[c] = arrCurrentBlocks[c]
    BY <1>0, <2>1
  <2>3. w \in Workload /\ w.prev = currentBlock[t] /\ w.prev \in 0..Len(height)
    <3>1. currentBlock[t] \in 0..Len(height) /\ NextHeight \in Nat /\ currentBlock[t] \in Nat
      BY <1>0, NextHeightType DEF IInv
    <3> QED
      BY <3>1 DEF Workload, CoinbaseHeight
  <2> HIDE DEF w
  <2>4. \A i \in 1..Len(arrCurrentBlocks'[cur[t]]) :
            \/ arrCurrentBlocks'[cur[t]][i] = w
            \/ /\ i \in 1..Len(arrCurrentBlocks[cur[t]])
               /\ arrCurrentBlocks'[cur[t]][i] = arrCurrentBlocks[cur[t]][i]
    BY <1>0, <2>1, <2>3, AppendProperties
  <2>5. WorkKnown'
    BY <1>0, <1>a, <2>1, <2>2, <2>3, <2>4
  <2>6. WorkOnTemplate'
    <3> SUFFICES ASSUME NEW u \in Threads, pc'[u] \in WorkPlaces,
                        NEW i \in 1..Len(arrCurrentBlocks'[cur[u]])
                 PROVE  arrCurrentBlocks'[cur[u]][i].prev = currentBlock[u]
      BY <2>1
    <3>1. CASE u = t
      BY <1>a, <2>1, <2>3, <2>4, <3>1
    <3>2. CASE u # t
      BY <1>0, <1>a, <2>1, <2>2, <3>2
    <3> QED
      BY <3>1, <3>2
  <2> QED
    BY <2>5, <2>6
<1>8. ASSUME NEW t \in Threads, GenerateHeight(t)
      PROVE WorkKnown' /\ WorkOnTemplate'
  BY <1>0, <1>a, <1>8 DEF GenerateHeight
<1>9. ASSUME NEW t \in Threads, SendWork(t)
      PROVE WorkKnown' /\ WorkOnTemplate'
  BY <1>0, <1>a, <1>9 DEF SendWork, AfterWork
<1>10. ASSUME NEW t \in Threads, WorkFails(t)
       PROVE WorkKnown' /\ WorkOnTemplate'
  <2>1. /\ pc'[t] \notin WorkPlaces
        /\ \A u \in Threads \ {t} : pc'[u] = pc[u] /\ cur'[u] = cur[u]
        /\ UNCHANGED <<currentBlock, height>>
        /\ cur[t] \in Clients /\ owner[cur[t]] = t
    BY <1>0, <1>a, <1>10 DEF WorkFails, AfterWork
  <2>2. \/ UNCHANGED <<clientState, arrCurrentBlocks>>
        \/ /\ clientState' = [clientState EXCEPT ![cur[t]] = "free"]
           /\ arrCurrentBlocks' = [arrCurrentBlocks EXCEPT ![cur[t]] = <<>>]
    BY <1>10 DEF WorkFails, Delete, Free
  <2>3. WorkKnown'
    BY <1>0, <1>a, <2>1, <2>2
  <2>4. WorkOnTemplate'
    <3> SUFFICES ASSUME NEW u \in Threads, pc'[u] \in WorkPlaces,
                        NEW i \in 1..Len(arrCurrentBlocks'[cur'[u]])
                 PROVE  arrCurrentBlocks'[cur'[u]][i].prev = currentBlock'[u]
      BY Zenon DEF WorkOnTemplate
    <3>1. /\ pc[u] = pc'[u] /\ cur'[u] = cur[u] /\ currentBlock'[u] = currentBlock[u]
          /\ cur[u] \in Clients /\ cur[u] # cur[t]
      BY <1>0, <1>a, <2>1
    <3>2. arrCurrentBlocks'[cur[u]] = arrCurrentBlocks[cur[u]]
      BY <1>0, <2>2, <3>1
    <3>3. \A j \in 1..Len(arrCurrentBlocks[cur[u]]) :
              arrCurrentBlocks[cur[u]][j].prev = currentBlock[u]
      BY <1>a, <3>1
    <3> HIDE DEF NoFreedClient, CurInv, WorkKnown, WorkOnTemplate
    <3> QED
      BY <3>1, <3>2, <3>3
  <2> QED
    BY <2>3, <2>4
<1>11. ASSUME NEW t \in Threads, CheckForNewBlocks(t)
       PROVE WorkKnown' /\ WorkOnTemplate'
  BY <1>0, <1>a, <1>11 DEF CheckForNewBlocks
<1>12. ASSUME NEW t \in Threads, NewTemplate(t)
       PROVE WorkKnown' /\ WorkOnTemplate'
  BY <1>0, <1>a, <1>12 DEF NewTemplate
<1>13. ASSUME NEW t \in Threads, NEW c \in Clients, Notify(t, c)
       PROVE WorkKnown' /\ WorkOnTemplate'
  <2>1. CASE Receives(c)
    <3>1. /\ arrCurrentBlocks' = [arrCurrentBlocks EXCEPT ![c] = <<>>]
          /\ cur' = [cur EXCEPT ![t] = c] /\ pc' = [pc EXCEPT ![t] = "coinbase"]
          /\ UNCHANGED <<currentBlock, height, clientState, owner>> /\ owner[c] = t
      <4>1. SendBlockData(t, c, "notify") /\ c \in todo[t]
        BY <1>13, <2>1, Zenon DEF Notify
      <4>2. UNCHANGED <<currentBlock, height, clientState, owner>>
        BY <1>13 DEF Notify
      <4> QED
        BY <1>a, <4>1, <4>2 DEF SendBlockData
    <3>2. WorkKnown'
      BY <1>0, <1>a, <3>1
    <3>3. WorkOnTemplate'
      BY <1>0, <1>a, <3>1
    <3> QED
      BY <3>2, <3>3
  <2>2. CASE ~Receives(c)
    <3>1. UNCHANGED <<pc, cur, arrCurrentBlocks, currentBlock, height, clientState>>
      BY <1>13, <2>2 DEF Notify
    <3> QED
      BY <1>a, <3>1
  <2> QED
    BY <2>1, <2>2
<1>14. ASSUME NEW t \in Threads, NotifyDone(t)
       PROVE WorkKnown' /\ WorkOnTemplate'
  BY <1>0, <1>a, <1>14 DEF NotifyDone
<1>15. ASSUME NEW t \in Threads, NEW c \in Clients, NEW i \in 1..MaxPayload,
              NEW s \in Solutions, NEW foundBlock \in BOOLEAN,
              SubmitShare(t, c, i, s, foundBlock)
       PROVE WorkKnown' /\ WorkOnTemplate'
  BY <1>0, <1>a, <1>15 DEF SubmitShare, Event
<1>16. ASSUME NEW t \in Threads, NEW saved \in BOOLEAN, SaveShare(t, saved)
       PROVE WorkKnown' /\ WorkOnTemplate'
  <2>1. /\ pc'[t] \in SharePlaces \cup {"events"}
        /\ \A u \in Threads \ {t} : pc'[u] = pc[u] /\ cur'[u] = cur[u]
        /\ UNCHANGED <<currentBlock, clientState, arrCurrentBlocks>>
    BY <1>b, <1>16, ShareStep
  <2>2. height' = height
    BY <1>16 DEF SaveShare
  <2>3. WorkKnown'
    BY <1>a, <2>1, <2>2
  <2>4. WorkOnTemplate'
    BY <1>a, <2>1
  <2> QED
    BY <2>3, <2>4
<1>17. ASSUME NEW t \in Threads, CheckStale(t)
       PROVE WorkKnown' /\ WorkOnTemplate'
  <2>1. /\ pc'[t] \in SharePlaces \cup {"events"}
        /\ \A u \in Threads \ {t} : pc'[u] = pc[u] /\ cur'[u] = cur[u]
        /\ UNCHANGED <<currentBlock, clientState, arrCurrentBlocks>>
    BY <1>b, <1>17, ShareStep
  <2>2. height' = height
    BY <1>17 DEF CheckStale
  <2>3. WorkKnown'
    BY <1>a, <2>1, <2>2
  <2>4. WorkOnTemplate'
    BY <1>a, <2>1
  <2> QED
    BY <2>3, <2>4
<1>18. ASSUME NEW t \in Threads, ProcessBlock(t)
       PROVE WorkKnown' /\ WorkOnTemplate'
  <2>1. /\ pc'[t] \in SharePlaces \cup {"events"}
        /\ \A u \in Threads \ {t} : pc'[u] = pc[u] /\ cur'[u] = cur[u]
        /\ UNCHANGED <<currentBlock, clientState, arrCurrentBlocks>>
    BY <1>b, <1>18, ShareStep
  <2>2. Len(height) <= Len(height') /\ Len(height') \in Nat
    BY <1>18, ProcessBlockNode
  <2>3. WorkKnown'
    BY <1>0, <1>a, <2>1, <2>2
  <2>4. WorkOnTemplate'
    BY <1>a, <2>1
  <2> QED
    BY <2>3, <2>4
<1>19. ASSUME NEW t \in Threads, NEW saved \in BOOLEAN, SaveBlock(t, saved)
       PROVE WorkKnown' /\ WorkOnTemplate'
  <2>1. /\ pc'[t] \in SharePlaces \cup {"events"}
        /\ \A u \in Threads \ {t} : pc'[u] = pc[u] /\ cur'[u] = cur[u]
        /\ UNCHANGED <<currentBlock, clientState, arrCurrentBlocks>>
    BY <1>b, <1>19, ShareStep
  <2>2. height' = height
    BY <1>19 DEF SaveBlock
  <2>3. WorkKnown'
    BY <1>a, <2>1, <2>2
  <2>4. WorkOnTemplate'
    BY <1>a, <2>1
  <2> QED
    BY <2>3, <2>4
<1> QED
  <2> HIDE DEF WorkKnown, WorkOnTemplate
  <2> QED
    BY <1>1, <1>2, <1>3, <1>4, <1>5, <1>6, <1>7, <1>8, <1>9, <1>10, <1>11, <1>12, <1>13, <1>14, <1>15, <1>16, <1>17, <1>18, <1>19
       DEF Next, Environment, Internal, Packet
-----------------------------------------------------------------------------
(* A workload on the best block keeps the right height, after every step:  *)
(* a new best block has no workload yet, and a thread that has one for the *)
(* best block neither sees a new block nor changes the height being mined. *)
LEMMA WorkHeightStep ==
    ASSUME IInv, Next PROVE WorkHeight'
<1> USE DEF Goto, nodeVars, workVars, loopVars, clientVars, dbVars, Allocated, LoggedIn
<1>0. /\ pc \in [Threads -> Places]
      /\ cur \in [Threads -> Clients \cup {NoClient}]
      /\ clientState \in [Clients -> {"free", "new", "in"}]
      /\ owner \in [Clients -> Threads]
      /\ coinTypeBlockHeight \in [Threads -> Nat]
      /\ arrCurrentBlocks \in [Clients -> Seq(Workload)]
      /\ tip \in 1..Len(height) /\ Len(height) \in Nat
      /\ NoClient \notin Clients
  BY ClientAssumption, LenProperties DEF IInv, TypeOK
<1>a. NoFreedClient /\ CurInv /\ WorkKnown /\ WorkOnTemplate /\ WorkHeight
  BY DEF IInv
<1>b. TypeOK
  BY DEF IInv
<1> USE DEF NoFreedClient, CurInv, WorkKnown, WorkOnTemplate, WorkHeight, WorkPlaces,
            SharePlaces, NextHeight
<1>1. ASSUME NEW h \in 1..MaxHeight, NewTip(h)
      PROVE WorkHeight'
  BY <1>0, <1>a, <1>1 DEF NewTip
<1>2. ASSUME NEW c \in Clients, Accept(c)
      PROVE WorkHeight'
  BY <1>0, <1>a, <1>2 DEF Accept
<1>3. ASSUME NEW t \in Threads, StartThread(t)
      PROVE WorkHeight'
  BY <1>0, <1>a, <1>3 DEF StartThread
<1>4. ASSUME NEW t \in Threads, NEW c \in Clients, Drop(t, c)
      PROVE WorkHeight'
  BY <1>0, <1>a, <1>4 DEF Drop, Delete, Free
<1>5. ASSUME NEW t \in Threads, NEW c \in Clients, Reply(t, c)
      PROVE WorkHeight'
  BY <1>0, <1>a, <1>5 DEF Reply, Event
<1>6. ASSUME NEW t \in Threads, NEW c \in Clients, NEW n \in 1..MaxPayload, AuthRequest(t, c, n)
      PROVE WorkHeight'
  BY <1>0, <1>a, <1>6 DEF AuthRequest, Event, SendBlockData
<1>7. ASSUME NEW t \in Threads, GenerateCoinbase(t)
      PROVE WorkHeight'
  <2> DEFINE c == cur[t]
             w == [prev |-> currentBlock[t], coinbase |-> CoinbaseHeight(t)]
  <2>1. /\ c \in Clients /\ owner[c] = t
        /\ pc[t] = "coinbase" /\ pc'[t] \in WorkPlaces
        /\ arrCurrentBlocks[c] = <<>> => pc'[t] = "height"
        /\ \A u \in Threads \ {t} : pc'[u] = pc[u]
        /\ arrCurrentBlocks' = [arrCurrentBlocks EXCEPT ![c] = Append(@, w)]
        /\ UNCHANGED <<cur, coinTypeBlockHeight, height, tip, owner>>
    BY <1>0, <1>a, <1>7 DEF GenerateCoinbase
  <2>2. \A d \in Clients \ {c} : arrCurrentBlocks'[d] = arrCurrentBlocks[d]
    BY <1>0, <2>1
  <2>3. w \in Workload /\ w.prev = currentBlock[t] /\ w.coinbase = NextHeight
    <3>1. currentBlock[t] \in 0..Len(height) /\ NextHeight \in Nat /\ currentBlock[t] \in Nat
      BY <1>0, <1>b, NextHeightType DEF TypeOK
    <3> QED
      BY <3>1 DEF Workload, CoinbaseHeight
  <2> HIDE DEF c, w
  <2>4. \A i \in 1..Len(arrCurrentBlocks'[c]) :
            \/ arrCurrentBlocks'[c][i] = w
            \/ /\ i \in 1..Len(arrCurrentBlocks[c])
               /\ arrCurrentBlocks'[c][i] = arrCurrentBlocks[c][i]
    BY <1>0, <2>1, <2>3, AppendProperties
  (* When there is a workload already, it is on the same template.       *)
  <2>5. (arrCurrentBlocks[c] # <<>> /\ currentBlock[t] = tip)
            => coinTypeBlockHeight[t] = NextHeight
    <3> SUFFICES ASSUME arrCurrentBlocks[c] # <<>>, currentBlock[t] = tip
                 PROVE  coinTypeBlockHeight[t] = NextHeight
      OBVIOUS
    <3>1. 1 \in 1..Len(arrCurrentBlocks[c])
      BY <1>0, <2>1, EmptySeq, LenProperties
    <3>2. arrCurrentBlocks[c][1].prev = tip
      BY <1>a, <2>1, <3>1 DEF c
    <3> QED
      BY <1>a, <2>1, <3>1, <3>2
  <2>6. SUFFICES ASSUME NEW d \in Clients, NEW i \in 1..Len(arrCurrentBlocks'[d]),
                        arrCurrentBlocks'[d][i].prev = tip
                 PROVE  /\ arrCurrentBlocks'[d][i].coinbase = NextHeight
                        /\ \/ coinTypeBlockHeight[owner[d]] = NextHeight
                           \/ pc'[owner[d]] = "height" /\ cur[owner[d]] = d
                        /\ pc'[owner[d]] # "template"
    BY <2>1
  <2>7. CASE d = c
    <3>1. CASE arrCurrentBlocks'[c][i] = w
      BY <2>1, <2>3, <2>5, <2>6, <2>7, <3>1 DEF c
    <3>2. CASE arrCurrentBlocks'[c][i] # w
      BY <1>a, <2>1, <2>4, <2>6, <2>7, <3>2
    <3> QED
      BY <3>1, <3>2
  <2>8. CASE d # c
    BY <1>0, <1>a, <2>1, <2>2, <2>6, <2>8
  <2> QED
    BY <2>7, <2>8
<1>8. ASSUME NEW t \in Threads, GenerateHeight(t)
      PROVE WorkHeight'
  BY <1>0, <1>a, <1>8 DEF GenerateHeight, MinedHeight
<1>9. ASSUME NEW t \in Threads, SendWork(t)
      PROVE WorkHeight'
  BY <1>0, <1>a, <1>9 DEF SendWork, AfterWork
<1>10. ASSUME NEW t \in Threads, WorkFails(t)
       PROVE WorkHeight'
  BY <1>0, <1>a, <1>10 DEF WorkFails, AfterWork, ContinueLoop, Delete, Free
<1>11. ASSUME NEW t \in Threads, CheckForNewBlocks(t)
       PROVE WorkHeight'
  BY <1>0, <1>a, <1>11 DEF CheckForNewBlocks
<1>12. ASSUME NEW t \in Threads, NewTemplate(t)
       PROVE WorkHeight'
  BY <1>0, <1>a, <1>12 DEF NewTemplate
<1>13. ASSUME NEW t \in Threads, NEW c \in Clients, Notify(t, c)
       PROVE WorkHeight'
  BY <1>0, <1>a, <1>13 DEF Notify, SendBlockData, Receives
<1>14. ASSUME NEW t \in Threads, NotifyDone(t)
       PROVE WorkHeight'
  BY <1>0, <1>a, <1>14 DEF NotifyDone
<1>15. ASSUME NEW t \in Threads, NEW c \in Clients, NEW i \in 1..MaxPayload,
              NEW s \in Solutions, NEW foundBlock \in BOOLEAN,
              SubmitShare(t, c, i, s, foundBlock)
       PROVE WorkHeight'
  BY <1>0, <1>a, <1>15 DEF SubmitShare, Event
<1>16. ASSUME NEW t \in Threads, NEW saved \in BOOLEAN, SaveShare(t, saved)
       PROVE WorkHeight'
  <2>1. UNCHANGED <<height, tip>>
    BY <1>16 DEF SaveShare
  <2>2. /\ pc[t] \in SharePlaces /\ pc'[t] \in SharePlaces \cup {"events"}
        /\ \A u \in Threads \ {t} : pc'[u] = pc[u] /\ cur'[u] = cur[u]
        /\ UNCHANGED <<coinTypeBlockHeight, owner, arrCurrentBlocks>>
    BY <1>b, <1>16, ShareStep
  <2> QED
    BY <1>0, <1>a, <2>1, <2>2
<1>17. ASSUME NEW t \in Threads, CheckStale(t)
       PROVE WorkHeight'
  <2>1. UNCHANGED <<height, tip>>
    BY <1>17 DEF CheckStale
  <2>2. /\ pc[t] \in SharePlaces /\ pc'[t] \in SharePlaces \cup {"events"}
        /\ \A u \in Threads \ {t} : pc'[u] = pc[u] /\ cur'[u] = cur[u]
        /\ UNCHANGED <<coinTypeBlockHeight, owner, arrCurrentBlocks>>
    BY <1>b, <1>17, ShareStep
  <2> QED
    BY <1>0, <1>a, <2>1, <2>2
<1>18. ASSUME NEW t \in Threads, ProcessBlock(t)
       PROVE WorkHeight'
  <2>1. /\ tip' = tip \/ tip' = Len(height) + 1
        /\ \A b \in 1..Len(height) : height'[b] = height[b]
    BY <1>18, ProcessBlockNode
  <2>2. /\ pc[t] \in SharePlaces /\ pc'[t] \in SharePlaces \cup {"events"}
        /\ \A u \in Threads \ {t} : pc'[u] = pc[u] /\ cur'[u] = cur[u]
        /\ UNCHANGED <<coinTypeBlockHeight, owner, arrCurrentBlocks>>
    BY <1>b, <1>18, ShareStep
  <2>3. CASE tip' = Len(height) + 1
    BY <1>0, <1>a, <2>2, <2>3
  <2>4. CASE tip' = tip
    <3>1. height'[tip'] = height[tip]
      BY <1>0, <2>1, <2>4
    <3> QED
      BY <1>0, <1>a, <2>2, <2>4, <3>1
  <2> QED
    BY <2>1, <2>3, <2>4
<1>19. ASSUME NEW t \in Threads, NEW saved \in BOOLEAN, SaveBlock(t, saved)
       PROVE WorkHeight'
  <2>1. UNCHANGED <<height, tip>>
    BY <1>19 DEF SaveBlock
  <2>2. /\ pc[t] \in SharePlaces /\ pc'[t] \in SharePlaces \cup {"events"}
        /\ \A u \in Threads \ {t} : pc'[u] = pc[u] /\ cur'[u] = cur[u]
        /\ UNCHANGED <<coinTypeBlockHeight, owner, arrCurrentBlocks>>
    BY <1>b, <1>19, ShareStep
  <2> QED
    BY <1>0, <1>a, <2>1, <2>2
<1> QED
  <2> HIDE DEF WorkHeight
  <2> QED
    BY <1>1, <1>2, <1>3, <1>4, <1>5, <1>6, <1>7, <1>8, <1>9, <1>10, <1>11, <1>12, <1>13, <1>14, <1>15, <1>16, <1>17, <1>18, <1>19
       DEF Next, Environment, Internal, Packet
-----------------------------------------------------------------------------
(* The share in hand, the rows of shares and the rows of blocks keep their *)
(* heights, after every step.                                              *)
LEMMA RowsStep ==
    ASSUME IInv, Next PROVE ShareHeight' /\ RowsHeight' /\ BlocksHaveTheirHeight'
<1> USE DEF Goto, nodeVars, workVars, loopVars, clientVars, dbVars, Allocated, LoggedIn
<1>0. /\ pc \in [Threads -> Places]
      /\ share \in [Threads -> ShareInHand]
      /\ coinTypeBlockHeight \in [Threads -> Nat]
      /\ height \in Seq(Nat) /\ tip \in 1..Len(height) /\ Len(height) \in Nat
      /\ shares \in Seq(ShareRow)
  BY LenProperties DEF IInv, TypeOK
<1>a. WorkHeight /\ ShareHeight /\ RowsHeight /\ BlocksHaveTheirHeight
  BY DEF IInv
<1>b. TypeOK
  BY DEF IInv
<1> USE DEF WorkHeight, ShareHeight, RowsHeight, BlocksHaveTheirHeight, SharePlaces, NextHeight
<1>1. ASSUME NEW h \in 1..MaxHeight, NewTip(h)
      PROVE ShareHeight' /\ RowsHeight' /\ BlocksHaveTheirHeight'
  <2>1. /\ Len(height') = Len(height) + 1
        /\ \A b \in 1..Len(height) : height'[b] = height[b]
        /\ 1..Len(height) \subseteq 1..Len(height')
    BY <1>0, <1>1, BlocksGrow, BoundsAssumption DEF NewTip
  <2>2. UNCHANGED <<pc, coinTypeBlockHeight, share, shares, blocks>>
    BY <1>1 DEF NewTip
  <2>3. ShareHeight'
    BY <1>a, <2>1, <2>2
  <2>4. RowsHeight' /\ BlocksHaveTheirHeight'
    BY <1>a, <2>1, <2>2
  <2> QED
    BY <2>3, <2>4
<1>2. ASSUME NEW c \in Clients, Accept(c)
      PROVE ShareHeight' /\ RowsHeight' /\ BlocksHaveTheirHeight'
  BY <1>0, <1>a, <1>2 DEF Accept
<1>3. ASSUME NEW t \in Threads, StartThread(t)
      PROVE ShareHeight' /\ RowsHeight' /\ BlocksHaveTheirHeight'
  BY <1>0, <1>a, <1>3 DEF StartThread
<1>4. ASSUME NEW t \in Threads, NEW c \in Clients, Drop(t, c)
      PROVE ShareHeight' /\ RowsHeight' /\ BlocksHaveTheirHeight'
  BY <1>0, <1>a, <1>4 DEF Drop, Delete, Free
<1>5. ASSUME NEW t \in Threads, NEW c \in Clients, Reply(t, c)
      PROVE ShareHeight' /\ RowsHeight' /\ BlocksHaveTheirHeight'
  BY <1>0, <1>a, <1>5 DEF Reply, Event
<1>6. ASSUME NEW t \in Threads, NEW c \in Clients, NEW n \in 1..MaxPayload, AuthRequest(t, c, n)
      PROVE ShareHeight' /\ RowsHeight' /\ BlocksHaveTheirHeight'
  BY <1>0, <1>a, <1>6 DEF AuthRequest, Event, SendBlockData
<1>7. ASSUME NEW t \in Threads, GenerateCoinbase(t)
      PROVE ShareHeight' /\ RowsHeight' /\ BlocksHaveTheirHeight'
  BY <1>0, <1>a, <1>7 DEF GenerateCoinbase
<1>8. ASSUME NEW t \in Threads, GenerateHeight(t)
      PROVE ShareHeight' /\ RowsHeight' /\ BlocksHaveTheirHeight'
  BY <1>0, <1>a, <1>8 DEF GenerateHeight, MinedHeight
<1>9. ASSUME NEW t \in Threads, SendWork(t)
      PROVE ShareHeight' /\ RowsHeight' /\ BlocksHaveTheirHeight'
  BY <1>0, <1>a, <1>9 DEF SendWork, AfterWork
<1>10. ASSUME NEW t \in Threads, WorkFails(t)
       PROVE ShareHeight' /\ RowsHeight' /\ BlocksHaveTheirHeight'
  BY <1>0, <1>a, <1>10 DEF WorkFails, AfterWork, ContinueLoop, Delete, Free
<1>11. ASSUME NEW t \in Threads, CheckForNewBlocks(t)
       PROVE ShareHeight' /\ RowsHeight' /\ BlocksHaveTheirHeight'
  BY <1>0, <1>a, <1>11 DEF CheckForNewBlocks
<1>12. ASSUME NEW t \in Threads, NewTemplate(t)
       PROVE ShareHeight' /\ RowsHeight' /\ BlocksHaveTheirHeight'
  BY <1>0, <1>a, <1>12 DEF NewTemplate
<1>13. ASSUME NEW t \in Threads, NEW c \in Clients, Notify(t, c)
       PROVE ShareHeight' /\ RowsHeight' /\ BlocksHaveTheirHeight'
  BY <1>0, <1>a, <1>13 DEF Notify, SendBlockData, Receives
<1>14. ASSUME NEW t \in Threads, NotifyDone(t)
       PROVE ShareHeight' /\ RowsHeight' /\ BlocksHaveTheirHeight'
  BY <1>0, <1>a, <1>14 DEF NotifyDone
<1>15. ASSUME NEW t \in Threads, NEW c \in Clients, NEW i \in 1..MaxPayload,
              NEW s \in Solutions, NEW foundBlock \in BOOLEAN,
              SubmitShare(t, c, i, s, foundBlock)
       PROVE ShareHeight' /\ RowsHeight' /\ BlocksHaveTheirHeight'
  <2> DEFINE w == arrCurrentBlocks[c][i]
  <2>1. /\ pc[t] = "events" /\ owner[c] = t
        /\ i \in 1..Len(arrCurrentBlocks[c]) /\ w.prev = tip
        /\ UNCHANGED <<height, coinTypeBlockHeight, shares, blocks>>
    BY <1>15 DEF SubmitShare, Event
  <2>2. /\ pc'[t] = "saveshare" /\ share'[t].work = w /\ share'[t].solution = s
        /\ \A u \in Threads \ {t} : pc'[u] = pc[u] /\ share'[u] = share[u]
    BY <1>0, <1>15 DEF SubmitShare
  <2>3. coinTypeBlockHeight[t] = NextHeight
    BY <1>a, <2>1
  <2> HIDE DEF w
  <2>4. ShareHeight'
    <3> SUFFICES ASSUME NEW u \in Threads, pc'[u] \in SharePlaces
                 PROVE  /\ share'[u].solution \in Solutions
                        /\ share'[u].work.prev \in 1..Len(height')
                        /\ coinTypeBlockHeight'[u] = height'[share'[u].work.prev] + 1
                        /\ pc'[u] = "saveblock" =>
                              /\ share'[u].hash \in 1..Len(height')
                              /\ height'[share'[u].hash] = height'[share'[u].work.prev] + 1
      BY Zenon
    <3>1. CASE u = t
      BY <1>0, <2>1, <2>2, <2>3, <3>1
    <3>2. CASE u # t
      BY <1>a, <2>1, <2>2, <3>2
    <3> QED
      BY <3>1, <3>2
  <2>5. RowsHeight' /\ BlocksHaveTheirHeight'
    BY <1>a, <2>1
  <2> QED
    BY <2>4, <2>5
<1>16. ASSUME NEW t \in Threads, NEW saved \in BOOLEAN, SaveShare(t, saved)
       PROVE ShareHeight' /\ RowsHeight' /\ BlocksHaveTheirHeight'
  <2> DEFINE row == [client |-> cur[t], work |-> share[t].work,
                     solution |-> share[t].solution, blockheight |-> coinTypeBlockHeight[t]]
  <2>1. /\ pc[t] = "saveshare"
        /\ shares' = (IF saved THEN Append(shares, row) ELSE shares)
        /\ UNCHANGED <<height, blocks, coinTypeBlockHeight>>
        /\ pc'[t] = "events" \/ (pc'[t] = "submit" /\ share'[t] = share[t])
    <3>1. ShareDone(t) \/ (Goto(t, "submit") /\ UNCHANGED share)
      BY <1>16 DEF SaveShare
    <3>2. pc'[t] = "events" \/ (pc'[t] = "submit" /\ share'[t] = share[t])
      BY <1>0, <3>1 DEF ShareDone
    <3> QED
      BY <1>16, <3>2 DEF SaveShare
  <2>2. \A u \in Threads \ {t} : pc'[u] = pc[u] /\ share'[u] = share[u]
    BY <1>b, <1>16, ShareStep
  <2>3. ShareHeight'
    BY <1>a, <2>1, <2>2
  <2>4. row \in ShareRow /\ row.work = share[t].work /\ row.blockheight = coinTypeBlockHeight[t]
    <3>1. cur[t] \in Clients /\ share[t].solution \in Solutions
      BY <1>a, <2>1 DEF IInv, CurInv
    <3>2. share[t].work \in Workload /\ coinTypeBlockHeight[t] \in Nat
      BY <1>0 DEF ShareInHand
    <3> QED
      BY <3>1, <3>2 DEF ShareRow
  <2> HIDE DEF row
  <2>5. \A i \in 1..Len(shares') :
            shares'[i] = row \/ (i \in 1..Len(shares) /\ shares'[i] = shares[i])
    BY <1>0, <2>1, <2>4, AppendProperties
  <2>6. RowsHeight'
    BY <1>a, <2>1, <2>4, <2>5
  <2>7. BlocksHaveTheirHeight'
    BY <1>a, <2>1
  <2> QED
    BY <2>3, <2>6, <2>7
<1>17. ASSUME NEW t \in Threads, CheckStale(t)
       PROVE ShareHeight' /\ RowsHeight' /\ BlocksHaveTheirHeight'
  <2>1. /\ pc[t] = "submit"
        /\ UNCHANGED <<height, shares, blocks, coinTypeBlockHeight>>
        /\ pc'[t] = "events" \/ (pc'[t] = "process" /\ share'[t] = share[t])
    <3>1. ShareDone(t) \/ (Goto(t, "process") /\ UNCHANGED share)
      BY <1>17 DEF CheckStale
    <3>2. pc'[t] = "events" \/ (pc'[t] = "process" /\ share'[t] = share[t])
      BY <1>0, <3>1 DEF ShareDone
    <3> QED
      BY <1>17, <3>2 DEF CheckStale
  <2>2. \A u \in Threads \ {t} : pc'[u] = pc[u] /\ share'[u] = share[u]
    BY <1>b, <1>17, ShareStep
  <2>3. ShareHeight'
    BY <1>a, <2>1, <2>2
  <2>4. RowsHeight' /\ BlocksHaveTheirHeight'
    BY <1>a, <2>1
  <2> QED
    BY <2>3, <2>4
<1>18. ASSUME NEW t \in Threads, ProcessBlock(t)
       PROVE ShareHeight' /\ RowsHeight' /\ BlocksHaveTheirHeight'
  <2>1. /\ Len(height') \in Nat
        /\ 1..Len(height) \subseteq 1..Len(height')
        /\ \A b \in 1..Len(height) : height'[b] = height[b]
    BY <1>18, ProcessBlockNode
  <2>2. \/ pc'[t] = "events"
        \/ /\ share'[t].hash \in 1..Len(height')
           /\ height'[share'[t].hash] = height[share[t].work.prev] + 1
           /\ share'[t].work = share[t].work /\ share'[t].solution = share[t].solution
    BY <1>18, ProcessBlockNode
  <2>3. /\ \A u \in Threads \ {t} : pc'[u] = pc[u] /\ share'[u] = share[u]
        /\ UNCHANGED coinTypeBlockHeight
    BY <1>b, <1>18, ShareStep
  <2>4. pc[t] = "process" /\ UNCHANGED <<shares, blocks>>
    BY <1>18 DEF ProcessBlock
  <2>5. ShareHeight'
    <3> SUFFICES ASSUME NEW u \in Threads, pc'[u] \in SharePlaces
                 PROVE  /\ share'[u].solution \in Solutions
                        /\ share'[u].work.prev \in 1..Len(height')
                        /\ coinTypeBlockHeight'[u] = height'[share'[u].work.prev] + 1
                        /\ pc'[u] = "saveblock" =>
                              /\ share'[u].hash \in 1..Len(height')
                              /\ height'[share'[u].hash] = height'[share'[u].work.prev] + 1
      BY Zenon
    <3>1. CASE u = t
      BY <1>a, <2>1, <2>2, <2>3, <2>4, <3>1
    <3>2. CASE u # t
      <4>1. /\ pc'[u] = pc[u] /\ share'[u] = share[u]
            /\ coinTypeBlockHeight'[u] = coinTypeBlockHeight[u]
        BY <2>3, <3>2
      <4>2. /\ share[u].solution \in Solutions
            /\ share[u].work.prev \in 1..Len(height)
            /\ coinTypeBlockHeight[u] = height[share[u].work.prev] + 1
            /\ pc[u] = "saveblock" =>
                  /\ share[u].hash \in 1..Len(height)
                  /\ height[share[u].hash] = height[share[u].work.prev] + 1
        BY <1>a, <4>1
      <4> HIDE DEF WorkHeight, ShareHeight, RowsHeight, BlocksHaveTheirHeight
      <4> QED
        BY <2>1, <4>1, <4>2
    <3> QED
      BY <3>1, <3>2
  <2>6. RowsHeight'
    BY <1>a, <2>1, <2>4
  <2>7. BlocksHaveTheirHeight'
    BY <1>a, <2>1, <2>4
  <2> QED
    BY <2>5, <2>6, <2>7
<1>19. ASSUME NEW t \in Threads, NEW saved \in BOOLEAN, SaveBlock(t, saved)
       PROVE ShareHeight' /\ RowsHeight' /\ BlocksHaveTheirHeight'
  <2>1. /\ pc[t] = "saveblock" /\ pc'[t] = "events"
        /\ UNCHANGED <<height, shares, coinTypeBlockHeight>>
    BY <1>0, <1>19 DEF SaveBlock, ShareDone
  <2>2. \A u \in Threads \ {t} : pc'[u] = pc[u] /\ share'[u] = share[u]
    BY <1>b, <1>19, ShareStep
  <2>3. ShareHeight'
    BY <1>a, <2>1, <2>2
  <2>4. RowsHeight'
    BY <1>a, <2>1
  <2>5. BlocksHaveTheirHeight'
    BY <1>a, <1>19, <2>1 DEF SaveBlock, RecordedHeight
  <2> QED
    BY <2>3, <2>4, <2>5
<1> QED
  <2> HIDE DEF ShareHeight, RowsHeight, BlocksHaveTheirHeight
  <2> QED
    BY <1>1, <1>2, <1>3, <1>4, <1>5, <1>6, <1>7, <1>8, <1>9, <1>10, <1>11, <1>12, <1>13, <1>14, <1>15, <1>16, <1>17, <1>18, <1>19
       DEF Next, Environment, Internal, Packet
-----------------------------------------------------------------------------
(* The inductive invariant holds for ever. *)
LEMMA Invariance == Spec => []IInv
<1>1. ASSUME IInv, [Next]_vars PROVE IInv'
  <2>1. CASE Next
    BY <1>1, <2>1, TypeStep, ClientsStep, WorkloadsStep, WorkHeightStep, RowsStep DEF IInv
  <2>2. CASE UNCHANGED vars
    <3> USE <1>1, <2>2
        DEF vars, nodeVars, workVars, loopVars, clientVars, dbVars, IInv,
            NextHeight, Allocated, LoggedIn
    <3>1. TypeOK'
      BY DEF TypeOK
    <3>2. NoFreedClient' /\ CurInv'
      BY DEF NoFreedClient, CurInv
    <3>3. WorkKnown' /\ WorkOnTemplate' /\ WorkHeight'
      BY DEF WorkKnown, WorkOnTemplate, WorkHeight
    <3>4. ShareHeight' /\ RowsHeight' /\ BlocksHaveTheirHeight'
      BY DEF ShareHeight, RowsHeight, BlocksHaveTheirHeight
    <3> QED
      BY <3>1, <3>2, <3>3, <3>4
  <2> QED
    BY <1>1, <2>1, <2>2
<1> QED
  BY <1>1, InitIInv, PTL DEF Spec

(* The state of the pool server has its types, however the miners and the  *)
(* network behave: xptServer_t, xptServerClient_t and the tables.          *)
THEOREM TypeCorrect == Spec => []TypeOK
BY Invariance, PTL DEF IInv

(* No thread uses a client after xptServer_deleteClient: deletion removes  *)
(* it from the only lists that can hold it.                                *)
THEOREM ClientsAlive == Spec => []NoFreedClient
BY Invariance, PTL DEF IInv

(* A workload of xptCallback_generateWork on the best block has the next   *)
(* height in its coinbase, for any number of threads, payloads and blocks. *)
THEOREM WorkIsSound == Spec => []CurrentWorkIsSound
<1>1. IInv => CurrentWorkIsSound
  BY DEF IInv, WorkHeight, CurrentWorkIsSound
<1> QED
  BY <1>1, Invariance, PTL

(* SaveShare records every share under the height it was mined for. *)
THEOREM ShareHeights == Spec => []SharesHaveTheirHeight
<1>1. IInv => SharesHaveTheirHeight
  BY DEF IInv, RowsHeight, SharesHaveTheirHeight
<1> QED
  BY <1>1, Invariance, PTL

(* SaveBlock records every block under its own height. *)
THEOREM BlockHeights == Spec => []BlocksHaveTheirHeight
BY Invariance, PTL DEF IInv

-----------------------------------------------------------------------------
(* Who has work. *)
Served(t, c) ==
    /\ Len(arrCurrentBlocks[c]) = payloadNum[c]
    /\ \A i \in 1..Len(arrCurrentBlocks[c]) : arrCurrentBlocks[c][i].prev = currentBlock[t]

(* AllServed: when its thread is not about to hand out work, a miner that  *)
(* is logged in and not marked has as many workloads as it asked for, all  *)
(* of them on the thread's template.                                       *)
AllServed ==
    \A c \in Clients :
        Receives(c) /\ pc[owner[c]] \in {"events", "template"} \cup SharePlaces =>
            Served(owner[c], c)

(* The miner whose work is being made. *)
Active(c) == pc[owner[c]] \in WorkPlaces /\ cur[owner[c]] = c

(* A logged in miner is on the list of its thread; while its work is made  *)
(* the number of workloads goes with the place; if it is neither active    *)
(* nor still to be visited it is served.                                   *)
MinerInv(c) ==
    /\ LoggedIn(c) => /\ pc[owner[c]] # "start" /\ c \in monitored[owner[c]]
                      /\ payloadNum[c] \in Nat \ {0}
    /\ Active(c) =>
          /\ pc[owner[c]] = "coinbase" => Len(arrCurrentBlocks[c]) < payloadNum[c]
          /\ pc[owner[c]] = "height" => Len(arrCurrentBlocks[c]) = 1
          /\ pc[owner[c]] = "send" => Len(arrCurrentBlocks[c]) = payloadNum[c]
    /\ Receives(c) => Active(c) \/ c \in todo[owner[c]] \/ Served(owner[c], c)
MinersInv == \A c \in Clients : MinerInv(c)

(* What a step may do without harm to a miner. *)
LEMMA Untouched ==
    ASSUME NEW c \in Clients, MinerInv(c), NEW t, t = owner[c], owner'[c] = t,
           clientState'[c] = clientState[c], disconnected'[c] = disconnected[c],
           payloadNum'[c] = payloadNum[c], arrCurrentBlocks'[c] = arrCurrentBlocks[c],
           currentBlock'[t] = currentBlock[t], c \in monitored[t] => c \in monitored'[t],
           c \in todo[t] => c \in todo'[t], pc[t] = "start" \/ pc'[t] # "start",
           \/ pc'[t] = pc[t] /\ cur'[t] = cur[t]
           \/ ~(pc[t] \in WorkPlaces /\ cur[t] = c) /\ ~(pc'[t] \in WorkPlaces /\ cur'[t] = c)
    PROVE  MinerInv(c)'
<1>1. Active(c)' <=> Active(c) BY DEF Active
<1>2. Served(t, c)' <=> Served(t, c) BY DEF Served
<1>3. (LoggedIn(c)' <=> LoggedIn(c)) /\ (Receives(c)' <=> Receives(c)) BY DEF LoggedIn, Receives
<1>4. Active(c) => pc'[t] = pc[t] BY DEF Active
<1>5. LoggedIn(c) => pc'[t] # "start" BY DEF MinerInv
<1> QED BY <1>1, <1>2, <1>3, <1>4, <1>5 DEF MinerInv

(* A thread that is not making work, before or after. *)
LEMMA ThreadOnly ==
    ASSUME IInv, MinersInv, NEW u \in Threads, pc[u] \notin WorkPlaces,
           NEW place \in Places \ (WorkPlaces \cup {"start"}), Goto(u, place),
           \A t \in Threads \ {u} : cur'[t] = cur[t],
           UNCHANGED <<currentBlock, todo, clientState, owner, disconnected, payloadNum, arrCurrentBlocks>>,
           \A t \in Threads : monitored[t] \subseteq monitored'[t]
    PROVE  MinersInv'
<1> SUFFICES ASSUME NEW c \in Clients PROVE MinerInv(c)' BY DEF MinersInv
<1>1. PICK t \in Threads : t = owner[c] BY DEF IInv, TypeOK
<1>2. pc'[u] = place /\ \A v \in Threads \ {u} : pc'[v] = pc[v] BY DEF Goto, IInv, TypeOK
<1>3. \/ pc'[t] = pc[t] /\ cur'[t] = cur[t]
      \/ ~(pc[t] \in WorkPlaces /\ cur[t] = c) /\ ~(pc'[t] \in WorkPlaces /\ cur'[t] = c)
  BY <1>2
<1>4. pc[t] = "start" \/ pc'[t] # "start" BY <1>2
<1>5. MinerInv(c) /\ owner'[c] = t BY <1>1 DEF MinersInv
<1>6. monitored[t] \subseteq monitored'[t] OBVIOUS
<1> QED BY <1>1, <1>3, <1>4, <1>5, <1>6, Untouched

(* The other miners, when thread u handles its miner d. *)
LEMMA OtherMiners ==
    ASSUME IInv, MinersInv, NEW u \in Threads, NEW d \in Clients, NEW place \in Places \ {"start"},
           Goto(u, place), cur[u] = d \/ pc[u] \notin WorkPlaces, cur'[u] \in {d, NoClient},
           \A t \in Threads \ {u} : cur'[t] = cur[t], UNCHANGED currentBlock,
           NEW c \in Clients \ {d}, clientState'[c] = clientState[c], owner'[c] = owner[c],
           disconnected'[c] = disconnected[c], payloadNum'[c] = payloadNum[c],
           arrCurrentBlocks'[c] = arrCurrentBlocks[c],
           \A t \in Threads : monitored[t] \ {d} \subseteq monitored'[t] /\ todo[t] \ {d} \subseteq todo'[t]
    PROVE  MinerInv(c)'
<1>1. PICK t \in Threads : t = owner[c] BY DEF IInv, TypeOK
<1>2. pc'[u] = place /\ \A v \in Threads \ {u} : pc'[v] = pc[v] BY DEF Goto, IInv, TypeOK
<1>3. c # NoClient BY ClientAssumption
<1>4. \/ pc'[t] = pc[t] /\ cur'[t] = cur[t]
      \/ ~(pc[t] \in WorkPlaces /\ cur[t] = c) /\ ~(pc'[t] \in WorkPlaces /\ cur'[t] = c)
  BY <1>2, <1>3
<1>5. pc[t] = "start" \/ pc'[t] # "start" BY <1>2
<1>6. MinerInv(c) /\ owner'[c] = t BY <1>1 DEF MinersInv
<1>7. (c \in monitored[t] => c \in monitored'[t]) /\ (c \in todo[t] => c \in todo'[t]) OBVIOUS
<1> QED BY <1>1, <1>4, <1>5, <1>6, <1>7, Untouched

(* A miner that is not logged in, and that no thread makes work for. *)
LEMMA Outside ==
    ASSUME NEW c \in Clients, ~LoggedIn(c)', ~Active(c)' PROVE MinerInv(c)'
BY DEF MinerInv, Receives, LoggedIn

LEMMA MinersAccept ==
    ASSUME IInv, MinersInv, TypeOK', NEW d \in Clients, Accept(d) PROVE MinersInv'
<1> SUFFICES ASSUME NEW c \in Clients PROVE MinerInv(c)' BY DEF MinersInv
<1>1. /\ UNCHANGED <<pc, currentBlock, monitored, todo, cur, disconnected, payloadNum, arrCurrentBlocks>>
      /\ \A e \in Clients \ {d} : clientState'[e] = clientState[e] /\ owner'[e] = owner[e]
      /\ clientState'[d] = "new" /\ ~Allocated(d)
  BY DEF Accept, workVars, loopVars, IInv, TypeOK
<1>2. CASE c = d
  <2>1. ~LoggedIn(c)' BY <1>1, <1>2 DEF LoggedIn
  <2>2. owner'[c] \in Threads BY DEF TypeOK
  <2>3. cur[owner'[c]] # c BY <1>1, <1>2, <2>2, ClientAssumption DEF IInv, NoFreedClient
  <2>4. ~Active(c)' BY <1>1, <2>3 DEF Active
  <2> QED BY <2>1, <2>4, Outside
<1>3. CASE c # d
  <2>1. PICK t : t = owner[c] OBVIOUS
  <2> QED BY <1>1, <1>3, <2>1, Untouched DEF MinersInv
<1> QED BY <1>2, <1>3

LEMMA MinersNewTip ==
    ASSUME IInv, MinersInv, NEW h, NewTip(h) PROVE MinersInv'
<1> SUFFICES ASSUME NEW c \in Clients PROVE MinerInv(c)' BY DEF MinersInv
<1>1. UNCHANGED <<pc, currentBlock, monitored, todo, cur, clientState, owner, disconnected, payloadNum,
                  arrCurrentBlocks>>
  BY DEF NewTip, workVars, loopVars, clientVars
<1>2. PICK t : t = owner[c] OBVIOUS
<1> QED BY <1>1, <1>2, Untouched DEF MinersInv

LEMMA MinersStart ==
    ASSUME IInv, MinersInv, NEW u \in Threads, StartThread(u) PROVE MinersInv'
<1> SUFFICES ASSUME NEW c \in Clients PROVE MinerInv(c)' BY DEF MinersInv
<1>1. /\ UNCHANGED <<monitored, todo, cur, clientState, owner, disconnected, payloadNum, arrCurrentBlocks>>
      /\ pc[u] = "start" /\ pc'[u] = "events"
      /\ \A t \in Threads \ {u} : pc'[t] = pc[t] /\ currentBlock'[t] = currentBlock[t]
  BY DEF StartThread, Goto, loopVars, clientVars, IInv, TypeOK
<1>2. PICK t \in Threads : t = owner[c] BY DEF IInv, TypeOK
<1>3. MinerInv(c) BY DEF MinersInv
<1>4. CASE t = u
  <2>1. ~LoggedIn(c) BY <1>1, <1>2, <1>3, <1>4 DEF MinerInv
  <2>2. ~LoggedIn(c)' BY <1>1, <2>1 DEF LoggedIn
  <2>3. ~Active(c)' BY <1>1, <1>2, <1>4 DEF Active, WorkPlaces
  <2> QED BY <2>2, <2>3, Outside
<1>5. CASE t # u BY <1>1, <1>2, <1>3, <1>5, Untouched
<1> QED BY <1>4, <1>5

(* A client that is deleted by its thread, which does not make work then.  *)
LEMMA MinersDelete ==
    ASSUME IInv, MinersInv, NEW u \in Threads, NEW d \in Clients, owner[d] = u, Delete(u, d),
           NEW place \in Places \ (WorkPlaces \cup {"start"}), Goto(u, place),
           cur[u] = d \/ pc[u] \notin WorkPlaces, cur'[u] \in {d, NoClient},
           \A t \in Threads \ {u} : cur'[t] = cur[t], UNCHANGED <<currentBlock, todo>>
    PROVE  MinersInv'
<1> SUFFICES ASSUME NEW c \in Clients PROVE MinerInv(c)' BY DEF MinersInv
<1>1. /\ \A e \in Clients \ {d} :
            /\ clientState'[e] = clientState[e] /\ owner'[e] = owner[e]
            /\ disconnected'[e] = disconnected[e] /\ payloadNum'[e] = payloadNum[e]
            /\ arrCurrentBlocks'[e] = arrCurrentBlocks[e]
      /\ clientState'[d] = "free" /\ owner'[d] = 0
      /\ \A t \in Threads : monitored[t] \ {d} \subseteq monitored'[t]
  BY DEF Delete, Free, IInv, TypeOK
<1>2. pc'[u] = place /\ \A v \in Threads \ {u} : pc'[v] = pc[v] BY DEF Goto, IInv, TypeOK
<1>3. CASE c = d
  <2>1. ~LoggedIn(c)' BY <1>1, <1>3 DEF LoggedIn
  <2>2. 0 \in Threads BY ThreadsAssumption DEF Threads
  <2>3. ASSUME 0 # u PROVE cur'[0] # c
    BY <1>3, <2>2, <2>3, ClientAssumption DEF IInv, NoFreedClient
  <2>4. ~Active(c)' BY <1>1, <1>2, <1>3, <2>2, <2>3 DEF Active
  <2> QED BY <2>1, <2>4, Outside
<1>4. CASE c # d BY <1>1, <1>4, OtherMiners
<1> QED BY <1>3, <1>4

(* Work begins for d: it has none yet. *)
LEMMA MinersSend ==
    ASSUME IInv, MinersInv, NEW u \in Threads, NEW d \in Clients, NEW from, SendBlockData(u, d, from),
           owner[d] = u, LoggedIn(d)', d \in monitored'[u], payloadNum'[d] \in Nat \ {0},
           pc[u] \notin WorkPlaces, UNCHANGED <<currentBlock, owner, disconnected>>,
           \A e \in Clients \ {d} : clientState'[e] = clientState[e] /\ payloadNum'[e] = payloadNum[e],
           \A t \in Threads : monitored[t] \subseteq monitored'[t] /\ todo[t] \ {d} \subseteq todo'[t]
    PROVE  MinersInv'
<1> SUFFICES ASSUME NEW c \in Clients PROVE MinerInv(c)' BY DEF MinersInv
<1>1. /\ cur'[u] = d /\ \A t \in Threads \ {u} : cur'[t] = cur[t]
      /\ arrCurrentBlocks'[d] = <<>> /\ \A e \in Clients \ {d} : arrCurrentBlocks'[e] = arrCurrentBlocks[e]
      /\ Goto(u, "coinbase") /\ pc'[u] = "coinbase"
  BY DEF SendBlockData, Goto, IInv, TypeOK
<1>2. CASE c = d
  <2>1. Active(c)' BY <1>1, <1>2 DEF Active, WorkPlaces
  <2>2. Len(arrCurrentBlocks'[c]) < payloadNum'[c] BY <1>1, <1>2
  <2> QED BY <1>1, <1>2, <2>1, <2>2 DEF MinerInv
<1>3. CASE c # d
  <2>1. "coinbase" \in Places \ {"start"} BY DEF Places
  <2> QED BY <1>1, <1>3, <2>1, OtherMiners
<1> QED BY <1>2, <1>3

LEMMA MinersGenerate ==
    ASSUME IInv, MinersInv, NEW u \in Threads, GenerateCoinbase(u) \/ GenerateHeight(u) PROVE MinersInv'
<1> SUFFICES ASSUME NEW c \in Clients PROVE MinerInv(c)' BY DEF MinersInv
<1>1. PICK d \in Clients : d = cur[u] /\ owner[d] = u /\ LoggedIn(d) /\ pc[u] \in {"coinbase", "height"}
  BY ClientAssumption DEF GenerateCoinbase, GenerateHeight, WorkPlaces, IInv, CurInv, NoFreedClient
<1>2. /\ UNCHANGED <<currentBlock, monitored, todo, cur, clientState, owner, disconnected, payloadNum>>
      /\ \A e \in Clients \ {d} : arrCurrentBlocks'[e] = arrCurrentBlocks[e]
  BY <1>1 DEF GenerateCoinbase, GenerateHeight, workVars, loopVars, clientVars, IInv, TypeOK
<1>3. PICK place \in {"coinbase", "height", "send"} : Goto(u, place)
  BY DEF GenerateCoinbase, GenerateHeight
<1>4. pc'[u] = place BY <1>3 DEF Goto, IInv, TypeOK
<1>5. MinerInv(d) /\ Active(d) BY <1>1 DEF MinersInv, Active, WorkPlaces
<1>6. payloadNum[d] \in Nat \ {0} /\ arrCurrentBlocks[d] \in Seq(Workload)
  BY <1>1, <1>5 DEF MinerInv, IInv, TypeOK
<1>7. CASE c = d
  <2>1. Active(c)' /\ LoggedIn(c)' BY <1>1, <1>2, <1>4, <1>7 DEF Active, WorkPlaces, LoggedIn
  <2>2. /\ place = "coinbase" => Len(arrCurrentBlocks'[d]) < payloadNum[d]
        /\ place = "height" => Len(arrCurrentBlocks'[d]) = 1
        /\ place = "send" => Len(arrCurrentBlocks'[d]) = payloadNum[d]
    <3>1. CASE GenerateCoinbase(u)
      <4>1. Len(arrCurrentBlocks'[d]) = Len(arrCurrentBlocks[d]) + 1
        <5>1. PICK w : arrCurrentBlocks'[d] = Append(arrCurrentBlocks[d], w)
          BY <1>1, <3>1 DEF GenerateCoinbase, IInv, TypeOK
        <5> QED BY <1>6, <5>1
      <4>2. Len(arrCurrentBlocks[d]) \in Nat /\ Len(arrCurrentBlocks[d]) < payloadNum[d]
        BY <1>1, <1>5, <1>6, <3>1 DEF MinerInv, GenerateCoinbase
      <4>3. PICK n \in Nat : n = Len(arrCurrentBlocks[d]) + 1 BY <4>2
      <4>4. Goto(u, CASE n = 1 -> "height" [] n > 1 /\ n < payloadNum[d] -> "coinbase" [] OTHER -> "send")
        BY <1>1, <3>1, <4>3 DEF GenerateCoinbase
      <4>5. place = CASE n = 1 -> "height" [] n > 1 /\ n < payloadNum[d] -> "coinbase" [] OTHER -> "send"
        BY <1>4, <4>4 DEF Goto, IInv, TypeOK
      <4>6. Len(arrCurrentBlocks'[d]) = n /\ n > 0 /\ n <= payloadNum[d] BY <1>6, <4>1, <4>2, <4>3
      <4>7. CASE n = 1 BY <4>5, <4>6, <4>7
      <4>8. CASE n # 1 /\ n < payloadNum[d] BY <1>6, <4>5, <4>6, <4>8
      <4>9. CASE n # 1 /\ ~(n < payloadNum[d])
        <5>1. place = "send" BY <1>6, <4>5, <4>6, <4>9
        <5> QED BY <1>6, <4>6, <4>9, <5>1
      <4> QED BY <4>7, <4>8, <4>9
    <3>2. CASE GenerateHeight(u)
      <4>1. Len(arrCurrentBlocks[d]) = 1 /\ arrCurrentBlocks' = arrCurrentBlocks
        BY <1>1, <1>5, <3>2 DEF MinerInv, GenerateHeight
      <4>2. place = IF payloadNum[d] > 1 THEN "coinbase" ELSE "send"
        BY <1>1, <1>4, <3>2 DEF GenerateHeight, Goto, IInv, TypeOK
      <4>3. Len(arrCurrentBlocks'[d]) = 1 BY <4>1
      <4>4. CASE payloadNum[d] > 1
        <5>1. place = "coinbase" BY <4>2, <4>4
        <5> QED BY <1>6, <4>3, <4>4, <5>1
      <4>5. CASE ~(payloadNum[d] > 1)
        <5>1. place = "send" BY <4>2, <4>5
        <5>2. payloadNum[d] = 1 BY <1>6, <4>5
        <5> QED BY <4>3, <5>1, <5>2
      <4> QED BY <4>4, <4>5
    <3> QED BY <3>1, <3>2
  <2> QED BY <1>1, <1>2, <1>4, <1>5, <1>6, <1>7, <2>1, <2>2 DEF MinerInv
<1>8. CASE c # d
  <2>1. place \in Places \ {"start"} BY DEF Places
  <2> QED BY <1>1, <1>2, <1>3, <1>8, <2>1, OtherMiners
<1> QED BY <1>7, <1>8

LEMMA MinersSendWork ==
    ASSUME IInv, MinersInv, NEW u \in Threads, SendWork(u) PROVE MinersInv'
<1> SUFFICES ASSUME NEW c \in Clients PROVE MinerInv(c)' BY DEF MinersInv
<1>1. PICK d \in Clients : d = cur[u] /\ owner[d] = u /\ LoggedIn(d) /\ pc[u] = "send"
  BY ClientAssumption DEF SendWork, WorkPlaces, IInv, CurInv, NoFreedClient
<1>2. /\ UNCHANGED <<currentBlock, monitored, todo, clientState, owner, disconnected, payloadNum,
                     arrCurrentBlocks>>
      /\ cur'[u] = NoClient /\ \A t \in Threads \ {u} : cur'[t] = cur[t]
  BY DEF SendWork, workVars, loopVars, clientVars, IInv, TypeOK
<1>3. PICK place \in {"events", "notify"} : Goto(u, place) BY DEF SendWork, AfterWork
<1>4. pc'[u] = place BY <1>3 DEF Goto, IInv, TypeOK
<1>5. MinerInv(d) /\ Active(d) BY <1>1 DEF MinersInv, Active, WorkPlaces
<1>6. CASE c = d
  <2>1. Served(u, d)
    <3>1. Len(arrCurrentBlocks[d]) = payloadNum[d] BY <1>1, <1>5 DEF MinerInv
    <3> QED BY <1>1, <3>1 DEF Served, IInv, WorkOnTemplate, WorkPlaces
  <2>2. Served(u, d)' BY <1>2, <2>1 DEF Served
  <2>3. ~Active(c)' BY <1>1, <1>2, <1>4, <1>6 DEF Active, WorkPlaces
  <2> QED BY <1>1, <1>2, <1>4, <1>5, <1>6, <2>2, <2>3 DEF MinerInv, LoggedIn
<1>7. CASE c # d
  <2>1. place \in Places \ {"start"} BY DEF Places
  <2> QED BY <1>1, <1>2, <1>3, <1>7, <2>1, OtherMiners
<1> QED BY <1>6, <1>7

LEMMA MinersWorkFails ==
    ASSUME IInv, MinersInv, NEW u \in Threads, WorkFails(u) PROVE MinersInv'
<1>1. PICK d \in Clients : d = cur[u] /\ owner[d] = u /\ LoggedIn(d) /\ pc[u] \in {"coinbase", "send"}
  BY ClientAssumption DEF WorkFails, WorkPlaces, IInv, CurInv, NoFreedClient
<1>2. /\ UNCHANGED <<currentBlock, todo>>
      /\ cur'[u] = NoClient /\ \A t \in Threads \ {u} : cur'[t] = cur[t]
  BY DEF WorkFails, ContinueLoop, workVars, IInv, TypeOK
<1>3. PICK place \in {"events", "notify"} : Goto(u, place) BY DEF WorkFails, AfterWork
<1>4. pc'[u] = place BY <1>3 DEF Goto, IInv, TypeOK
<1>5. place \in Places \ (WorkPlaces \cup {"start"}) BY DEF Places, WorkPlaces
<1>6. CASE Delete(u, d) BY <1>1, <1>2, <1>3, <1>5, <1>6, MinersDelete
<1>7. CASE /\ disconnected' = [disconnected EXCEPT ![d] = TRUE]
           /\ UNCHANGED <<clientState, owner, payloadNum, arrCurrentBlocks, monitored>>
  <2> SUFFICES ASSUME NEW c \in Clients PROVE MinerInv(c)' BY DEF MinersInv
  <2>1. CASE c = d
    <3>1. ~Receives(c)' BY <1>7, <2>1 DEF Receives, IInv, TypeOK
    <3>2. ~Active(c)' BY <1>1, <1>4, <1>7, <2>1 DEF Active, WorkPlaces
    <3>3. MinerInv(d) BY DEF MinersInv
    <3> QED BY <1>1, <1>4, <1>7, <2>1, <3>1, <3>2, <3>3 DEF MinerInv, LoggedIn
  <2>2. CASE c # d
    <3>1. disconnected'[c] = disconnected[c] BY <1>7, <2>2 DEF IInv, TypeOK
    <3> QED BY <1>1, <1>2, <1>3, <1>5, <1>7, <2>2, <3>1, OtherMiners
  <2> QED BY <2>1, <2>2
<1> QED BY <1>1, <1>6, <1>7 DEF WorkFails

LEMMA MinersNewTemplate ==
    ASSUME IInv, MinersInv, NEW u \in Threads, NewTemplate(u) PROVE MinersInv'
<1> SUFFICES ASSUME NEW c \in Clients PROVE MinerInv(c)' BY DEF MinersInv
<1>1. /\ UNCHANGED <<monitored, cur, clientState, owner, disconnected, payloadNum, arrCurrentBlocks>>
      /\ pc[u] = "template" /\ pc'[u] = "notify" /\ todo'[u] = monitored[u]
      /\ \A t \in Threads \ {u} : /\ pc'[t] = pc[t] /\ currentBlock'[t] = currentBlock[t]
                                  /\ todo'[t] = todo[t]
  BY DEF NewTemplate, Goto, clientVars, IInv, TypeOK
<1>2. PICK t \in Threads : t = owner[c] BY DEF IInv, TypeOK
<1>3. MinerInv(c) BY DEF MinersInv
<1>4. CASE t = u
  <2>1. LoggedIn(c) => c \in todo'[u] BY <1>1, <1>2, <1>3, <1>4 DEF MinerInv
  <2>2. ~Active(c)' BY <1>1, <1>2, <1>4 DEF Active, WorkPlaces
  <2> QED BY <1>1, <1>2, <1>3, <1>4, <2>1, <2>2 DEF MinerInv, LoggedIn, Receives
<1>5. CASE t # u BY <1>1, <1>2, <1>3, <1>5, Untouched
<1> QED BY <1>4, <1>5

LEMMA MinersNotify ==
    ASSUME IInv, MinersInv, NEW u \in Threads, NEW d \in Clients, Notify(u, d) PROVE MinersInv'
<1>1. /\ UNCHANGED <<currentBlock, monitored, clientState, owner, disconnected, payloadNum>>
      /\ pc[u] = "notify" /\ d \in todo[u]
      /\ \A t \in Threads : todo[t] \ {d} \subseteq todo'[t]
  BY DEF Notify, workVars, clientVars, IInv, TypeOK
<1>2. owner[d] = u BY <1>1, ClientAssumption DEF IInv, NoFreedClient
<1>3. MinerInv(d) BY DEF MinersInv
<1>4. CASE Receives(d) /\ SendBlockData(u, d, "notify")
  <2>1. LoggedIn(d) /\ d \in monitored[u] /\ payloadNum[d] \in Nat \ {0}
    BY <1>2, <1>3, <1>4 DEF Receives, MinerInv
  <2>2. LoggedIn(d)' BY <1>1, <2>1 DEF LoggedIn
  <2>3. pc[u] \notin WorkPlaces BY <1>1 DEF WorkPlaces
  <2> QED BY <1>1, <1>2, <1>4, <2>1, <2>2, <2>3, MinersSend
<1>5. CASE ~Receives(d) /\ UNCHANGED <<pc, cur, arrCurrentBlocks>>
  <2> SUFFICES ASSUME NEW c \in Clients PROVE MinerInv(c)' BY DEF MinersInv
  <2>1. CASE c = d
    <3>1. ~Receives(c)' BY <1>1, <1>5, <2>1 DEF Receives, LoggedIn
    <3>2. ~Active(c)' BY <1>1, <1>2, <1>5, <2>1 DEF Active, WorkPlaces
    <3> QED BY <1>1, <1>3, <1>5, <2>1, <3>1, <3>2 DEF MinerInv, LoggedIn
  <2>2. CASE c # d
    <3>1. PICK t \in Threads : t = owner[c] BY DEF IInv, TypeOK
    <3>2. c \in todo[t] => c \in todo'[t] BY <1>1, <2>2
    <3> QED BY <1>1, <1>5, <3>1, <3>2, Untouched DEF MinersInv
  <2> QED BY <2>1, <2>2
<1> QED BY <1>4, <1>5 DEF Notify

(* Every other step of a thread leaves the work of its miners alone. *)
LEMMA MinersQuiet ==
    ASSUME IInv, MinersInv, NEW u \in Threads,
           \/ CheckForNewBlocks(u) \/ NotifyDone(u) \/ CheckStale(u) \/ ProcessBlock(u)
           \/ \E saved \in BOOLEAN : SaveShare(u, saved) \/ SaveBlock(u, saved)
           \/ \E c \in Clients : \E i, s, foundBlock : SubmitShare(u, c, i, s, foundBlock)
    PROVE  MinersInv'
<1> DEFINE Same == UNCHANGED <<currentBlock, todo, clientState, owner, disconnected, payloadNum,
                               arrCurrentBlocks>>
           Still == /\ \A t \in Threads : monitored[t] \subseteq monitored'[t]
                    /\ \A t \in Threads \ {u} : cur'[t] = cur[t]
           Moved == /\ pc[u] \notin WorkPlaces
                    /\ \E place \in {"events", "template", "saveshare", "submit", "process", "saveblock"} :
                           Goto(u, place)
<1>1. ASSUME CheckForNewBlocks(u) PROVE Same /\ Still /\ Moved
  <2>1. Same BY <1>1 DEF CheckForNewBlocks, workVars, loopVars, clientVars
  <2>2. Still BY <1>1 DEF CheckForNewBlocks, IInv, TypeOK
  <2>3. Moved BY <1>1 DEF CheckForNewBlocks, WorkPlaces
  <2> QED BY <2>1, <2>2, <2>3
<1>2. ASSUME NotifyDone(u) PROVE Same /\ Still /\ Moved
  <2>1. Same BY <1>2 DEF NotifyDone, workVars, loopVars, clientVars
  <2>2. Still BY <1>2 DEF NotifyDone, IInv, TypeOK
  <2>3. Moved BY <1>2 DEF NotifyDone, WorkPlaces
  <2> QED BY <2>1, <2>2, <2>3
<1>3. ASSUME CheckStale(u) PROVE Same /\ Still /\ Moved
  <2>1. Same BY <1>3 DEF CheckStale, workVars, loopVars, clientVars
  <2>2. Still BY <1>3 DEF CheckStale, ShareDone, IInv, TypeOK
  <2>3. Moved BY <1>3 DEF CheckStale, ShareDone, WorkPlaces
  <2> QED BY <2>1, <2>2, <2>3
<1>4. ASSUME ProcessBlock(u) PROVE Same /\ Still /\ Moved
  <2>1. Same BY <1>4 DEF ProcessBlock, workVars, loopVars, clientVars
  <2>2. Still BY <1>4 DEF ProcessBlock, ShareDone, IInv, TypeOK
  <2>3. Moved BY <1>4 DEF ProcessBlock, ShareDone, WorkPlaces
  <2> QED BY <2>1, <2>2, <2>3
<1>5. ASSUME NEW saved \in BOOLEAN, SaveShare(u, saved) PROVE Same /\ Still /\ Moved
  <2>1. Same BY <1>5 DEF SaveShare, workVars, loopVars, clientVars
  <2>2. Still BY <1>5 DEF SaveShare, ShareDone, IInv, TypeOK
  <2>3. Moved BY <1>5 DEF SaveShare, ShareDone, WorkPlaces
  <2> QED BY <2>1, <2>2, <2>3
<1>6. ASSUME NEW saved \in BOOLEAN, SaveBlock(u, saved) PROVE Same /\ Still /\ Moved
  <2>1. Same BY <1>6 DEF SaveBlock, workVars, loopVars, clientVars
  <2>2. Still BY <1>6 DEF SaveBlock, ShareDone, IInv, TypeOK
  <2>3. Moved BY <1>6 DEF SaveBlock, ShareDone, WorkPlaces
  <2> QED BY <2>1, <2>2, <2>3
<1>7. ASSUME NEW c \in Clients, NEW i, NEW s, NEW foundBlock, SubmitShare(u, c, i, s, foundBlock)
     PROVE  Same /\ Still /\ Moved
  <2>1. Same BY <1>7 DEF SubmitShare, workVars, loopVars, clientVars
  <2>2. Still BY <1>7 DEF SubmitShare, Event, IInv, TypeOK
  <2>3. Moved BY <1>7 DEF SubmitShare, Event, WorkPlaces
  <2> QED BY <2>1, <2>2, <2>3
<1>8. Same /\ Still /\ Moved BY <1>1, <1>2, <1>3, <1>4, <1>5, <1>6, <1>7
<1>9. PICK place \in {"events", "template", "saveshare", "submit", "process", "saveblock"} : Goto(u, place)
  BY <1>8
<1>10. place \in Places \ (WorkPlaces \cup {"start"}) BY DEF Places, WorkPlaces
<1> QED BY <1>8, <1>9, <1>10, ThreadOnly

LEMMA MinersPacket ==
    ASSUME IInv, MinersInv, NEW u \in Threads, NEW d \in Clients, Packet(u, d) PROVE MinersInv'
<1>1. pc[u] = "events" /\ owner[d] = u /\ pc[u] \notin WorkPlaces
  BY DEF Packet, Drop, Reply, AuthRequest, SubmitShare, Event, WorkPlaces
<1>2. "events" \in Places \ (WorkPlaces \cup {"start"}) BY DEF Places, WorkPlaces
<1>3. ASSUME UNCHANGED pc PROVE Goto(u, "events") BY <1>1, <1>3 DEF Goto, IInv, TypeOK
<1>4. CASE Drop(u, d)
  <2>1. UNCHANGED <<pc, cur, currentBlock, todo>> /\ Delete(u, d)
    BY <1>4 DEF Drop, workVars, loopVars
  <2>2. cur'[u] = NoClient BY <1>1, <2>1 DEF IInv, CurInv, WorkPlaces, SharePlaces
  <2> QED BY <1>1, <1>2, <1>3, <2>1, <2>2, MinersDelete
<1>5. CASE Reply(u, d)
  <2>1. /\ UNCHANGED <<pc, cur, currentBlock, todo, clientState, owner, disconnected, payloadNum,
                       arrCurrentBlocks>>
        /\ \A t \in Threads : monitored[t] \subseteq monitored'[t]
    BY <1>5 DEF Reply, Event, workVars, loopVars, clientVars, IInv, TypeOK
  <2> QED BY <1>1, <1>2, <1>3, <2>1, ThreadOnly
<1>6. ASSUME NEW n \in 1..MaxPayload, AuthRequest(u, d, n) PROVE MinersInv'
  <2>1. /\ UNCHANGED <<currentBlock, todo, owner, disconnected>> /\ SendBlockData(u, d, "auth")
        /\ \A t \in Threads : monitored[t] \subseteq monitored'[t]
        /\ d \in monitored'[u] /\ clientState'[d] = "in" /\ payloadNum'[d] = n
        /\ \A e \in Clients \ {d} : clientState'[e] = clientState[e] /\ payloadNum'[e] = payloadNum[e]
    BY <1>6 DEF AuthRequest, Event, workVars, loopVars, IInv, TypeOK
  <2>2. LoggedIn(d)' /\ payloadNum'[d] \in Nat \ {0} BY <2>1, PayloadAssumption DEF LoggedIn
  <2> QED BY <1>1, <2>1, <2>2, MinersSend
<1>7. CASE \E i \in 1..MaxPayload, s \in Solutions, foundBlock \in BOOLEAN :
              SubmitShare(u, d, i, s, foundBlock)
  BY <1>7, MinersQuiet
<1> QED BY <1>4, <1>5, <1>6, <1>7 DEF Packet

LEMMA MinersNext == IInv /\ TypeOK' /\ MinersInv /\ [Next]_vars => MinersInv'
<1> SUFFICES ASSUME IInv, TypeOK', MinersInv, [Next]_vars PROVE MinersInv' OBVIOUS
<1>1. CASE UNCHANGED vars
  <2>1. UNCHANGED <<pc, currentBlock, monitored, todo, cur, clientState, owner, disconnected, payloadNum,
                    arrCurrentBlocks>>
    BY <1>1 DEF vars, workVars, loopVars, clientVars
  <2> SUFFICES ASSUME NEW c \in Clients PROVE MinerInv(c)' BY DEF MinersInv
  <2>2. PICK t : t = owner[c] OBVIOUS
  <2> QED BY <2>1, <2>2, Untouched DEF MinersInv
<1>2. CASE Environment BY <1>2, MinersNewTip, MinersAccept, MinersPacket DEF Environment
<1>3. ASSUME NEW u \in Threads, Internal(u) PROVE MinersInv'
  BY <1>3, MinersStart, MinersGenerate, MinersSendWork, MinersWorkFails, MinersNewTemplate, MinersNotify,
     MinersQuiet DEF Internal
<1> QED BY <1>1, <1>2, <1>3 DEF Next

(* EveryoneHasWork: whenever a thread is not handing out work, each of its *)
(* miners that is logged in and not marked has exactly the workloads it    *)
(* asked for, all on the thread's template: neither a failure for another  *)
(* miner in the middle of sendNewBlockToAll nor a login between two rounds *)
(* leaves one behind.  It is what NotifiedAll says, as far as it does not  *)
(* depend on fairness.                                                     *)
THEOREM EveryoneHasWork == Spec => []AllServed
<1>1. Init => MinersInv
  <2> SUFFICES ASSUME Init, NEW c \in Clients PROVE MinerInv(c) BY DEF MinersInv
  <2>1. clientState[c] = "free" /\ owner[c] \in Threads BY ThreadsAssumption DEF Init, Threads
  <2>2. pc[owner[c]] = "start" BY <2>1 DEF Init
  <2> QED BY <2>1, <2>2 DEF MinerInv, Active, LoggedIn, Receives, WorkPlaces
<1>2. IInv /\ MinersInv => AllServed
  <2> SUFFICES ASSUME IInv, NEW c \in Clients, MinerInv(c), Receives(c),
                      pc[owner[c]] \in {"events", "template"} \cup SharePlaces
               PROVE  Served(owner[c], c)
    BY DEF MinersInv, AllServed
  <2>1. ~Active(c) BY DEF Active, WorkPlaces, SharePlaces
  <2>2. owner[c] \in Threads BY DEF IInv, TypeOK
  <2>3. todo[owner[c]] = {} BY <2>2 DEF IInv, CurInv, WorkPlaces, SharePlaces
  <2> QED BY <2>1, <2>3 DEF MinerInv
<1>3. IInv' => TypeOK' BY DEF IInv
<1> QED BY <1>1, <1>2, <1>3, Invariance, MinersNext, PTL DEF Spec
=============================================================================
