----------------------------- MODULE XptServer -----------------------------
(***************************************************************************)
(* The pool server: listening threads that hand miners work on the best    *)
(* block, replace it when the node has a new one, check the shares miners  *)
(* send back, record them in the database and submit the blocks found.     *)
(*                                                                         *)
(* The node changes its best block at any time; the threads read it        *)
(* without a lock, so every handler is cut where it reads the best block   *)
(* again or writes to the database.  A listening thread is sequential: it  *)
(* handles one packet or one notification at a time.                       *)
(*                                                                         *)
(* Miners send back the previous block hash of the workload they solved.   *)
(***************************************************************************)
EXTENDS Integers, Sequences

CONSTANTS
    NThreads,       \* number of listening threads (-threads)
    Clients,        \* connections (a freed one may be used again)
    NoClient,       \* stands for no connection
    Solutions,      \* prime chain multipliers a miner may find
    MaxPayload,     \* most workloads a miner may ask for (128)
    Garbage,        \* what an uninitialised coinTypeBlockHeight may hold
    MaxHeight,      \* bound on the height of a block
    MaxBlocks,      \* bound on the number of blocks ever seen
    MaxShares       \* no share is submitted once this many are recorded

Threads == 0..NThreads - 1

ASSUME ThreadsAssumption == NThreads \in Nat \ {0}
ASSUME ClientAssumption == NoClient \notin Clients
ASSUME PayloadAssumption == MaxPayload \in Nat \ {0}
ASSUME GarbageAssumption == Garbage \subseteq Nat /\ Garbage # {}
ASSUME BoundsAssumption == MaxHeight \in Nat \ {0} /\ MaxBlocks \in Nat /\ MaxShares \in Nat

VARIABLES
    (* the node: blocks are numbered in the order in which it learns them *)
    height,         \* height[b] is the height of block b
    tip,            \* the best block: hashBestChain and pindexBest
    (* the accepting thread *)
    iThreadUsed,    \* the thread after the one that got the last client
    (* each listening thread's xptServer_t *)
    pc,             \* where the thread is, see Places
    currentBlock,   \* the block its template builds on
    coinTypeBlockHeight, \* the height it takes for the one being mined
    newHeight,      \* blockHeightPerCoinType[0] of checkForNewBlocks
    monitored,      \* arrClientsMonitored
    todo,           \* clients the notification loop has still to visit
    workerCount,    \* clients it has sent work to
    cur,            \* the client being handled
    caller,         \* who called sendBlockData: "auth" or "notify"
    share,          \* the share in hand once it has passed its checks
    (* each connection's xptServerClient_t *)
    clientState,    \* "free", "new" or "in" (logged in)
    owner,          \* the thread whose epoll set it is in
    disconnected,
    payloadNum,
    arrCurrentBlocks, \* its workloads
    (* the database *)
    shares,         \* rows of the shares table
    blocks,         \* rows of the blocks table
    online          \* the counter kept in row 1 of the worker table

nodeVars == <<height, tip>>
workVars == <<currentBlock, coinTypeBlockHeight>>
loopVars == <<newHeight, todo, workerCount>>
clientVars == <<clientState, owner, disconnected, payloadNum>>
dbVars == <<shares, blocks, online>>
vars == <<nodeVars, iThreadUsed, pc, workVars, monitored, loopVars, cur, caller,
          share, clientVars, arrCurrentBlocks, dbVars>>

Places == {"start", "events", "coinbase", "height", "send", "template", "notify",
           "saveshare", "submit", "process", "saveblock"}

(* A copy of the template: the block it builds on and the height written   *)
(* into its coinbase.                                                      *)
Workload == [prev : Nat, coinbase : Nat]
NoShare == [work |-> [prev |-> 0, coinbase |-> 0], solution |-> "none",
            foundBlock |-> FALSE, hash |-> 0]

NextHeight == height[tip] + 1
Allocated(c) == clientState[c] # "free"
LoggedIn(c) == clientState[c] = "in"
Receives(c) == LoggedIn(c) /\ ~disconnected[c]

Init ==
    /\ height = <<1>>
    /\ tip = 1
    /\ iThreadUsed = 0
    /\ pc = [t \in Threads |-> "start"]
    /\ currentBlock = [t \in Threads |-> 0]
    /\ coinTypeBlockHeight \in [Threads -> Garbage]
    /\ newHeight = [t \in Threads |-> 0]
    /\ monitored = [t \in Threads |-> {}]
    /\ todo = [t \in Threads |-> {}]
    /\ workerCount = [t \in Threads |-> 0]
    /\ cur = [t \in Threads |-> NoClient]
    /\ caller = [t \in Threads |-> "auth"]
    /\ share = [t \in Threads |-> NoShare]
    /\ clientState = [c \in Clients |-> "free"]
    /\ owner = [c \in Clients |-> 0]
    /\ disconnected = [c \in Clients |-> FALSE]
    /\ payloadNum = [c \in Clients |-> 0]
    /\ arrCurrentBlocks = [c \in Clients |-> <<>>]
    /\ shares = <<>>
    /\ blocks = {}
    /\ online = 0

-----------------------------------------------------------------------------
(* The node and the accepting thread.                                      *)

(* A block from the network becomes the best one.  The chain with the most *)
(* work is not always the longer one, so its height may be any.            *)
NewTip(h) ==
    /\ Len(height) < MaxBlocks
    /\ height' = Append(height, h)
    /\ tip' = Len(height) + 1
    /\ UNCHANGED <<iThreadUsed, pc, workVars, monitored, loopVars, cur, caller,
                   share, clientVars, arrCurrentBlocks, dbVars>>

(* xptServer_startProcessingEPoll: clients go to the threads in turn. *)
LateWrap == IF iThreadUsed > NThreads THEN 0 ELSE iThreadUsed
NextThread == IF iThreadUsed >= NThreads THEN 0 ELSE iThreadUsed

Accept(c) ==
    /\ ~Allocated(c)
    /\ clientState' = [clientState EXCEPT ![c] = "new"]
    /\ owner' = [owner EXCEPT ![c] = NextThread]
    /\ iThreadUsed' = NextThread + 1
    /\ UNCHANGED <<nodeVars, pc, workVars, monitored, loopVars, cur, caller, share,
                   disconnected, payloadNum, arrCurrentBlocks, dbVars>>

-----------------------------------------------------------------------------
(* A listening thread.                                                     *)

Goto(t, place) == pc' = [pc EXCEPT ![t] = place]

(* StartListeningThread creates the first template. *)
StartThread(t) ==
    /\ pc[t] = "start"
    /\ currentBlock' = [currentBlock EXCEPT ![t] = tip]
    /\ Goto(t, "events")
    /\ UNCHANGED <<nodeVars, iThreadUsed, coinTypeBlockHeight, monitored, loopVars,
                   cur, caller, share, clientVars, arrCurrentBlocks, dbVars>>

(* epoll reports input from c: the first event puts it on the list. *)
Event(t, c) ==
    /\ pc[t] = "events"
    /\ Allocated(c)
    /\ owner[c] = t
    /\ monitored' = [monitored EXCEPT ![t] = @ \cup {c}]

(* The client is freed: what is left is as before it was accepted. *)
Free(c) ==
    /\ clientState' = [clientState EXCEPT ![c] = "free"]
    /\ owner' = [owner EXCEPT ![c] = 0]
    /\ disconnected' = [disconnected EXCEPT ![c] = FALSE]
    /\ payloadNum' = [payloadNum EXCEPT ![c] = 0]
    /\ arrCurrentBlocks' = [arrCurrentBlocks EXCEPT ![c] = <<>>]

(* The connection is dropped from the list before that. *)
LeakyDelete(t, c) == Free(c) /\ monitored' = monitored
Delete(t, c) == Free(c) /\ monitored' = [monitored EXCEPT ![t] = @ \ {c}]

(* The miner hangs up, or sends a packet that is refused: a malformed one, *)
(* a second login, anything but a login before it, a share after it was    *)
(* marked disconnected, or a login the database does not answer.           *)
Drop(t, c) ==
    /\ pc[t] = "events"
    /\ Allocated(c)
    /\ owner[c] = t
    /\ Delete(t, c)
    /\ UNCHANGED <<nodeVars, iThreadUsed, pc, workVars, loopVars, cur, caller, share,
                   dbVars>>

(* A packet that is only answered, or ignored: a ping, an unknown opcode,  *)
(* a share that fails one of the checks of xptCallback_checkWork.          *)
Reply(t, c) ==
    /\ Event(t, c)
    /\ UNCHANGED <<nodeVars, iThreadUsed, pc, workVars, loopVars, cur, caller, share,
                   clientVars, arrCurrentBlocks, dbVars>>

(* xptServer_sendBlockData begins: generateWork clears the old workloads.  *)
SendBlockData(t, c, from) ==
    /\ cur' = [cur EXCEPT ![t] = c]
    /\ caller' = [caller EXCEPT ![t] = from]
    /\ arrCurrentBlocks' = [arrCurrentBlocks EXCEPT ![c] = <<>>]
    /\ Goto(t, "coinbase")

(* A login, after which the first work is sent at once. *)
AuthRequest(t, c, n) ==
    /\ Event(t, c)
    /\ clientState[c] = "new"
    /\ clientState' = [clientState EXCEPT ![c] = "in"]
    /\ payloadNum' = [payloadNum EXCEPT ![c] = n]
    /\ SendBlockData(t, c, "auth")
    /\ UNCHANGED <<nodeVars, iThreadUsed, workVars, loopVars, share, owner,
                   disconnected, dbVars>>

-----------------------------------------------------------------------------
(* xptCallback_generateWork, for the client cur[t].                        *)

AfterWork(t) == IF caller[t] = "auth" THEN "events" ELSE "notify"

(* One workload: a copy of the template whose coinbase gets the height     *)
(* after that of the best block of this moment.                            *)
CachedHeight(t) == coinTypeBlockHeight[t]
CoinbaseHeight(t) == NextHeight

GenerateCoinbase(t) ==
    LET c == cur[t]
        made == Len(arrCurrentBlocks[c]) + 1
    IN  /\ pc[t] = "coinbase"
        /\ arrCurrentBlocks' = [arrCurrentBlocks EXCEPT ![c] =
               Append(@, [prev |-> currentBlock[t], coinbase |-> CoinbaseHeight(t)])]
        /\ Goto(t, CASE made = 1 -> "height"
                     [] made > 1 /\ made < payloadNum[c] -> "coinbase"
                     [] OTHER -> "send")
        /\ UNCHANGED <<nodeVars, iThreadUsed, workVars, monitored, loopVars, cur, caller,
                       share, clientVars, dbVars>>

(* After the first workload the height being mined is read once more.      *)
KeptHeight(t) == coinTypeBlockHeight[t]
MinedHeight(t) == NextHeight

GenerateHeight(t) ==
    /\ pc[t] = "height"
    /\ coinTypeBlockHeight' = [coinTypeBlockHeight EXCEPT ![t] = MinedHeight(t)]
    /\ Goto(t, IF payloadNum[cur[t]] > 1 THEN "coinbase" ELSE "send")
    /\ UNCHANGED <<nodeVars, iThreadUsed, currentBlock, monitored, loopVars, cur, caller,
                   share, clientVars, arrCurrentBlocks, dbVars>>

(* The packet fits the send buffer and goes out. *)
SendWork(t) ==
    /\ pc[t] = "send"
    /\ Goto(t, AfterWork(t))
    /\ cur' = [cur EXCEPT ![t] = NoClient]
    /\ caller' = [caller EXCEPT ![t] = "auth"]
    /\ UNCHANGED <<nodeVars, iThreadUsed, workVars, monitored, loopVars, share,
                   clientVars, arrCurrentBlocks, dbVars>>

(* No key or nonce is left for a workload, or the packet does not fit: a   *)
(* client that is logging in is dropped, one that is being notified is     *)
(* only marked.  The workload that was being made stays on its list in the *)
(* code; it is left out, as nothing looks at the list of a marked client.  *)
AbandonLoop(t) == todo' = [todo EXCEPT ![t] = {}]
ContinueLoop(t) == todo' = todo

WorkFails(t) ==
    /\ pc[t] \in {"coinbase", "send"}
    /\ Goto(t, AfterWork(t))
    /\ cur' = [cur EXCEPT ![t] = NoClient]
    /\ caller' = [caller EXCEPT ![t] = "auth"]
    /\ \/ /\ caller[t] = "auth"
          /\ Delete(t, cur[t])
          /\ UNCHANGED todo
       \/ /\ caller[t] = "notify"
          /\ disconnected' = [disconnected EXCEPT ![cur[t]] = TRUE]
          /\ ContinueLoop(t)
          /\ UNCHANGED <<clientState, owner, payloadNum, arrCurrentBlocks, monitored>>
    /\ UNCHANGED <<nodeVars, iThreadUsed, workVars, newHeight, workerCount, share, dbVars>>

-----------------------------------------------------------------------------
(* xptServer_checkForNewBlocks, after the events of a round.               *)

(* The height is read, and is greater than the one being mined. *)
CheckForNewBlocks(t) ==
    /\ pc[t] = "events"
    /\ monitored[t] # {}
    /\ NextHeight > coinTypeBlockHeight[t]
    /\ newHeight' = [newHeight EXCEPT ![t] = NextHeight]
    /\ Goto(t, "template")
    /\ UNCHANGED <<nodeVars, iThreadUsed, workVars, monitored, todo, workerCount, cur,
                   caller, share, clientVars, arrCurrentBlocks, dbVars>>

(* CreateNewBlock makes a template on the best block; sendNewBlockToAll    *)
(* starts.                                                                 *)
NewTemplate(t) ==
    /\ pc[t] = "template"
    /\ currentBlock' = [currentBlock EXCEPT ![t] = tip]
    /\ coinTypeBlockHeight' = [coinTypeBlockHeight EXCEPT ![t] = newHeight[t]]
    /\ newHeight' = [newHeight EXCEPT ![t] = 0]
    /\ todo' = [todo EXCEPT ![t] = monitored[t]]
    /\ Goto(t, "notify")
    /\ UNCHANGED <<nodeVars, iThreadUsed, monitored, workerCount, cur, caller, share,
                   clientVars, arrCurrentBlocks, dbVars>>

(* The loop of sendNewBlockToAll visits c. *)
Notify(t, c) ==
    /\ pc[t] = "notify"
    /\ c \in todo[t]
    /\ todo' = [todo EXCEPT ![t] = @ \ {c}]
    /\ \/ /\ Receives(c)
          /\ workerCount' = [workerCount EXCEPT ![t] = @ + 1]
          /\ SendBlockData(t, c, "notify")
       \/ /\ ~Receives(c)
          /\ UNCHANGED <<pc, workerCount, cur, caller, arrCurrentBlocks>>
    /\ UNCHANGED <<nodeVars, iThreadUsed, workVars, monitored, newHeight, share,
                   clientVars, dbVars>>

(* It ends with the number of clients it sent work to in the database. *)
NotifyDone(t) ==
    /\ pc[t] = "notify"
    /\ todo[t] = {}
    /\ online' = workerCount[t]
    /\ workerCount' = [workerCount EXCEPT ![t] = 0]
    /\ Goto(t, "events")
    /\ UNCHANGED <<nodeVars, iThreadUsed, workVars, monitored, newHeight, todo, cur,
                   caller, share, clientVars, arrCurrentBlocks, shares, blocks>>

-----------------------------------------------------------------------------
(* xptCallback_checkWork, for a share that passes.                         *)

(* The share names one of the client's workloads, on the best block, and   *)
(* its chain is long enough for a share and maybe for a block.             *)
SubmitShare(t, c, i, s, foundBlock) ==
    /\ Event(t, c)
    /\ Receives(c)
    /\ Len(shares) < MaxShares
    /\ i \in 1..Len(arrCurrentBlocks[c])
    /\ arrCurrentBlocks[c][i].prev = tip
    /\ share' = [share EXCEPT ![t] = [work |-> arrCurrentBlocks[c][i], solution |-> s,
                                      foundBlock |-> foundBlock, hash |-> 0]]
    /\ cur' = [cur EXCEPT ![t] = c]
    /\ Goto(t, "saveshare")
    /\ UNCHANGED <<nodeVars, iThreadUsed, workVars, loopVars, caller, clientVars,
                   arrCurrentBlocks, dbVars>>

(* The thread is done with the share. *)
ShareDone(t) ==
    /\ Goto(t, "events")
    /\ cur' = [cur EXCEPT ![t] = NoClient]
    /\ share' = [share EXCEPT ![t] = NoShare]

(* SaveShare; that it failed is only logged. *)
SaveShare(t, saved) ==
    /\ pc[t] = "saveshare"
    /\ shares' = IF saved
                 THEN Append(shares, [client |-> cur[t],
                                      work |-> share[t].work,
                                      solution |-> share[t].solution,
                                      blockheight |-> coinTypeBlockHeight[t]])
                 ELSE shares
    /\ \/ /\ ~share[t].foundBlock
          /\ ShareDone(t)
       \/ /\ share[t].foundBlock
          /\ Goto(t, "submit")
          /\ UNCHANGED <<cur, share>>
    /\ UNCHANGED <<nodeVars, iThreadUsed, workVars, monitored, loopVars, caller,
                   clientVars, arrCurrentBlocks, blocks, online>>

(* The second look at the best block before the block is submitted. *)
CheckStale(t) ==
    /\ pc[t] = "submit"
    /\ \/ /\ share[t].work.prev # tip
          /\ ShareDone(t)
       \/ /\ share[t].work.prev = tip
          /\ Goto(t, "process")
          /\ UNCHANGED <<cur, share>>
    /\ UNCHANGED <<nodeVars, iThreadUsed, workVars, monitored, loopVars, caller,
                   clientVars, arrCurrentBlocks, dbVars>>

(* ProcessBlock takes the block, unless AcceptBlock or another check finds *)
(* fault with it.  It becomes the best block if it builds on the best one; *)
(* another block may have come first, and then either may have more work.  *)
CoinbaseMatches(t) == share[t].work.coinbase = height[share[t].work.prev] + 1

ProcessBlock(t) ==
    /\ pc[t] = "process"
    /\ \/ /\ CoinbaseMatches(t)
          /\ Len(height) < MaxBlocks
          /\ height' = Append(height, height[share[t].work.prev] + 1)
          /\ tip' \in IF share[t].work.prev = tip
                      THEN {Len(height) + 1} ELSE {tip, Len(height) + 1}
          /\ share' = [share EXCEPT ![t].hash = Len(height) + 1]
          /\ Goto(t, "saveblock")
          /\ UNCHANGED cur
       \/ /\ ShareDone(t)
          /\ UNCHANGED nodeVars
    /\ UNCHANGED <<iThreadUsed, workVars, monitored, loopVars, caller, clientVars,
                   arrCurrentBlocks, dbVars>>

(* SaveBlock records the hash and the height being mined. *)
TipHeight(t) == height[tip]
RecordedHeight(t) == coinTypeBlockHeight[t]

SaveBlock(t, saved) ==
    /\ pc[t] = "saveblock"
    /\ blocks' = IF saved
                 THEN blocks \cup {[hash |-> share[t].hash, height |-> RecordedHeight(t)]}
                 ELSE blocks
    /\ ShareDone(t)
    /\ UNCHANGED <<nodeVars, iThreadUsed, workVars, monitored, loopVars, caller,
                   clientVars, arrCurrentBlocks, shares, online>>

-----------------------------------------------------------------------------
(* What a thread does by itself, and what miners and the network make      *)
(* happen.                                                                 *)
Internal(t) ==
    \/ StartThread(t)
    \/ GenerateCoinbase(t) \/ GenerateHeight(t) \/ SendWork(t) \/ WorkFails(t)
    \/ CheckForNewBlocks(t) \/ NewTemplate(t) \/ NotifyDone(t)
    \/ \E c \in Clients : Notify(t, c)
    \/ \E saved \in BOOLEAN : SaveShare(t, saved) \/ SaveBlock(t, saved)
    \/ CheckStale(t) \/ ProcessBlock(t)

Packet(t, c) ==
    \/ Drop(t, c) \/ Reply(t, c)
    \/ \E n \in 1..MaxPayload : AuthRequest(t, c, n)
    \/ \E i \in 1..MaxPayload, s \in Solutions, foundBlock \in BOOLEAN :
          SubmitShare(t, c, i, s, foundBlock)

Environment ==
    \/ \E h \in 1..MaxHeight : NewTip(h)
    \/ \E c \in Clients : Accept(c)
    \/ \E t \in Threads, c \in Clients : Packet(t, c)

Next == Environment \/ \E t \in Threads : Internal(t)

(* A thread that has something to do does it, and the events of a round    *)
(* come to an end: no miner keeps its socket readable for ever.            *)
Fairness ==
    \A t \in Threads : WF_vars(Internal(t)) /\ SF_vars(CheckForNewBlocks(t))

Spec == Init /\ [][Next]_vars /\ Fairness

-----------------------------------------------------------------------------
(* TypeOK: the state of the node, the threads, the connections and the     *)
(* database has its types.                                                 *)
ShareInHand == [work : Workload, solution : Solutions \cup {"none"},
                foundBlock : BOOLEAN, hash : Nat]
ShareRow == [client : Clients, work : Workload, solution : Solutions, blockheight : Nat]

TypeOK ==
    /\ height \in Seq(Nat)
    /\ tip \in 1..Len(height)
    /\ iThreadUsed \in 0..NThreads
    /\ pc \in [Threads -> Places]
    /\ currentBlock \in [Threads -> 0..Len(height)]
    /\ coinTypeBlockHeight \in [Threads -> Nat]
    /\ newHeight \in [Threads -> Nat]
    /\ monitored \in [Threads -> SUBSET Clients]
    /\ todo \in [Threads -> SUBSET Clients]
    /\ workerCount \in [Threads -> Nat]
    /\ cur \in [Threads -> Clients \cup {NoClient}]
    /\ caller \in [Threads -> {"auth", "notify"}]
    /\ share \in [Threads -> ShareInHand]
    /\ clientState \in [Clients -> {"free", "new", "in"}]
    /\ owner \in [Clients -> Threads]
    /\ disconnected \in [Clients -> BOOLEAN]
    /\ payloadNum \in [Clients -> 0..MaxPayload]
    /\ arrCurrentBlocks \in [Clients -> Seq(Workload)]
    /\ shares \in Seq(ShareRow)
    /\ blocks \subseteq [hash : Nat, height : Nat]
    /\ online \in Nat

(* NoFreedClient: a thread never touches a client that has been deleted:   *)
(* the clients it monitors, the ones the notification loop has yet to      *)
(* visit and the one it is handling are allocated and its own.             *)
NoFreedClient ==
    \A t \in Threads :
        \A c \in monitored[t] \cup todo[t] \cup ({cur[t]} \ {NoClient}) :
            Allocated(c) /\ owner[c] = t

(* CurrentWorkIsSound: a workload on the best block has the next height in *)
(* its coinbase, though the template and the height come from separate     *)
(* reads of the best block: a block found with it is not refused for a     *)
(* height mismatch.                                                        *)
CurrentWorkIsSound ==
    \A c \in Clients : \A i \in 1..Len(arrCurrentBlocks[c]) :
        arrCurrentBlocks[c][i].prev = tip => arrCurrentBlocks[c][i].coinbase = NextHeight

(* SharesHaveTheirHeight: a share is recorded under the height of the      *)
(* block its workload would make, though SaveShare takes the height from   *)
(* the thread's coinTypeBlockHeight, which every login and every           *)
(* notification of another client changes.                                 *)
SharesHaveTheirHeight ==
    \A i \in 1..Len(shares) : shares[i].blockheight = height[shares[i].work.prev] + 1

(* BlocksHaveTheirHeight: a block is recorded under its own height, also   *)
(* when the best block changed before or after it was submitted.           *)
BlocksHaveTheirHeight ==
    \A b \in blocks : b.hash \in 1..Len(height) /\ b.height = height[b.hash]

(* NotifiedAll: once a notification loop has started, every miner it has   *)
(* to visit gets work on the thread's template or is marked disconnected,  *)
(* also when sending to another one fails.                                 *)
HasWork(c, b) ==
    arrCurrentBlocks[c] # <<>> /\ arrCurrentBlocks[c][1].prev = b

NotifiedAll ==
    \A t \in Threads, c \in Clients :
        (pc[t] = "notify" /\ c \in todo[t] /\ Receives(c))
            ~> (HasWork(c, currentBlock[t]) \/ ~Receives(c))

(* NewBlocksPropagated: a miner that stays logged in has work on the best  *)
(* block again and again: "checks for new blocks that should be            *)
(* propagated".                                                            *)
NewBlocksPropagated ==
    \A c \in Clients : []<>(HasWork(c, tip) \/ ~Receives(c))

(* NoDoubleCredit: no worker is credited twice for the same solution of    *)
(* the same workload ("check if the client tries to double submit a        *)
(* share").                                                                *)
NoDoubleCredit ==
    \A i, j \in 1..Len(shares) :
        /\ shares[i].client = shares[j].client
        /\ shares[i].work = shares[j].work
        /\ shares[i].solution = shares[j].solution
        => i = j
=============================================================================
