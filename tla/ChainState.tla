----------------------------- MODULE ChainState -----------------------------
(***************************************************************************)
(* The node's chain state: the block index, orphan blocks, the choice and  *)
(* connection of the best chain, the coins of the best chain in memory and *)
(* on disk, synchronised checkpoints, and the start after a crash.         *)
(*                                                                         *)
(* A handler runs under cs_main, except in the pool's listening threads,   *)
(* which submit the blocks they find without it.  A handler is cut where   *)
(* it reads shared state again, and where a crash leaves different files.  *)
(*                                                                         *)
(* Blocks that fail the checks that need no coins are never stored, so     *)
(* they are not among Blocks.  The coins are abstracted to the blocks      *)
(* whose outputs they hold.                                                *)
(***************************************************************************)
EXTENDS Integers, FiniteSets

CONSTANTS
    NBlocks,        \* number of blocks beside the genesis block
    Trees,          \* what the blocks may build on
    Works,          \* the work the blocks may have
    MaxBad,         \* bound on the number of blocks ConnectBlock refuses
    Net,            \* threads that process blocks under cs_main
    Pool,           \* listening threads of the pool, which do not take it
    NoThread,       \* nobody holds cs_main
    Modes,          \* the values IsSyncCheckpointEnforced() may have
    Checkpoints,    \* blocks the checkpoint master may send
    MaxRestarts     \* bound on the number of restarts

Genesis == 0
None == -1
Blocks == 1..NBlocks
All == Blocks \cup {Genesis}
Threads == Net \cup Pool

ASSUME BoundsAssumption == NBlocks \in Nat /\ MaxBad \in Nat /\ MaxRestarts \in Nat
ASSUME TreesAssumption == \A f \in Trees : f \in [Blocks -> All] /\ \A b \in Blocks : f[b] < b
ASSUME WorksAssumption == Works \subseteq [Blocks -> Nat \ {0}]
ASSUME ThreadsAssumption == NoThread \notin Threads /\ Net # {}
ASSUME ModesAssumption == Modes \subseteq BOOLEAN
ASSUME CheckpointsAssumption == Checkpoints \subseteq Blocks

VARIABLES
    (* the blocks of the network and the mode, which never change *)
    pprev,          \* the block each one builds on
    ancestors,      \* the blocks reached from it along pprev, and itself
    work,           \* GetBlockWork()
    bad,            \* blocks that ConnectBlock refuses
    enforced,       \* -checkpointenforce, which stays as it is
    (* the block index, written to disk with every change *)
    mapBlockIndex,  \* known blocks
    nChainWork,     \* work of the chain that ends in the block
    failed,         \* blocks with BLOCK_FAILED_VALID or BLOCK_FAILED_CHILD
    setBlockIndexValid,
    orphans,        \* mapOrphanBlocks
    (* the best chain *)
    pindexBest,     \* and hashBestChain
    pnext,
    coins,          \* pcoinsTip: blocks whose outputs it holds
    coinsBest,      \* its best block
    diskCoins,      \* the same on disk
    diskBest,
    (* synchronised checkpoints *)
    hashSyncCheckpoint,
    hashPendingCheckpoint,
    (* threads *)
    csMain,         \* the thread that holds cs_main
    pc,             \* where each thread is, see Places
    job,            \* what called SetBestChain, and whether it still succeeds
    blk,            \* the block or checkpoint being processed
    queue,          \* vWorkQueue: accepted blocks whose orphans come next
    attach,         \* vAttach: blocks still to make the best one
    view,           \* what the cache of SetBestChain changes
    restarts

world == <<pprev, ancestors, work, bad, enforced>>
indexVars == <<mapBlockIndex, nChainWork, failed, setBlockIndexValid>>
tipVars == <<pindexBest, pnext>>
coinVars == <<coins, coinsBest, diskCoins, diskBest>>
checkVars == <<hashSyncCheckpoint, hashPendingCheckpoint>>
threadVars == <<csMain, pc, job, blk, queue, attach, view>>
vars == <<world, indexVars, orphans, tipVars, coinVars, checkVars, threadVars, restarts>>

Places == {"idle", "connect", "set", "flush", "tip", "pending", "orphans", "down"}
Kinds == {"block", "checkpoint", "pending", "init"}

Closed(S) == \A x \in S \cap Blocks : pprev[x] \in S

Init ==
    /\ pprev \in Trees
    /\ ancestors = [b \in All |->
          {a \in All : \A S \in SUBSET All : b \in S /\ Closed(S) => a \in S}]
    /\ work \in Works
    /\ bad \in {S \in SUBSET Blocks : Cardinality(S) <= MaxBad}
    /\ enforced \in Modes
    /\ mapBlockIndex = {Genesis}
    /\ nChainWork = [b \in All |-> 0]
    /\ failed = {}
    /\ setBlockIndexValid = {Genesis}
    /\ orphans = {}
    /\ pindexBest = Genesis
    /\ pnext = [b \in All |-> None]
    /\ coins = {} /\ coinsBest = Genesis
    /\ diskCoins = {} /\ diskBest = Genesis
    /\ hashSyncCheckpoint = Genesis
    /\ hashPendingCheckpoint = None
    /\ csMain = NoThread
    /\ pc = [t \in Threads |-> "idle"]
    /\ job = [t \in Threads |-> [kind |-> "block", ok |-> TRUE]]
    /\ blk = [t \in Threads |-> Genesis]
    /\ queue = [t \in Threads |-> {}]
    /\ attach = [t \in Threads |-> {}]
    /\ view = [t \in Threads |-> [new |-> Genesis, disconnect |-> {}, connect |-> {}]]
    /\ restarts = 0

-----------------------------------------------------------------------------
Height(b) == Cardinality(ancestors[b]) - 1
IsInMainChain(b) == pnext[b] # None \/ b = pindexBest

Starting == \E u \in Threads : job[u].kind = "init" /\ pc[u] # "idle"
Ready(t) == pc[t] = "idle" /\ IF t \in Pool THEN ~Starting ELSE csMain = NoThread
Take(t) == csMain' = IF t \in Pool THEN csMain ELSE t
Goto(t, place) == pc' = [pc EXCEPT ![t] = place]

(* The handler returns, and leaves cs_main. *)
Return(t) ==
    /\ Goto(t, "idle")
    /\ queue' = [queue EXCEPT ![t] = {}]
    /\ csMain' = IF csMain = t THEN NoThread ELSE csMain

-----------------------------------------------------------------------------
(* ProcessBlock and AcceptBlock.                                           *)

Unlocked == TRUE

(* cs_hashSyncCheckpoint is held while the chain is set for a checkpoint. *)
CheckpointFree ==
    \A t \in Threads : ~(pc[t] \in {"connect", "set", "flush", "tip"}
                         /\ job[t].kind \in {"checkpoint", "pending"})

(* CheckSyncCheckpoint, for a block that is not yet in the index. *)
CheckSyncCheckpoint(b) ==
    /\ Height(b) > Height(hashSyncCheckpoint)
    /\ hashSyncCheckpoint \in ancestors[b]

Acceptable(b) ==
    /\ b \notin mapBlockIndex
    /\ enforced => CheckSyncCheckpoint(b)

(* AcceptBlock up to ConnectBestBlock: the block enters the index. *)
AddToBlockIndex(t, b) ==
    /\ mapBlockIndex' = mapBlockIndex \cup {b}
    /\ nChainWork' = [nChainWork EXCEPT ![b] = nChainWork[pprev[b]] + work[b]]
    /\ setBlockIndexValid' = setBlockIndexValid \cup {b}
    /\ job' = [job EXCEPT ![t] = [kind |-> "block", ok |-> TRUE]]
    /\ blk' = [blk EXCEPT ![t] = b]
    /\ Goto(t, "connect")
    /\ UNCHANGED failed

(* A block arrives.  The pool submits only blocks on the best block. *)
ProcessBlock(t, b) ==
    /\ Ready(t)
    /\ b \notin mapBlockIndex \cup orphans
    /\ pprev[b] \in mapBlockIndex
    /\ t \in Pool => pprev[b] = pindexBest
    /\ enforced => CheckpointFree
    /\ Acceptable(b)
    /\ Take(t)
    /\ AddToBlockIndex(t, b)
    /\ UNCHANGED <<world, orphans, tipVars, coinVars, checkVars, queue, attach, view, restarts>>

(* Its parent is not known yet: it is kept until it is. *)
ShuntOrphan(t, b) ==
    /\ Ready(t) /\ t \in Net
    /\ b \notin mapBlockIndex \cup orphans
    /\ pprev[b] \notin mapBlockIndex
    /\ orphans' = orphans \cup {b}
    /\ UNCHANGED <<world, indexVars, tipVars, coinVars, checkVars, threadVars, restarts>>

AcceptedAlone(t) ==
    /\ queue' = [queue EXCEPT ![t] = IF @ = {} THEN {blk[t]} ELSE @]
    /\ Goto(t, "orphans")
    /\ UNCHANGED csMain

(* The block is accepted: blocks that waited for it are next. *)
Accepted(t) ==
    /\ queue' = [queue EXCEPT ![t] = @ \cup {blk[t]}]
    /\ Goto(t, "orphans")
    /\ UNCHANGED csMain

AcceptOrphan(t, o) ==
    /\ pc[t] = "orphans"
    /\ o \in orphans /\ pprev[o] \in queue[t]
    /\ enforced => CheckpointFree
    /\ orphans' = orphans \ {o}
    /\ IF Acceptable(o)
       THEN AddToBlockIndex(t, o)
       ELSE UNCHANGED <<indexVars, pc, job, blk>>
    /\ UNCHANGED <<world, tipVars, coinVars, checkVars, csMain, queue, attach, view, restarts>>

NoMoreOrphans(t) ==
    /\ pc[t] = "orphans"
    /\ \A o \in orphans : pprev[o] \notin queue[t]
    /\ Return(t)
    /\ UNCHANGED <<world, indexVars, orphans, tipVars, coinVars, checkVars, job, blk,
                   attach, view, restarts>>

-----------------------------------------------------------------------------
(* ConnectBestBlock.                                                       *)

Longest(b) == /\ b \in setBlockIndexValid
              /\ \A c \in setBlockIndexValid : Height(c) <= Height(b)
Heaviest(b) == /\ b \in setBlockIndexValid
               /\ \A c \in setBlockIndexValid : nChainWork[c] <= nChainWork[b]

(* The blocks visited from top back to the best chain. *)
Visited(top) ==
    {x \in ancestors[top] :
        \A y \in ancestors[top] : x \in ancestors[y] /\ x # y => pnext[y] = None}

(* What the caller does when the chain has been set or could not be set.   *)
Continue(t, ok) ==
    LET kind == job[t].kind
        stay(place) == Goto(t, place) /\ UNCHANGED <<csMain, queue>>
    IN  \/ kind = "init" /\ ~ok /\ stay("down")
        \/ kind = "init" /\ ok /\ Return(t)
        \/ kind = "checkpoint" /\ Return(t)
        \/ kind = "pending" /\ Accepted(t)
        \/ kind = "block" /\ ok /\ stay("pending")
        \/ kind = "block" /\ ~ok /\ queue[t] # {} /\ stay("orphans")
        \/ kind = "block" /\ ~ok /\ queue[t] = {} /\ Return(t)

NothingToDo(t) ==
    /\ pc[t] = "connect"
    /\ \E top \in All : Heaviest(top) /\ nChainWork[top] = nChainWork[pindexBest]
    /\ Continue(t, job[t].ok)
    /\ UNCHANGED <<world, indexVars, orphans, tipVars, coinVars, checkVars, job, blk,
                   attach, view, restarts>>

(* An ancestor has failed, so its descendants have. *)
WholeBranch(top, f) == Visited(top) \ {Genesis}
NoBlock(top, f) == {}
Descendants(top, f) == {x \in Visited(top) : f \in ancestors[x] /\ x # f}

MarkDescendants(t, top) ==
    /\ pc[t] = "connect"
    /\ Heaviest(top) /\ nChainWork[top] # nChainWork[pindexBest]
    /\ \E f \in Visited(top) \cap failed :
          /\ \A g \in Visited(top) \cap failed : g \in ancestors[f]
          /\ failed' = failed \cup Descendants(top, f)
          /\ setBlockIndexValid' = setBlockIndexValid \ Descendants(top, f)
    /\ UNCHANGED <<world, mapBlockIndex, nChainWork, orphans, tipVars, coinVars,
                   checkVars, threadVars, restarts>>

ChooseChain(t, top) ==
    /\ pc[t] = "connect"
    /\ Heaviest(top) /\ nChainWork[top] # nChainWork[pindexBest]
    /\ Visited(top) \cap failed = {}
    /\ LET heavier == {x \in Visited(top) : nChainWork[x] > nChainWork[pindexBest]}
       IN  /\ attach' = [attach EXCEPT ![t] = heavier]
           /\ IF heavier = {} THEN Continue(t, job[t].ok)
              ELSE Goto(t, "set") /\ UNCHANGED <<csMain, queue>>
    /\ UNCHANGED <<world, indexVars, orphans, tipVars, coinVars, checkVars, job, blk, view,
                   restarts>>

-----------------------------------------------------------------------------
(* SetBestChain, for the lowest block of attach.                           *)

Switch(t, new) == new \in attach[t] /\ \A x \in attach[t] : new \in ancestors[x]
NothingUndone(new) == {}
FromGenesis(new) == ancestors[new]
VDisconnect(new) == ancestors[coinsBest] \ ancestors[new]
VConnect(new) == ancestors[new] \ ancestors[coinsBest]

(* ConnectBlock refuses a block, among others if its outputs are there. *)
Refused(x, new) == x \in bad \/ x \in coins \ VDisconnect(new)

(* DisconnectBlock and ConnectBlock, in a cache over the coins. *)
Connected(t, new) ==
    /\ pc[t] = "set"
    /\ Switch(t, new)
    /\ VDisconnect(new) \subseteq coins
    /\ \A x \in VConnect(new) : ~Refused(x, new)
    /\ view' = [view EXCEPT ![t] = [new |-> new, disconnect |-> VDisconnect(new),
                                    connect |-> VConnect(new)]]
    /\ Goto(t, "flush")
    /\ UNCHANGED <<world, indexVars, orphans, tipVars, coinVars, checkVars, csMain, job,
                   blk, queue, attach, restarts>>

(* Outputs of a block to disconnect are missing: the chain is left as it is. *)
DisconnectFails(t, new) ==
    /\ pc[t] = "set"
    /\ Switch(t, new)
    /\ ~(VDisconnect(new) \subseteq coins)
    /\ attach' = [attach EXCEPT ![t] = {}]
    /\ Continue(t, FALSE)
    /\ UNCHANGED <<world, indexVars, orphans, tipVars, coinVars, checkVars, job, blk, view,
                   restarts>>

(* InvalidBlockFound, for the lowest refused block x.  If it is in the     *)
(* best chain, the best chain is chosen again before the failure.          *)
InvalidBlockFound(t, new, x) ==
    /\ pc[t] = "set"
    /\ Switch(t, new)
    /\ VDisconnect(new) \subseteq coins
    /\ x \in VConnect(new) /\ Refused(x, new)
    /\ \A y \in VConnect(new) : Refused(y, new) => x \in ancestors[y]
    /\ failed' = failed \cup {x}
    /\ setBlockIndexValid' = setBlockIndexValid \ {x}
    /\ attach' = [attach EXCEPT ![t] = {}]
    /\ IF pnext[x] # None
       THEN /\ Goto(t, "connect")
            /\ job' = [job EXCEPT ![t].ok = FALSE]
            /\ UNCHANGED <<csMain, queue>>
       ELSE Continue(t, FALSE) /\ UNCHANGED job
    /\ UNCHANGED <<world, mapBlockIndex, nChainWork, orphans, tipVars, coinVars, checkVars,
                   blk, view, restarts>>

(* The cache is written to the coins, and these to disk, unless this is    *)
(* the initial download.                                                   *)
Flush(t) ==
    LET new == (coins \ view[t].disconnect) \cup view[t].connect
    IN  /\ pc[t] = "flush"
        /\ coins' = new
        /\ coinsBest' = view[t].new
        /\ \/ diskCoins' = new /\ diskBest' = view[t].new
           \/ UNCHANGED <<diskCoins, diskBest>>
        /\ Goto(t, "tip")
        /\ UNCHANGED <<world, indexVars, orphans, tipVars, checkVars, csMain, job, blk,
                       queue, attach, view, restarts>>

(* Writing the checkpoint, once its chain is the best one. *)
WriteSyncCheckpoint(c) ==
    /\ hashSyncCheckpoint' = c
    /\ hashPendingCheckpoint' = None

OldLinksKept(t) ==
    [x \in All |-> IF \E c \in view[t].connect : pprev[c] = x
                   THEN CHOOSE c \in view[t].connect : pprev[c] = x ELSE pnext[x]]
Linked(t) ==
    LET cut == {pprev[d] : d \in view[t].disconnect}
        next(x) == {c \in view[t].connect : pprev[c] = x}
    IN  [x \in All |-> IF next(x) # {} THEN CHOOSE c \in next(x) : TRUE
                       ELSE IF x \in cut THEN None ELSE pnext[x]]

(* The memory structures follow; then the next block of attach, if any. *)
NewBestBlock(t) ==
    LET new == view[t].new
        left == attach[t] \ {new}
    IN  /\ pc[t] = "tip"
        /\ pnext' = Linked(t)
        /\ pindexBest' = new
        /\ attach' = [attach EXCEPT ![t] = left]
        /\ IF left # {} THEN Goto(t, "set") /\ UNCHANGED <<csMain, queue>>
           ELSE Continue(t, job[t].ok)
        /\ IF job[t].kind \in {"checkpoint", "pending"} /\ job[t].ok
           THEN WriteSyncCheckpoint(new) ELSE UNCHANGED checkVars
        /\ UNCHANGED <<world, indexVars, orphans, coinVars, job, blk, view, restarts>>

-----------------------------------------------------------------------------
(* Synchronised checkpoints.                                               *)

ValidateSyncCheckpoint(c) ==
    /\ Height(c) > Height(hashSyncCheckpoint)
    /\ hashSyncCheckpoint \in ancestors[c]

SwitchTo(t, c, kind) ==
    /\ ~IsInMainChain(c) /\ enforced
    /\ attach' = [attach EXCEPT ![t] = {c}]
    /\ job' = [job EXCEPT ![t] = [kind |-> kind, ok |-> TRUE]]
    /\ Goto(t, "set")
    /\ UNCHANGED checkVars

(* ProcessSyncCheckpoint: a message signed by the checkpoint master. *)
ProcessSyncCheckpoint(t, c) ==
    /\ Ready(t) /\ t \in Net /\ CheckpointFree
    /\ \/ /\ c \notin mapBlockIndex
          /\ hashPendingCheckpoint' = c
          /\ UNCHANGED <<hashSyncCheckpoint, threadVars>>
       \/ /\ c \in mapBlockIndex /\ ValidateSyncCheckpoint(c)
          /\ \/ /\ IsInMainChain(c) \/ ~enforced
                /\ WriteSyncCheckpoint(c)
                /\ UNCHANGED threadVars
             \/ /\ SwitchTo(t, c, "checkpoint")
                /\ Take(t)
                /\ UNCHANGED <<blk, queue, view>>
    /\ UNCHANGED <<world, indexVars, orphans, tipVars, coinVars, restarts>>

(* AcceptPendingSyncCheckpoint, at the end of AcceptBlock. *)
AcceptPendingSyncCheckpoint(t) ==
    LET c == hashPendingCheckpoint
        known == c \in mapBlockIndex
        valid == known /\ ValidateSyncCheckpoint(c)
    IN  /\ pc[t] = "pending" /\ CheckpointFree
        /\ \/ /\ ~known
              /\ UNCHANGED <<checkVars, job, attach>>
              /\ Accepted(t)
           \/ /\ known /\ ~valid
              /\ hashPendingCheckpoint' = None
              /\ UNCHANGED <<hashSyncCheckpoint, job, attach>>
              /\ Accepted(t)
           \/ /\ valid /\ (IsInMainChain(c) \/ ~enforced)
              /\ WriteSyncCheckpoint(c)
              /\ UNCHANGED <<job, attach>>
              /\ Accepted(t)
           \/ /\ valid
              /\ SwitchTo(t, c, "pending")
              /\ UNCHANGED <<csMain, queue>>
        /\ UNCHANGED <<world, indexVars, orphans, tipVars, coinVars, blk, view, restarts>>

-----------------------------------------------------------------------------
(* The process stops, in order (clean) or not, and starts again: the index *)
(* and the coins are what the disk has, and the best chain is sought among *)
(* the stored blocks.                                                      *)
Restart(t, clean) ==
    LET best == IF clean THEN coinsBest ELSE diskBest
        held == IF clean THEN coins ELSE diskCoins
    IN  /\ restarts < MaxRestarts
        /\ clean => \A u \in Threads : pc[u] = "idle"
        /\ restarts' = restarts + 1
        /\ setBlockIndexValid' = mapBlockIndex \ failed
        /\ orphans' = {}
        /\ pindexBest' = best
        /\ pnext' = [x \in All |->
              LET next == {c \in ancestors[best] \ {Genesis} : pprev[c] = x}
              IN  IF next # {} THEN CHOOSE c \in next : TRUE ELSE None]
        /\ coins' = held /\ coinsBest' = best
        /\ diskCoins' = held /\ diskBest' = best
        /\ hashPendingCheckpoint' = None
        /\ csMain' = t
        /\ pc' = [u \in Threads |-> IF u = t THEN "connect" ELSE "idle"]
        /\ job' = [job EXCEPT ![t] = [kind |-> "init", ok |-> TRUE]]
        /\ queue' = [u \in Threads |-> {}]
        /\ attach' = [u \in Threads |-> {}]
        /\ UNCHANGED <<world, mapBlockIndex, nChainWork, failed, hashSyncCheckpoint, blk,
                       view>>

(* The steps of a handler that has started. *)
Step(t) ==
    \/ \E o \in Blocks : AcceptOrphan(t, o)
    \/ NoMoreOrphans(t) \/ NothingToDo(t)
    \/ \E top \in All : MarkDescendants(t, top) \/ ChooseChain(t, top)
    \/ \E new \in All : Connected(t, new) \/ DisconnectFails(t, new)
    \/ \E new, x \in All : InvalidBlockFound(t, new, x)
    \/ Flush(t) \/ NewBestBlock(t) \/ AcceptPendingSyncCheckpoint(t)

Next ==
    \/ \E t \in Threads : Step(t) \/ \E b \in Blocks : ProcessBlock(t, b) \/ ShuntOrphan(t, b)
    \/ \E t \in Net : \/ \E c \in Checkpoints : ProcessSyncCheckpoint(t, c)
                      \/ \E clean \in BOOLEAN : Restart(t, clean)

Spec == Init /\ [][Next]_vars

(* A thread that has started a handler goes on with it; one that waits for *)
(* cs_hashSyncCheckpoint gets it if it is free again and again.            *)
FairSpec == Spec /\ \A t \in Threads : SF_vars(Step(t))
-----------------------------------------------------------------------------
Sound(b) == ancestors[b] \cap bad = {}
Idle == \A t \in Threads : pc[t] = "idle"

(* TypeOK: the state has its types.                                        *)
TypeOK ==
    /\ mapBlockIndex \subseteq All /\ failed \subseteq Blocks
    /\ setBlockIndexValid \subseteq All /\ orphans \subseteq Blocks
    /\ nChainWork \in [All -> Nat]
    /\ pindexBest \in All /\ pnext \in [All -> Blocks \cup {None}]
    /\ coins \subseteq Blocks /\ coinsBest \in All
    /\ diskCoins \subseteq Blocks /\ diskBest \in All
    /\ hashSyncCheckpoint \in All /\ hashPendingCheckpoint \in Blocks \cup {None}
    /\ csMain \in Threads \cup {NoThread}
    /\ pc \in [Threads -> Places]
    /\ job \in [Threads -> [kind : Kinds, ok : BOOLEAN]]
    /\ blk \in [Threads -> All]
    /\ queue \in [Threads -> SUBSET All] /\ attach \in [Threads -> SUBSET Blocks]
    /\ view \in [Threads -> [new : All, disconnect : SUBSET Blocks, connect : SUBSET Blocks]]
    /\ restarts \in 0..MaxRestarts

(* CoinsOfOneChain: the coins, in memory and on disk, are those of exactly *)
(* the chain that ends in their best block, whatever was disconnected,     *)
(* refused half way or cut off by a crash, and no refused block is in it.  *)
CoinsOfOneChain ==
    /\ coins = ancestors[coinsBest] \ {Genesis} /\ coins \cap bad = {}
    /\ diskCoins = ancestors[diskBest] \ {Genesis}

(* SoundBlocksNeverFail: a block is marked invalid only if it, or a block  *)
(* it builds on, is: a sound block that is once marked is never used again *)
(* and leaves the node on a fork.                                          *)
SoundBlocksNeverFail == \A b \in failed : ~Sound(b)

(* No checkpoint has made the node leave the heaviest chain. *)
NeverForced == enforced => hashSyncCheckpoint = Genesis

(* BestIsHeaviest: between two handlers no known sound chain has more work *)
(* than the best one, also when a heavier chain was refused on the way and *)
(* after a crash in the middle of a reorganisation; in enforce mode, as    *)
(* long as no checkpoint has come.                                         *)
BestIsHeaviest ==
    Idle /\ NeverForced =>
        \A b \in mapBlockIndex : Sound(b) => nChainWork[b] <= nChainWork[pindexBest]

(* NoSoundOrphanIsStranded: between two handlers every orphan whose parent *)
(* is known builds on a refused block.  Any other would never be accepted: *)
(* it is refused as a duplicate when it comes again.  Once a checkpoint    *)
(* has forced a lighter chain, a new block fails with any other heavier    *)
(* chain that is refused, and its orphans are stranded.                    *)
NoSoundOrphanIsStranded ==
    Idle /\ NeverForced => \A o \in orphans : pprev[o] \in mapBlockIndex => ~Sound(o)

(* BestChainLinked: IsInMainChain, which is read without a lock by the     *)
(* payment thread, is right between two handlers: the blocks with a pnext  *)
(* are those of the best chain.                                            *)
BestChainLinked ==
    Idle => \A b \in All : IsInMainChain(b) <=> b \in ancestors[pindexBest]

(* CheckpointsAdvance: a checkpoint is only ever replaced by one of its    *)
(* descendants, "also verifies the consistency of the checkpoints", though *)
(* pending ones wait for their block and the chain is set in between.      *)
CheckpointsAdvance == [][(hashSyncCheckpoint \in ancestors[hashSyncCheckpoint'])]_vars

(* HandlersEnd: every handler ends, although choosing the best chain loops *)
(* over refused chains and orphans release further orphans.                *)
HandlersEnd == \A t \in Threads : pc[t] # "idle" ~> pc[t] \in {"idle", "down"}
=============================================================================
