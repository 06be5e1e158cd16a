---------------------------- MODULE Confirmations ----------------------------
(***************************************************************************)
(* The thread that keeps the table of the pool's blocks up to date: it     *)
(* walks over the rows every few minutes and writes down how deep each     *)
(* block is in the best chain, or that it is not in it.  It takes no lock, *)
(* so the chain may change between any two of its reads and writes: each   *)
(* read of pnext or pindexBest is a step of its own, and so is each link   *)
(* that a reorganisation cuts or ties.                                     *)
(*                                                                         *)
(* The chain is seen as a best block in a tree of blocks; how it is chosen *)
(* is the subject of ChainState.  Blocks are processed one at a time.      *)
(***************************************************************************)
EXTENDS Integers, FiniteSets

CONSTANTS
    NBlocks,        \* number of blocks beside the genesis block
    Trees,          \* what the blocks may build on
    Mine,           \* blocks the pool's miners may find
    Final,          \* confirmations after which a row is left alone (3500)
    MaxFailures,    \* bound on the number of failing queries
    MaxRestarts     \* bound on the number of restarts

Genesis == 0
Blocks == 1..NBlocks
All == Blocks \cup {Genesis}

ASSUME BoundsAssumption == /\ NBlocks \in Nat /\ Final \in Nat \ {0}
                           /\ MaxFailures \in Nat /\ MaxRestarts \in Nat
ASSUME TreesAssumption == \A f \in Trees : f \in [Blocks -> All] /\ \A b \in Blocks : f[b] < b
ASSUME MineAssumption == Mine \subseteq Blocks

VARIABLES
    pprev,          \* the block each one builds on
    ancestors,      \* the blocks reached from it along pprev, and itself
    mapBlockIndex,  \* known blocks
    pindexBest,     \* the best block
    linked,         \* blocks whose pnext is set
    pindexNewBest,  \* the block ConnectBestBlock moves the chain to
    pindexSwitch,   \* the one SetBestChain is working on
    moving,         \* "no", or whether SetBestChain is to "cut" or to "tie" links
    settled,        \* blocks that were once Final deep (history)
    found,          \* blocks the pool has submitted
    accepting,      \* the one that is being processed
    unsaved,        \* accepted blocks of the pool without a row yet
    rows,           \* blocks with a row of the table `blocks`
    confirmations,  \* and its columns
    orphan,
    pc,             \* where the confirmation thread is
    todo,           \* rows of this round still to come
    row,            \* the row it is at
    iConfirmations,
    torn,           \* rows whose depth was last read across a reorganisation
                    \* that moves their block (history)
    failures,
    restarts

world == <<pprev, ancestors>>
moveVars == <<linked, pindexNewBest, pindexSwitch, moving>>
chainVars == <<mapBlockIndex, pindexBest, moveVars, settled>>
poolVars == <<found, accepting, unsaved>>
tableVars == <<rows, confirmations, orphan>>
threadVars == <<pc, todo, row, iConfirmations>>
vars == <<world, chainVars, poolVars, tableVars, threadVars, torn, failures, restarts>>

Places == {"select", "rows", "best", "depth", "depthbest", "height", "update", "orphaned", "sleep"}

Closed(S) == \A x \in S \cap Blocks : pprev[x] \in S
Height(b) == Cardinality(ancestors[b]) - 1
OneMore(b) == Height(pindexBest) - Height(b) + 2
Confirmed(b) == Height(pindexBest) - Height(b) + 1
Links(best) == ancestors[best] \ {best}

Init ==
    /\ pprev \in Trees
    /\ ancestors = [b \in All |->
          {a \in All : \A S \in SUBSET All : b \in S /\ Closed(S) => a \in S}]
    /\ mapBlockIndex = {Genesis} /\ pindexBest = Genesis /\ settled = {}
    /\ linked = {} /\ pindexNewBest = Genesis /\ pindexSwitch = Genesis /\ moving = "no"
    /\ found = {} /\ accepting = Genesis /\ unsaved = {}
    /\ rows = {}
    /\ confirmations = [b \in Mine |-> 0] /\ orphan = [b \in Mine |-> FALSE]
    /\ pc = "select" /\ todo = {} /\ row = Genesis /\ iConfirmations = 0
    /\ torn = {} /\ failures = 0 /\ restarts = 0

-----------------------------------------------------------------------------
(* The node.  A block arrives and enters the index; the chain is to move   *)
(* to best.  A block that is Final deep is never disconnected: in the      *)
(* program that is two days of blocks.                                     *)
AddToBlockIndex(b, best) ==
    /\ pindexNewBest = pindexBest /\ accepting = Genesis
    /\ mapBlockIndex' = mapBlockIndex \cup {b}
    /\ best \in mapBlockIndex' /\ settled \subseteq ancestors[best]
    /\ pindexNewBest' = best
    /\ UNCHANGED <<world, pindexBest, linked, pindexSwitch, moving, settled, unsaved, tableVars,
                   threadVars, torn, failures, restarts>>

Arrive(b, best) ==
    /\ b \notin mapBlockIndex /\ pprev[b] \in mapBlockIndex
    /\ b \in Mine => b \in found
    /\ AddToBlockIndex(b, best)
    /\ UNCHANGED <<found, accepting>>

(* The pool finds a block on the best block and submits it... *)
ProcessBlock(b, best) ==
    /\ b \in Mine \ found /\ pprev[b] = pindexBest
    /\ AddToBlockIndex(b, best)
    /\ found' = found \cup {b}
    /\ accepting' = b

(* ... which is accepted when the chain has moved... *)
Accepted ==
    /\ accepting # Genesis /\ pindexNewBest = pindexBest
    /\ unsaved' = unsaved \cup {accepting}
    /\ accepting' = Genesis
    /\ UNCHANGED <<world, chainVars, found, tableVars, threadVars, torn, failures, restarts>>

(* ... and then saves it. *)
SaveBlock(b) ==
    /\ b \in unsaved
    /\ unsaved' = unsaved \ {b}
    /\ \/ /\ rows' = rows \cup {b}
          /\ confirmations' = [confirmations EXCEPT ![b] = 0]
          /\ orphan' = [orphan EXCEPT ![b] = FALSE]
          /\ UNCHANGED failures
       \/ /\ failures < MaxFailures /\ failures' = failures + 1
          /\ UNCHANGED tableVars
    /\ UNCHANGED <<world, chainVars, found, accepting, threadVars, torn, restarts>>

-----------------------------------------------------------------------------
(* SetBestChain.                                                           *)

(* The blocks whose pnext changes when the best block goes from b to c:    *)
(* those below a disconnected block, and those below a connected one.      *)
Below(b, c) == {pprev[x] : x \in (ancestors[b] \ ancestors[c]) \cap Blocks}
ToCut == Below(pindexBest, pindexSwitch) \cap linked
ToTie == Below(pindexSwitch, pindexBest) \ linked

(* The chain is moved from pindexBest to best by disconnecting blocks, and *)
(* b is not in both chains.                                                *)
Moves(b, best) ==
    /\ pindexBest \notin ancestors[best]
    /\ ~(b \in ancestors[pindexBest] /\ b \in ancestors[best])

(* The next block that ConnectBestBlock has attached: the blocks are read, *)
(* disconnected and connected, and the coins are written.                  *)
Switch(b) ==
    /\ moving = "no"
    /\ b \in ancestors[pindexNewBest] \ ancestors[pindexBest]
    /\ pindexSwitch' = b
    /\ moving' = IF Below(pindexBest, b) = {} THEN "tie" ELSE "cut"
    /\ torn' = IF pc = "height" /\ Moves(row, b) THEN torn \cup {row} ELSE torn
    /\ UNCHANGED <<world, mapBlockIndex, pindexBest, linked, pindexNewBest, settled, poolVars,
                   tableVars, threadVars, failures, restarts>>

(* Links are cut from the old best block down... *)
CutLink(b) ==
    /\ moving = "cut"
    /\ b \in ToCut /\ ToCut \subseteq ancestors[b]
    /\ linked' = linked \ {b}
    /\ moving' = IF ToCut = {b} THEN "tie" ELSE "cut"
    /\ UNCHANGED <<world, mapBlockIndex, pindexBest, pindexNewBest, pindexSwitch, settled,
                   poolVars, tableVars, threadVars, torn, failures, restarts>>

(* ... and tied from the fork up. *)
TieLink(b) ==
    /\ moving = "tie"
    /\ b \in ToTie /\ ToTie \cap ancestors[b] = {b}
    /\ linked' = linked \cup {b}
    /\ UNCHANGED <<world, mapBlockIndex, pindexBest, pindexNewBest, pindexSwitch, moving, settled,
                   poolVars, tableVars, threadVars, torn, failures, restarts>>

Deep(best) == {b \in ancestors[best] : Height(best) - Height(b) + 1 >= Final}

NewBest ==
    /\ moving = "tie" /\ ToTie = {}
    /\ moving' = "no"
    /\ pindexBest' = pindexSwitch
    /\ settled' = settled \cup Deep(pindexSwitch)
    /\ UNCHANGED <<world, mapBlockIndex, linked, pindexNewBest, pindexSwitch, poolVars, tableVars,
                   threadVars, torn, failures, restarts>>

(* The process stops, loses blocks that were not yet safely on disk, and   *)
(* starts again.                                                           *)
Restart(kept, best) ==
    /\ restarts < MaxRestarts
    /\ restarts' = restarts + 1
    /\ kept \subseteq mapBlockIndex /\ Genesis \in kept /\ Closed(kept)
    /\ best \in kept /\ settled \subseteq ancestors[best]
    /\ mapBlockIndex' = kept /\ pindexBest' = best
    /\ linked' = Links(best)
    /\ pindexNewBest' = best /\ pindexSwitch' = best /\ moving' = "no"
    /\ settled' = settled \cup Deep(best)
    /\ accepting' = Genesis /\ unsaved' = {}
    /\ pc' = "select" /\ todo' = {} /\ row' = Genesis /\ iConfirmations' = 0
    /\ UNCHANGED <<world, found, tableVars, torn, failures>>

-----------------------------------------------------------------------------
(* xptServer_checkBlockConfirmations.                                      *)

Submitted == {b \in found : confirmations[b] < Final}
NotOrphaned == {b \in rows : confirmations[b] < Final /\ ~orphan[b]}
Unsettled == {b \in rows : confirmations[b] < Final}

Select ==
    /\ pc = "select"
    /\ todo' = Unsettled
    /\ pc' = "rows"
    /\ UNCHANGED <<world, chainVars, poolVars, tableVars, row, iConfirmations, torn, failures,
                   restarts>>

(* IsInMainChain reads pnext, and pindexBest if there is none. *)
HasNext(b) == b \in linked

(* The block of the next row is looked up. *)
CheckRow(b) ==
    /\ pc = "rows" /\ b \in todo
    /\ todo' = todo \ {b}
    /\ \/ b \notin mapBlockIndex /\ UNCHANGED <<pc, row>>
       \/ /\ b \in mapBlockIndex
          /\ row' = b
          /\ pc' = IF HasNext(b) THEN "depth" ELSE "best"
    /\ UNCHANGED <<world, chainVars, poolVars, tableVars, iConfirmations, torn, failures, restarts>>

CheckBest ==
    /\ pc = "best"
    /\ pc' = IF row = pindexBest THEN "depth" ELSE "orphaned"
    /\ UNCHANGED <<world, chainVars, poolVars, tableVars, todo, row, iConfirmations, torn,
                   failures, restarts>>

(* GetDepthInMainChain has found the block in the chain. *)
GoesOn ==
    /\ pc' = "height"
    /\ torn' = IF moving # "no" /\ Moves(row, pindexSwitch) THEN torn \cup {row} ELSE torn \ {row}
    /\ UNCHANGED iConfirmations

(* The block is read from disk, and GetDepthInMainChain called.  If it     *)
(* cannot be read its vtx is empty, and vtx[0] ends the process: that is   *)
(* Restart.  What SetMerkleBranch returns is not used.                     *)
Depth ==
    /\ pc = "depth"
    /\ \/ HasNext(row) /\ GoesOn
       \/ ~HasNext(row) /\ pc' = "depthbest" /\ UNCHANGED <<iConfirmations, torn>>
    /\ UNCHANGED <<world, chainVars, poolVars, tableVars, todo, row, failures, restarts>>

DepthBest ==
    /\ pc = "depthbest"
    /\ \/ row = pindexBest /\ GoesOn
       \/ row # pindexBest /\ pc' = "update" /\ iConfirmations' = 0 /\ UNCHANGED torn
    /\ UNCHANGED <<world, chainVars, poolVars, tableVars, todo, row, failures, restarts>>

(* pindexBest->nHeight - pindex->nHeight + 1, negative if the best block   *)
(* is lower by now.                                                        *)
DepthHeight ==
    /\ pc = "height"
    /\ iConfirmations' = Confirmed(row)
    /\ pc' = "update"
    /\ UNCHANGED <<world, chainVars, poolVars, tableVars, todo, row, torn, failures, restarts>>

(* The query that writes the depth and takes the mark of an orphan away. *)
Update ==
    /\ pc = "update"
    /\ confirmations' = [confirmations EXCEPT ![row] = iConfirmations]
    /\ orphan' = [orphan EXCEPT ![row] = FALSE]
    /\ pc' = "rows" /\ row' = Genesis /\ iConfirmations' = 0
    /\ UNCHANGED <<world, chainVars, poolVars, rows, todo, torn, failures, restarts>>

Orphaned ==
    /\ pc = "orphaned"
    /\ orphan' = [orphan EXCEPT ![row] = TRUE]
    /\ pc' = "rows" /\ row' = Genesis
    /\ UNCHANGED <<world, chainVars, poolVars, rows, confirmations, todo, iConfirmations, torn,
                   failures, restarts>>

(* A query fails: the round is given up. *)
QueryFails ==
    /\ pc \in {"select", "update", "orphaned"}
    /\ failures < MaxFailures
    /\ failures' = failures + 1
    /\ pc' = "sleep" /\ todo' = {} /\ row' = Genesis /\ iConfirmations' = 0
    /\ UNCHANGED <<world, chainVars, poolVars, tableVars, torn, restarts>>

RoundDone ==
    /\ pc = "rows" /\ todo = {}
    /\ pc' = "sleep"
    /\ UNCHANGED <<world, chainVars, poolVars, tableVars, todo, row, iConfirmations, torn,
                   failures, restarts>>

Wake ==
    /\ pc = "sleep"
    /\ pc' = "select"
    /\ UNCHANGED <<world, chainVars, poolVars, tableVars, todo, row, iConfirmations, torn,
                   failures, restarts>>

Thread ==
    \/ Select \/ (\E b \in Mine : CheckRow(b)) \/ CheckBest \/ Depth \/ DepthBest \/ DepthHeight
    \/ Update \/ Orphaned \/ QueryFails \/ RoundDone \/ Wake

ConnectBestBlock == (\E b \in All : Switch(b) \/ CutLink(b) \/ TieLink(b)) \/ NewBest

Next ==
    \/ \E b \in Blocks, best \in All : Arrive(b, best) \/ ProcessBlock(b, best)
    \/ Accepted
    \/ \E b \in Mine : SaveBlock(b)
    \/ \E kept \in SUBSET All, best \in All : Restart(kept, best)
    \/ ConnectBestBlock
    \/ Thread

Spec == Init /\ [][Next]_vars

(* The thread loops for ever; sleep(300) and its queries return.  Once the *)
(* coins are written, nothing stops SetBestChain.                          *)
FairSpec == Spec /\ WF_vars(Thread) /\ WF_vars(ConnectBestBlock)
-----------------------------------------------------------------------------
(* TypeOK: the state has its types.  A depth may be negative.              *)
TypeOK ==
    /\ mapBlockIndex \subseteq All /\ settled \subseteq All /\ linked \subseteq All
    /\ {pindexBest, pindexNewBest, pindexSwitch} \subseteq mapBlockIndex
    /\ moving \in {"no", "cut", "tie"}
    /\ accepting \in found \cup {Genesis}
    /\ unsaved \subseteq found /\ found \subseteq Mine /\ rows \subseteq found
    /\ confirmations \in [Mine -> Int] /\ orphan \in [Mine -> BOOLEAN]
    /\ pc \in Places /\ todo \subseteq rows /\ row \in All /\ iConfirmations \in Int
    /\ torn \subseteq rows
    /\ failures \in 0..MaxFailures /\ restarts \in 0..MaxRestarts

(* FinalRowsStayInChain: a row that the thread will not look at again is   *)
(* not marked as an orphan, and its block was Final deep in the best chain *)
(* (and so stays in it), although links, best block, depth and row are     *)
(* read and written one by one, also in the middle of a reorganisation.    *)
(* The one exception is a reorganisation that moves this very block in or  *)
(* out of the chain and overlaps the reads of pnext (main.cpp 914) and of  *)
(* pindexBest (main.cpp 926): the depth is then a number of blocks of      *)
(* another branch, and the row is settled by it.                           *)
FinalRowsStayInChain ==
    \A b \in rows : confirmations[b] >= Final => ~orphan[b] /\ b \in settled \cup torn

(* RowsConverge: once the chain is quiet and queries succeed, every row of *)
(* a known block comes to say what the chain says and stays so, also for a *)
(* block that was orphaned and came back ("orphaned -> but if we are lucky *)
(* it comes back"), and after depths and links were read in the middle of  *)
(* a reorganisation; but not a row that was settled by a torn depth.       *)
RowAgrees(b) ==
    IF b \in ancestors[pindexBest]
    THEN /\ ~orphan[b]
         /\ confirmations[b] = Confirmed(b) \/ confirmations[b] >= Final
    ELSE orphan[b]
RowsConverge ==
    <>[](\A b \in rows \cap mapBlockIndex :
            RowAgrees(b) \/ (confirmations[b] >= Final /\ b \in torn))
=============================================================================
