-------------------------- MODULE ChainStateProofs --------------------------
(***************************************************************************)
(* Proofs about ChainState, for every tree of blocks, every work, every    *)
(* set of refused blocks and any number of threads.  Checkpoints advance   *)
(* whatever the pool's threads do; the coins, the marks, the links and the *)
(* choice of the chain are right if every handler runs under cs_main       *)
(* (Pool = {}).                                                            *)
(***************************************************************************)
EXTENDS ChainState, WellFoundedInduction, TLAPS

(* What the model says of the tree of blocks, once and for all. *)
WorldInv ==
    /\ pprev \in [Blocks -> All] /\ \A b \in Blocks : pprev[b] < b
    /\ work \in [Blocks -> Nat \ {0}] /\ bad \subseteq Blocks
    /\ ancestors \in [All -> SUBSET All]
    /\ \A b \in All : b \in ancestors[b] /\ Genesis \in ancestors[b]
    /\ \A b \in All : \A a \in ancestors[b] : a <= b /\ ancestors[a] \subseteq ancestors[b]

(* A branch goes from its end to the genesis block, block by block. *)
BranchInv ==
    /\ \A b \in All : \A c \in ancestors[b] \cap Blocks : pprev[c] \in ancestors[b]
    /\ \A b \in All : \A a \in ancestors[b] :
          a # b => \E c \in ancestors[b] \cap Blocks : pprev[c] = a
    /\ \A b \in All : \A c, d \in ancestors[b] \cap Blocks : pprev[c] = pprev[d] => c = d
    /\ \A b \in Blocks : \A a \in ancestors[b] \ {b} : a \in ancestors[pprev[b]]

-----------------------------------------------------------------------------
LEMMA BlockFacts == /\ All = 0..NBlocks /\ Blocks \subseteq All /\ All \subseteq Nat
                    /\ Genesis \in All /\ Genesis \notin Blocks /\ None \notin All
                    /\ \A b \in All : b # Genesis => b \in Blocks
BY BoundsAssumption DEF All, Blocks, Genesis, None

LEMMA Least == ASSUME NEW T, T \subseteq Nat, T # {} PROVE \E x \in T : \A y \in T : x <= y
<1>1. \E x \in T : \A y \in T : ~(<<y, x>> \in OpToRel(<, Nat))
  BY NatLessThanWellFounded, WFMin, Zenon
<1>2. \A x, y \in Nat : y < x => <<y, x>> \in OpToRel(<, Nat)
  BY Zenon DEF OpToRel
<1>3. PICK R : /\ \E x \in T : \A y \in T : ~(<<y, x>> \in R)
               /\ \A x, y \in Nat : y < x => <<y, x>> \in R
  BY <1>1, <1>2, Zenon
<1>4. PICK x \in T : \A y \in T : ~(<<y, x>> \in R) BY <1>3
<1>5. ASSUME NEW y \in T PROVE x <= y
  <2>1. ~(y < x) BY <1>3, <1>4, Zenon
  <2>2. x \in Nat /\ y \in Nat OBVIOUS
  <2> QED BY <2>1, <2>2
<1> QED BY <1>5

(* TreeFacts: the tree that Init makes is as WorldInv and BranchInv say.   *)
LEMMA TreeFacts == Init => WorldInv /\ BranchInv
<1> SUFFICES ASSUME Init PROVE WorldInv /\ BranchInv OBVIOUS
<1>1. /\ pprev \in [Blocks -> All] /\ \A b \in Blocks : pprev[b] < b
      /\ work \in [Blocks -> Nat \ {0}] /\ bad \subseteq Blocks
  BY TreesAssumption, WorksAssumption DEF Init
<1>2. ancestors \in [All -> SUBSET All] BY DEF Init
<1>3. ASSUME NEW b \in All, NEW a \in All
      PROVE  a \in ancestors[b] <=> \A S \in SUBSET All : b \in S /\ Closed(S) => a \in S
  BY <1>3 DEF Init
<1>4. ASSUME NEW b \in All, NEW a \in ancestors[b] PROVE a \in All BY <1>2
<1>5. ASSUME NEW b \in All PROVE b \in ancestors[b] BY <1>3
<1>6. ASSUME NEW b \in All, NEW c \in ancestors[b] \cap Blocks PROVE pprev[c] \in ancestors[b]
  <2>1. c \in All /\ pprev[c] \in All BY <1>1, <1>4
  <2>2. ASSUME NEW S \in SUBSET All, b \in S, Closed(S) PROVE pprev[c] \in S
    <3>1. c \in S BY <1>3, <2>1, <2>2
    <3> QED BY <2>2, <3>1 DEF Closed
  <2> QED BY <1>3, <2>1, <2>2
<1>7. ASSUME NEW b \in All, NEW S \in SUBSET All, b \in S, Closed(S) PROVE ancestors[b] \subseteq S
  BY <1>3, <1>4, <1>7
<1>8. ASSUME NEW b \in All, NEW a \in ancestors[b] PROVE ancestors[a] \subseteq ancestors[b]
  <2>1. a \in All /\ ancestors[b] \in SUBSET All BY <1>2
  <2>2. Closed(ancestors[b]) BY <1>6 DEF Closed
  <2> QED BY <1>7, <2>1, <2>2
<1>9. ASSUME NEW b \in All, NEW a \in ancestors[b] PROVE a <= b
  <2> DEFINE S == {x \in All : x <= b}
  <2>1. S \in SUBSET All /\ b \in S BY BlockFacts
  <2>2. Closed(S) BY <1>1, BlockFacts DEF Closed
  <2>3. a \in S BY <1>7, <2>1, <2>2
  <2> QED BY <2>3
<1>10. ASSUME NEW b \in All PROVE Genesis \in ancestors[b]
  <2>1. ancestors[b] \subseteq All /\ ancestors[b] # {} BY <1>2, <1>5
  <2>2. PICK m \in ancestors[b] : \A y \in ancestors[b] : m <= y BY <2>1, Least, BlockFacts
  <2>3. ASSUME m \in Blocks PROVE FALSE
    <3>1. pprev[m] \in ancestors[b] BY <1>6, <2>3
    <3>2. m <= pprev[m] /\ pprev[m] < m BY <1>1, <2>2, <2>3, <3>1
    <3>3. m \in Nat /\ pprev[m] \in Nat BY <1>1, <2>1, <2>3, BlockFacts
    <3> QED BY <3>2, <3>3
  <2> QED BY <2>1, <2>3, BlockFacts
<1>11. ASSUME NEW b \in Blocks, NEW a \in ancestors[b], a # b PROVE a \in ancestors[pprev[b]]
  <2>1. b \in All /\ pprev[b] \in All BY <1>1, BlockFacts
  <2> DEFINE S == {b} \cup ancestors[pprev[b]]
  <2>2. S \in SUBSET All /\ b \in S BY <1>2, <2>1
  <2>3. Closed(S) BY <1>5, <1>6, <2>1 DEF Closed
  <2>4. ancestors[b] \subseteq S BY <1>7, <2>1, <2>2, <2>3
  <2> QED BY <1>11, <2>4
<1>12. ASSUME NEW b \in All, NEW a \in ancestors[b], a # b
       PROVE  \E c \in ancestors[b] \cap Blocks : pprev[c] = a
  <2> SUFFICES ASSUME \A c \in ancestors[b] \cap Blocks : pprev[c] # a PROVE FALSE OBVIOUS
  <2> DEFINE S == ancestors[b] \ {a}
  <2>1. S \in SUBSET All /\ b \in S BY <1>2, <1>5, <1>12
  <2>2. Closed(S) BY <1>6 DEF Closed
  <2>3. a \in S BY <1>7, <2>1, <2>2
  <2> QED BY <2>3
<1>13. ASSUME NEW b \in All, NEW a \in ancestors[b], NEW y \in ancestors[b]
       PROVE  a \in ancestors[y] \/ y \in ancestors[a]
  <2> DEFINE S == {x \in ancestors[b] : \A z \in ancestors[b] : x \in ancestors[z] \/ z \in ancestors[x]}
  <2>1. S \in SUBSET All /\ b \in S BY <1>2, <1>5
  <2>2. Closed(S)
    <3> SUFFICES ASSUME NEW x \in S \cap Blocks, NEW z \in ancestors[b]
                 PROVE  pprev[x] \in S \/ pprev[x] \in ancestors[z] \/ z \in ancestors[pprev[x]]
      BY <1>6 DEF Closed
    <3>1. z \in All /\ x \in All BY <1>2
    <3>2. CASE x \in ancestors[z] BY <1>6, <3>1, <3>2
    <3>3. CASE z \in ancestors[x] /\ z # x BY <1>11, <3>3
    <3> QED BY <1>5, <3>1, <3>2, <3>3
  <2>3. a \in S BY <1>7, <2>1, <2>2
  <2> QED BY <2>3
<1>14. ASSUME NEW b \in All, NEW c \in ancestors[b] \cap Blocks, NEW d \in ancestors[b] \cap Blocks,
              pprev[c] = pprev[d], c \in ancestors[d], c # d
       PROVE  FALSE
  <2>1. c \in ancestors[pprev[c]] BY <1>11, <1>14
  <2>2. pprev[c] \in All /\ c \in Nat /\ pprev[c] \in Nat BY <1>1, BlockFacts
  <2>3. c <= pprev[c] /\ pprev[c] < c BY <1>1, <1>9, <2>1, <2>2
  <2> QED BY <2>2, <2>3
<1>15. ASSUME NEW b \in All, NEW c \in ancestors[b] \cap Blocks, NEW d \in ancestors[b] \cap Blocks,
              pprev[c] = pprev[d]
       PROVE  c = d
  BY <1>13, <1>14, <1>15
<1>16. WorldInv BY <1>1, <1>2, <1>5, <1>8, <1>9, <1>10 DEF WorldInv
<1>17. BranchInv BY <1>6, <1>11, <1>12, <1>15 DEF BranchInv
<1> QED BY <1>16, <1>17

-----------------------------------------------------------------------------
(* Types, by groups of variables. *)
IndexType ==
    /\ mapBlockIndex \subseteq All /\ failed \subseteq Blocks /\ setBlockIndexValid \subseteq All
    /\ nChainWork \in [All -> Nat] /\ nChainWork[Genesis] = 0
OrphanType == orphans \subseteq Blocks
TipType == pindexBest \in All /\ pnext \in [All -> Blocks \cup {None}]
CoinType == /\ coins \subseteq Blocks /\ coinsBest \in All
            /\ diskCoins \subseteq Blocks /\ diskBest \in All
CheckType == hashSyncCheckpoint \in All /\ hashPendingCheckpoint \in Blocks \cup {None}
LockType == csMain \in Threads \cup {NoThread} /\ pc \in [Threads -> Places]
            /\ queue \in [Threads -> SUBSET All]
JobType == job \in [Threads -> [kind : Kinds, ok : BOOLEAN]] /\ blk \in [Threads -> All]
AttachType == attach \in [Threads -> SUBSET Blocks]
ViewType == view \in [Threads -> [new : All, disconnect : SUBSET Blocks, connect : SUBSET Blocks]]

Types ==
    /\ IndexType /\ OrphanType /\ TipType /\ CoinType /\ CheckType
    /\ LockType /\ JobType /\ AttachType /\ ViewType /\ restarts \in 0..MaxRestarts

BaseInv == WorldInv /\ BranchInv /\ Types

LEMMA OnlyGenesis == ASSUME BaseInv PROVE ancestors[Genesis] = {Genesis}
<1>1. ASSUME NEW a \in ancestors[Genesis] PROVE a = Genesis
  <2>1. a \in All /\ a <= Genesis BY BlockFacts DEF BaseInv, WorldInv
  <2> QED BY <2>1, BlockFacts DEF Genesis
<1> QED BY <1>1, BlockFacts DEF BaseInv, WorldInv

LEMMA InitTypes == Init => Types
<1> SUFFICES ASSUME Init PROVE Types OBVIOUS
<1> USE BlockFacts
<1>1. IndexType BY DEF Init, IndexType
<1>2. OrphanType /\ TipType /\ CoinType /\ CheckType
  BY DEF Init, OrphanType, TipType, CoinType, CheckType
<1>3. LockType BY DEF Init, LockType, Places
<1>4. JobType /\ AttachType BY DEF Init, JobType, AttachType, Kinds
<1>5. ViewType BY DEF Init, ViewType
<1>6. restarts \in 0..MaxRestarts BY BoundsAssumption DEF Init
<1> QED BY <1>1, <1>2, <1>3, <1>4, <1>5, <1>6 DEF Types

LEMMA Kept ==
    /\ WorldInv /\ UNCHANGED world => WorldInv'
    /\ BranchInv /\ UNCHANGED world => BranchInv'
    /\ IndexType /\ UNCHANGED indexVars => IndexType'
    /\ OrphanType /\ UNCHANGED orphans => OrphanType'
    /\ TipType /\ UNCHANGED tipVars => TipType'
    /\ CoinType /\ UNCHANGED coinVars => CoinType'
    /\ CheckType /\ UNCHANGED checkVars => CheckType'
    /\ LockType /\ UNCHANGED <<csMain, pc, queue>> => LockType'
    /\ JobType /\ UNCHANGED <<job, blk>> => JobType'
    /\ AttachType /\ UNCHANGED attach => AttachType'
    /\ ViewType /\ UNCHANGED view => ViewType'
<1>1. WorldInv /\ UNCHANGED world => WorldInv' BY DEF WorldInv, world
<1>2. BranchInv /\ UNCHANGED world => BranchInv' BY DEF BranchInv, world
<1>3. IndexType /\ UNCHANGED indexVars => IndexType' BY DEF IndexType, indexVars
<1>4. /\ OrphanType /\ UNCHANGED orphans => OrphanType'
      /\ TipType /\ UNCHANGED tipVars => TipType'
      /\ CoinType /\ UNCHANGED coinVars => CoinType'
      /\ CheckType /\ UNCHANGED checkVars => CheckType'
  BY DEF OrphanType, TipType, tipVars, CoinType, coinVars, CheckType, checkVars
<1>5. /\ LockType /\ UNCHANGED <<csMain, pc, queue>> => LockType'
      /\ JobType /\ UNCHANGED <<job, blk>> => JobType'
      /\ AttachType /\ UNCHANGED attach => AttachType'
      /\ ViewType /\ UNCHANGED view => ViewType'
  BY DEF LockType, JobType, AttachType, ViewType
<1> QED BY <1>1, <1>2, <1>3, <1>4, <1>5

LEMMA GotoType ==
    ASSUME LockType, NEW t \in Threads, NEW place \in Places, Goto(t, place),
           UNCHANGED <<csMain, queue>>
    PROVE  LockType'
BY DEF LockType, Goto

LEMMA ReturnType == ASSUME LockType, NEW t \in Threads, Return(t) PROVE LockType'
BY DEF LockType, Return, Goto, Places

LEMMA AcceptedType ==
    ASSUME LockType, JobType, NEW t \in Threads, Accepted(t) PROVE LockType'
BY DEF LockType, JobType, Accepted, Goto, Places

LEMMA ContinueType ==
    ASSUME LockType, JobType, NEW t \in Threads, NEW ok, Continue(t, ok)
    PROVE  LockType'
<1>1. CASE Return(t) BY <1>1, ReturnType
<1>2. CASE Accepted(t) BY <1>2, AcceptedType
<1>3. CASE \E place \in {"down", "pending", "orphans"} :
              Goto(t, place) /\ UNCHANGED <<csMain, queue>>
  BY <1>3, GotoType DEF Places
<1> QED BY <1>1, <1>2, <1>3 DEF Continue

LEMMA AddType ==
    ASSUME BaseInv, NEW t \in Threads, NEW b \in Blocks, AddToBlockIndex(t, b)
    PROVE  IndexType' /\ JobType' /\ pc' = [pc EXCEPT ![t] = "connect"]
<1>1. b \in All /\ b # Genesis /\ pprev[b] \in All /\ work[b] \in Nat
  BY BlockFacts DEF BaseInv, WorldInv
<1>2. nChainWork[pprev[b]] + work[b] \in Nat
  BY <1>1 DEF BaseInv, Types, IndexType
<1>3. IndexType'
  BY <1>1, <1>2 DEF AddToBlockIndex, BaseInv, Types, IndexType
<1>4. JobType' BY <1>1 DEF AddToBlockIndex, BaseInv, Types, JobType, Kinds
<1> QED BY <1>3, <1>4 DEF AddToBlockIndex, Goto

(* Blocks that SetBestChain may disconnect or connect are not the genesis  *)
(* block.                                                                  *)
LEMMA SwitchFacts ==
    ASSUME BaseInv, NEW new \in All
    PROVE  VDisconnect(new) \subseteq Blocks /\ VConnect(new) \subseteq Blocks
<1>1. coinsBest \in All BY DEF BaseInv, Types, CoinType
<1>2. /\ ancestors[coinsBest] \subseteq All /\ Genesis \in ancestors[coinsBest]
      /\ ancestors[new] \subseteq All /\ Genesis \in ancestors[new]
  BY <1>1 DEF BaseInv, WorldInv
<1> QED BY <1>2, BlockFacts DEF VDisconnect, VConnect

LEMMA VisitedFacts ==
    ASSUME BaseInv, NEW top \in All
    PROVE  /\ Visited(top) \subseteq All
           /\ \A f \in Blocks : Descendants(top, f) \subseteq Blocks
<1>1. Visited(top) \subseteq All BY DEF BaseInv, WorldInv, Visited
<1>2. ASSUME NEW f \in Blocks, NEW x \in Descendants(top, f) PROVE x \in Blocks
  <2>1. x \in All /\ f \in ancestors[x] BY <1>1 DEF Descendants
  <2>2. f <= x /\ f \in Nat /\ f > 0 /\ x \in Nat
    BY <2>1, BlockFacts DEF BaseInv, WorldInv, Blocks
  <2> QED BY <2>1, <2>2, BlockFacts DEF Genesis
<1> QED BY <1>1, <1>2

(* One lemma for each handler or part of one: the types are kept.          *)
LEMMA ProcessBlockType ==
    ASSUME BaseInv, NEW t \in Threads, NEW b \in Blocks, ProcessBlock(t, b) PROVE Types'
<1>1. IndexType' /\ JobType' /\ pc' = [pc EXCEPT ![t] = "connect"]
  BY AddType DEF ProcessBlock
<1>2. LockType'
  BY <1>1 DEF ProcessBlock, Take, BaseInv, Types, LockType, Places
<1> QED BY <1>1, <1>2, Kept DEF ProcessBlock, BaseInv, Types

LEMMA ShuntOrphanType ==
    ASSUME BaseInv, NEW t \in Threads, NEW b \in Blocks, ShuntOrphan(t, b) PROVE Types'
<1>1. OrphanType' BY DEF ShuntOrphan, BaseInv, Types, OrphanType
<1> QED BY <1>1, Kept DEF ShuntOrphan, BaseInv, Types, threadVars

LEMMA AcceptOrphanType ==
    ASSUME BaseInv, NEW t \in Threads, NEW o \in Blocks, AcceptOrphan(t, o) PROVE Types'
<1>1. OrphanType' BY DEF AcceptOrphan, BaseInv, Types, OrphanType
<1>2. CASE Acceptable(o)
  <2>1. IndexType' /\ JobType' /\ pc' = [pc EXCEPT ![t] = "connect"]
    BY <1>2, AddType DEF AcceptOrphan
  <2>2. LockType' BY <2>1 DEF AcceptOrphan, BaseInv, Types, LockType, Places
  <2> QED BY <1>1, <2>1, <2>2, Kept DEF AcceptOrphan, BaseInv, Types
<1>3. CASE ~Acceptable(o)
  BY <1>1, <1>3, Kept DEF AcceptOrphan, BaseInv, Types
<1> QED BY <1>2, <1>3

LEMMA NoMoreOrphansType ==
    ASSUME BaseInv, NEW t \in Threads, NoMoreOrphans(t) PROVE Types'
<1>1. LockType' BY ReturnType DEF NoMoreOrphans, BaseInv, Types
<1> QED BY <1>1, Kept DEF NoMoreOrphans, BaseInv, Types

LEMMA NothingToDoType ==
    ASSUME BaseInv, NEW t \in Threads, NothingToDo(t) PROVE Types'
<1>1. LockType' BY ContinueType DEF NothingToDo, BaseInv, Types
<1> QED BY <1>1, Kept DEF NothingToDo, BaseInv, Types

LEMMA MarkDescendantsType ==
    ASSUME BaseInv, NEW t \in Threads, NEW top \in All, MarkDescendants(t, top) PROVE Types'
<1>1. PICK f \in Visited(top) \cap failed :
          /\ failed' = failed \cup Descendants(top, f)
          /\ setBlockIndexValid' = setBlockIndexValid \ Descendants(top, f)
  BY DEF MarkDescendants
<1>2. Descendants(top, f) \subseteq Blocks
  BY VisitedFacts DEF BaseInv, Types, IndexType
<1>3. IndexType' BY <1>1, <1>2 DEF MarkDescendants, BaseInv, Types, IndexType
<1> QED BY <1>3, Kept DEF MarkDescendants, BaseInv, Types, threadVars

LEMMA ChooseChainType ==
    ASSUME BaseInv, NEW t \in Threads, NEW top \in All, ChooseChain(t, top) PROVE Types'
<1> DEFINE heavier == {x \in Visited(top) : nChainWork[x] > nChainWork[pindexBest]}
<1>1. heavier \subseteq Blocks
  <2>1. nChainWork[Genesis] = 0 /\ nChainWork[pindexBest] \in Nat
    BY DEF BaseInv, Types, IndexType, TipType
  <2> QED BY <2>1, VisitedFacts, BlockFacts
<1>2. attach' = [attach EXCEPT ![t] = heavier] BY DEF ChooseChain
<1>3. AttachType' BY <1>1, <1>2 DEF BaseInv, Types, AttachType
<1>4. LockType'
  <2>1. CASE heavier = {} BY <2>1, ContinueType DEF ChooseChain, BaseInv, Types
  <2>2. CASE heavier # {} BY <2>2, GotoType DEF ChooseChain, BaseInv, Types, Places
  <2> QED BY <2>1, <2>2
<1> QED BY <1>3, <1>4, Kept DEF ChooseChain, BaseInv, Types

LEMMA ConnectedType ==
    ASSUME BaseInv, NEW t \in Threads, NEW new \in All, Connected(t, new) PROVE Types'
<1>1. LockType' BY GotoType DEF Connected, BaseInv, Types, Places
<1>2. ViewType' BY SwitchFacts DEF Connected, BaseInv, Types, ViewType
<1> QED BY <1>1, <1>2, Kept DEF Connected, BaseInv, Types

LEMMA DisconnectFailsType ==
    ASSUME BaseInv, NEW t \in Threads, NEW new \in All, DisconnectFails(t, new) PROVE Types'
<1>1. LockType' BY ContinueType DEF DisconnectFails, BaseInv, Types
<1>2. AttachType' BY DEF DisconnectFails, BaseInv, Types, AttachType
<1> QED BY <1>1, <1>2, Kept DEF DisconnectFails, BaseInv, Types

LEMMA InvalidBlockFoundType ==
    ASSUME BaseInv, NEW t \in Threads, NEW new \in All, NEW x \in All,
           InvalidBlockFound(t, new, x)
    PROVE  Types'
<1>1. IndexType'
  <2>1. x \in Blocks BY SwitchFacts DEF InvalidBlockFound
  <2> QED BY <2>1 DEF InvalidBlockFound, BaseInv, Types, IndexType
<1>2. AttachType' BY DEF InvalidBlockFound, BaseInv, Types, AttachType
<1>3. LockType' /\ JobType'
  <2>1. CASE pnext[x] # None
    <3>1. LockType' BY <2>1, GotoType DEF InvalidBlockFound, BaseInv, Types, Places
    <3>2. JobType' BY <2>1 DEF InvalidBlockFound, BaseInv, Types, JobType
    <3> QED BY <3>1, <3>2
  <2>2. CASE pnext[x] = None
    BY <2>2, ContinueType, Kept DEF InvalidBlockFound, BaseInv, Types
  <2> QED BY <2>1, <2>2
<1> QED BY <1>1, <1>2, <1>3, Kept DEF InvalidBlockFound, BaseInv, Types

LEMMA FlushType == ASSUME BaseInv, NEW t \in Threads, Flush(t) PROVE Types'
<1>1. LockType' BY GotoType DEF Flush, BaseInv, Types, Places
<1>2. CoinType' BY DEF Flush, BaseInv, Types, CoinType, ViewType
<1> QED BY <1>1, <1>2, Kept DEF Flush, BaseInv, Types

LEMMA LinkedType == ASSUME BaseInv, NEW t \in Threads PROVE Linked(t) \in [All -> Blocks \cup {None}]
<1> DEFINE next(x) == {c \in view[t].connect : pprev[c] = x}
<1>1. view[t].connect \subseteq Blocks BY DEF BaseInv, Types, ViewType
<1>2. ASSUME NEW x \in All, next(x) # {} PROVE (CHOOSE c \in next(x) : TRUE) \in Blocks
  <2>1. (CHOOSE c \in next(x) : TRUE) \in next(x) BY <1>2
  <2> QED BY <1>1, <2>1
<1>3. \A x \in All : pnext[x] \in Blocks \cup {None} BY DEF BaseInv, Types, TipType
<1> HIDE DEF next
<1> QED BY <1>2, <1>3 DEF Linked, next

LEMMA NewBestBlockType == ASSUME BaseInv, NEW t \in Threads, NewBestBlock(t) PROVE Types'
<1>1. view[t].new \in All BY DEF BaseInv, Types, ViewType
<1>2. TipType' BY <1>1, LinkedType DEF NewBestBlock, TipType
<1>3. AttachType' BY DEF NewBestBlock, BaseInv, Types, AttachType
<1>4. LockType'
  <2>1. CASE attach[t] \ {view[t].new} = {}
    BY <2>1, ContinueType DEF NewBestBlock, BaseInv, Types
  <2>2. CASE attach[t] \ {view[t].new} # {}
    BY <2>2, GotoType DEF NewBestBlock, BaseInv, Types, Places
  <2> QED BY <2>1, <2>2
<1>5. CheckType'
  BY <1>1, Kept DEF NewBestBlock, WriteSyncCheckpoint, BaseInv, Types, CheckType
<1> QED BY <1>2, <1>3, <1>4, <1>5, Kept DEF NewBestBlock, BaseInv, Types

LEMMA SwitchToType ==
    ASSUME BaseInv, NEW t \in Threads, NEW c \in Blocks, NEW kind \in Kinds,
           SwitchTo(t, c, kind), UNCHANGED blk
    PROVE  JobType' /\ AttachType' /\ pc' = [pc EXCEPT ![t] = "set"]
BY DEF SwitchTo, Goto, BaseInv, Types, JobType, AttachType

LEMMA ProcessSyncCheckpointType ==
    ASSUME BaseInv, NEW t \in Threads, NEW c \in Checkpoints, ProcessSyncCheckpoint(t, c)
    PROVE  Types'
<1>0. c \in Blocks /\ c \in All BY CheckpointsAssumption, BlockFacts
<1>1. CASE UNCHANGED threadVars
  <2>1. CheckType'
    BY <1>0, <1>1 DEF ProcessSyncCheckpoint, SwitchTo, WriteSyncCheckpoint, BaseInv, Types,
       CheckType, checkVars
  <2> QED BY <1>1, <2>1, Kept DEF ProcessSyncCheckpoint, BaseInv, Types, threadVars
<1>2. CASE /\ SwitchTo(t, c, "checkpoint") /\ Take(t) /\ UNCHANGED <<blk, queue, view>>
  <2>1. JobType' /\ AttachType' /\ pc' = [pc EXCEPT ![t] = "set"]
    BY <1>0, <1>2, SwitchToType DEF Kinds
  <2>2. LockType' BY <1>2, <2>1 DEF Take, BaseInv, Types, LockType, Places
  <2>3. UNCHANGED checkVars BY <1>2 DEF SwitchTo
  <2> QED BY <1>2, <2>1, <2>2, <2>3, Kept DEF ProcessSyncCheckpoint, BaseInv, Types
<1> QED BY <1>1, <1>2 DEF ProcessSyncCheckpoint

LEMMA AcceptPendingType ==
    ASSUME BaseInv, NEW t \in Threads, AcceptPendingSyncCheckpoint(t) PROVE Types'
<1> DEFINE c == hashPendingCheckpoint
<1>1. CASE Accepted(t) /\ UNCHANGED <<job, attach>> /\ CheckType'
  <2>1. LockType' BY <1>1, AcceptedType DEF BaseInv, Types
  <2> QED BY <1>1, <2>1, Kept DEF AcceptPendingSyncCheckpoint, BaseInv, Types
<1>2. CASE c \in mapBlockIndex /\ SwitchTo(t, c, "pending") /\ UNCHANGED <<csMain, queue, blk>>
  <2>1. c \in Blocks BY <1>2, BlockFacts DEF BaseInv, Types, IndexType, CheckType
  <2>2. JobType' /\ AttachType' /\ pc' = [pc EXCEPT ![t] = "set"]
    BY <1>2, <2>1, SwitchToType DEF Kinds
  <2>3. LockType' BY <1>2, <2>2 DEF BaseInv, Types, LockType, Places
  <2>4. UNCHANGED checkVars BY <1>2 DEF SwitchTo
  <2> QED BY <2>2, <2>3, <2>4, Kept DEF AcceptPendingSyncCheckpoint, BaseInv, Types
<1>3. ASSUME c \in mapBlockIndex, WriteSyncCheckpoint(c) PROVE CheckType'
  BY <1>3 DEF WriteSyncCheckpoint, BaseInv, Types, IndexType, CheckType
<1>4. ASSUME hashPendingCheckpoint' = None, UNCHANGED hashSyncCheckpoint PROVE CheckType'
  BY <1>4 DEF BaseInv, Types, CheckType
<1>5. ASSUME UNCHANGED checkVars PROVE CheckType' BY <1>5, Kept DEF BaseInv, Types
<1> QED BY <1>1, <1>2, <1>3, <1>4, <1>5 DEF AcceptPendingSyncCheckpoint

LEMMA RestartType ==
    ASSUME BaseInv, NEW t \in Threads, NEW clean \in BOOLEAN, Restart(t, clean) PROVE Types'
<1> DEFINE best == IF clean THEN coinsBest ELSE diskBest
           next(x) == {c \in ancestors[best] \ {Genesis} : pprev[c] = x}
<1>1. best \in All BY DEF BaseInv, Types, CoinType
<1>2. ancestors[best] \ {Genesis} \subseteq Blocks BY <1>1, BlockFacts DEF BaseInv, WorldInv
<1>3. ASSUME NEW x \in All, next(x) # {} PROVE (CHOOSE c \in next(x) : TRUE) \in Blocks
  <2>1. (CHOOSE c \in next(x) : TRUE) \in next(x) BY <1>3
  <2> QED BY <1>2, <2>1
<1>4. pnext' = [x \in All |-> IF next(x) # {} THEN CHOOSE c \in next(x) : TRUE ELSE None]
  BY DEF Restart
<1>5. TipType'
  <2>1. pindexBest' \in All BY <1>1 DEF Restart
  <2> HIDE DEF next
  <2> QED BY <1>3, <1>4, <2>1 DEF TipType
<1>6. IndexType' BY DEF Restart, BaseInv, Types, IndexType
<1>7. OrphanType' BY DEF Restart, OrphanType
<1>8. CoinType' BY DEF Restart, BaseInv, Types, CoinType
<1>9. CheckType' BY DEF Restart, BaseInv, Types, CheckType
<1>10. LockType' BY DEF Restart, BaseInv, Types, LockType, Places
<1>11. JobType' BY DEF Restart, BaseInv, Types, JobType, Kinds
<1>12. AttachType' BY DEF Restart, AttachType
<1>13. restarts' \in 0..MaxRestarts BY BoundsAssumption DEF Restart, BaseInv, Types
<1> QED BY <1>5, <1>6, <1>7, <1>8, <1>9, <1>10, <1>11, <1>12, <1>13, Kept
        DEF Restart, BaseInv, Types

LEMMA BaseInit == Init => BaseInv
BY TreeFacts, InitTypes DEF BaseInv

LEMMA WorldStays == Next => UNCHANGED world
<1>1. ASSUME NEW t \in Threads, Step(t) PROVE UNCHANGED world
  <2>1. ASSUME NEW o, AcceptOrphan(t, o) PROVE UNCHANGED world BY <2>1 DEF AcceptOrphan
  <2>2. ASSUME NoMoreOrphans(t) \/ NothingToDo(t) PROVE UNCHANGED world
    BY <2>2 DEF NoMoreOrphans, NothingToDo
  <2>3. ASSUME NEW top, MarkDescendants(t, top) \/ ChooseChain(t, top) PROVE UNCHANGED world
    BY <2>3 DEF MarkDescendants, ChooseChain
  <2>4. ASSUME NEW new, Connected(t, new) \/ DisconnectFails(t, new) PROVE UNCHANGED world
    BY <2>4 DEF Connected, DisconnectFails
  <2>5. ASSUME NEW new, NEW x, InvalidBlockFound(t, new, x) PROVE UNCHANGED world
    BY <2>5 DEF InvalidBlockFound
  <2>6. ASSUME Flush(t) \/ NewBestBlock(t) \/ AcceptPendingSyncCheckpoint(t)
        PROVE  UNCHANGED world
    BY <2>6 DEF Flush, NewBestBlock, AcceptPendingSyncCheckpoint
  <2> QED BY <1>1, <2>1, <2>2, <2>3, <2>4, <2>5, <2>6 DEF Step
<1>2. ASSUME NEW t, NEW b, ProcessBlock(t, b) \/ ShuntOrphan(t, b) PROVE UNCHANGED world
  BY <1>2 DEF ProcessBlock, ShuntOrphan
<1>3. ASSUME NEW t, NEW c, ProcessSyncCheckpoint(t, c) \/ Restart(t, c) PROVE UNCHANGED world
  BY <1>3 DEF ProcessSyncCheckpoint, Restart
<1> QED BY <1>1, <1>2, <1>3 DEF Next

LEMMA BaseNext == BaseInv /\ [Next]_vars => BaseInv'
<1> SUFFICES ASSUME BaseInv, [Next]_vars PROVE BaseInv' OBVIOUS
<1>1. CASE UNCHANGED vars
  BY <1>1, Kept DEF vars, BaseInv, Types, threadVars
<1>2. ASSUME NEW t \in Threads, Step(t) PROVE Types'
  BY <1>2, AcceptOrphanType, NoMoreOrphansType, NothingToDoType, MarkDescendantsType,
     ChooseChainType, ConnectedType, DisconnectFailsType, InvalidBlockFoundType, FlushType,
     NewBestBlockType, AcceptPendingType
  DEF Step
<1>3. Net \subseteq Threads BY DEF Threads
<1>4. CASE Next
  <2>1. Types'
    BY <1>2, <1>3, <1>4, ProcessBlockType, ShuntOrphanType, ProcessSyncCheckpointType, RestartType
    DEF Next
  <2> QED BY <1>4, <2>1, WorldStays, Kept DEF BaseInv
<1> QED BY <1>1, <1>4

(* TypeCorrect: the state of the chain keeps its types, in every handler   *)
(* and after every crash, with any number of threads.                      *)
THEOREM TypeCorrect == Spec => []TypeOK
<1>1. BaseInv => TypeOK
  BY DEF BaseInv, Types, TypeOK, IndexType, OrphanType, TipType, CoinType, CheckType, LockType,
         JobType, AttachType, ViewType
<1> QED BY BaseInit, BaseNext, <1>1, PTL DEF Spec

-----------------------------------------------------------------------------
(* A step of one thread leaves what the others do alone. *)
Same(u) == /\ pc'[u] = pc[u] /\ job'[u] = job[u] /\ attach'[u] = attach[u] /\ view'[u] = view[u]

LEMMA GotoSame ==
    ASSUME Types, NEW t \in Threads, NEW place \in Places, Goto(t, place)
    PROVE  pc'[t] = place /\ \A u \in Threads \ {t} : pc'[u] = pc[u]
BY DEF Types, LockType, Goto

LEMMA ContinueLeaves ==
    ASSUME Types, NEW t \in Threads, NEW ok, Continue(t, ok)
    PROVE  /\ pc'[t] \in {"idle", "down", "pending", "orphans"}
           /\ \A u \in Threads \ {t} : pc'[u] = pc[u]
<1>1. \E place \in {"idle", "down", "pending", "orphans"} : Goto(t, place)
  BY DEF Continue, Return, Accepted
<1> QED BY <1>1, GotoSame DEF Places

LEMMA AddSame ==
    ASSUME Types, NEW t \in Threads, NEW b, AddToBlockIndex(t, b)
    PROVE  /\ pc'[t] = "connect" /\ job'[t] = [kind |-> "block", ok |-> TRUE]
           /\ \A u \in Threads \ {t} : pc'[u] = pc[u] /\ job'[u] = job[u]
BY DEF AddToBlockIndex, Goto, Types, LockType, JobType

LEMMA SwitchSame ==
    ASSUME Types, NEW t \in Threads, NEW c, NEW kind, SwitchTo(t, c, kind)
    PROVE  /\ pc'[t] = "set" /\ job'[t] = [kind |-> kind, ok |-> TRUE] /\ attach'[t] = {c}
           /\ \A u \in Threads \ {t} :
                 pc'[u] = pc[u] /\ job'[u] = job[u] /\ attach'[u] = attach[u]
BY DEF SwitchTo, Goto, Types, LockType, JobType, AttachType

LEMMA StepSame ==
    ASSUME Types, NEW t \in Threads, Step(t), NEW u \in Threads \ {t} PROVE Same(u)
<1>1. CASE \E o \in Blocks : AcceptOrphan(t, o) BY <1>1, AddSame DEF AcceptOrphan, Same
<1>2. CASE NoMoreOrphans(t)
  BY <1>2, GotoSame DEF NoMoreOrphans, Return, Same, Places
<1>3. CASE NothingToDo(t) BY <1>3, ContinueLeaves DEF NothingToDo, Same
<1>4. CASE \E top \in All : MarkDescendants(t, top) BY <1>4 DEF MarkDescendants, threadVars, Same
<1>5. ASSUME NEW top \in All, ChooseChain(t, top) PROVE Same(u)
  <2>1. pc'[u] = pc[u] BY <1>5, ContinueLeaves, GotoSame DEF ChooseChain, Places
  <2>2. attach'[u] = attach[u] BY <1>5 DEF ChooseChain, Types, AttachType
  <2> QED BY <1>5, <2>1, <2>2 DEF ChooseChain, Same
<1>6. ASSUME NEW new \in All, Connected(t, new) PROVE Same(u)
  <2>1. pc'[u] = pc[u] BY <1>6, GotoSame DEF Connected, Places
  <2>2. view'[u] = view[u] BY <1>6 DEF Connected, Types, ViewType
  <2> QED BY <1>6, <2>1, <2>2 DEF Connected, Same
<1>7. ASSUME NEW new \in All, DisconnectFails(t, new) PROVE Same(u)
  <2>1. pc'[u] = pc[u] BY <1>7, ContinueLeaves DEF DisconnectFails
  <2>2. attach'[u] = attach[u] BY <1>7 DEF DisconnectFails, Types, AttachType
  <2> QED BY <1>7, <2>1, <2>2 DEF DisconnectFails, Same
<1>8. ASSUME NEW new \in All, NEW x \in All, InvalidBlockFound(t, new, x) PROVE Same(u)
  <2>1. pc'[u] = pc[u] BY <1>8, ContinueLeaves, GotoSame DEF InvalidBlockFound, Places
  <2>2. attach'[u] = attach[u] BY <1>8 DEF InvalidBlockFound, Types, AttachType
  <2>3. job'[u] = job[u] BY <1>8 DEF InvalidBlockFound, Types, JobType
  <2> QED BY <1>8, <2>1, <2>2, <2>3 DEF InvalidBlockFound, Same
<1>9. CASE Flush(t) BY <1>9, GotoSame DEF Flush, Same, Places
<1>10. CASE NewBestBlock(t)
  <2>1. pc'[u] = pc[u] BY <1>10, ContinueLeaves, GotoSame DEF NewBestBlock, Places
  <2>2. attach'[u] = attach[u] BY <1>10 DEF NewBestBlock, Types, AttachType
  <2> QED BY <1>10, <2>1, <2>2 DEF NewBestBlock, Same
<1>11. CASE AcceptPendingSyncCheckpoint(t)
  BY <1>11, SwitchSame, GotoSame DEF AcceptPendingSyncCheckpoint, Accepted, Same, Places
<1> QED BY <1>1, <1>2, <1>3, <1>4, <1>5, <1>6, <1>7, <1>8, <1>9, <1>10, <1>11 DEF Step

-----------------------------------------------------------------------------
(* A thread that sets the chain for a checkpoint is alone in it, and until *)
(* it fails it works on exactly one block, above the present checkpoint.   *)
Setting(t) == /\ pc[t] \in {"connect", "set", "flush", "tip"}
              /\ job[t].kind \in {"checkpoint", "pending"}
Above(t) == /\ pc[t] # "connect"
            /\ \E c \in Blocks : /\ attach[t] = {c} /\ hashSyncCheckpoint \in ancestors[c]
                                 /\ pc[t] \in {"flush", "tip"} => view[t].new = c
CheckpointInv ==
    /\ \A t, u \in Threads : Setting(t) /\ Setting(u) => t = u
    /\ \A t \in Threads : Setting(t) /\ job[t].ok => Above(t)

Advances == hashSyncCheckpoint \in ancestors[hashSyncCheckpoint']

(* The thread that moves goes on setting the chain, or no longer does. *)
LEMMA SettingKept ==
    ASSUME CheckpointInv, NEW t \in Threads, \A u \in Threads \ {t} : Same(u),
           UNCHANGED <<ancestors, hashSyncCheckpoint>>,
           Setting(t)' => Setting(t), Setting(t)' /\ job'[t].ok => Above(t)'
    PROVE  CheckpointInv'
<1>1. ASSUME NEW u \in Threads PROVE Setting(u)' => Setting(u) BY DEF Setting, Same
<1>2. ASSUME NEW u \in Threads, Setting(u)', job'[u].ok PROVE Above(u)'
  <2>1. CASE u = t BY <1>2, <2>1
  <2>2. CASE u # t
    <3>1. Above(u) BY <1>1, <1>2, <2>2 DEF CheckpointInv, Same
    <3> QED BY <2>2, <3>1 DEF Above, Same
  <2> QED BY <2>1, <2>2
<1> QED BY <1>1, <1>2 DEF CheckpointInv

(* No other thread sets the chain: whatever is written is harmless. *)
LEMMA SettingAlone ==
    ASSUME NEW t \in Threads, \A u \in Threads \ {t} : Same(u) /\ ~Setting(u),
           Setting(t)' /\ job'[t].ok => Above(t)'
    PROVE  CheckpointInv'
<1>1. ASSUME NEW u \in Threads \ {t} PROVE ~Setting(u)' BY DEF Setting, Same
<1> QED BY <1>1 DEF CheckpointInv

LEMMA FreeIsNotSetting == CheckpointFree <=> \A t \in Threads : ~Setting(t)
BY DEF CheckpointFree, Setting

LEMMA SelfAncestor == BaseInv => hashSyncCheckpoint \in ancestors[hashSyncCheckpoint]
BY DEF BaseInv, WorldInv, Types, CheckType

LEMMA CheckpointStep ==
    ASSUME BaseInv, CheckpointInv, NEW t \in Threads, Step(t)
    PROVE  CheckpointInv' /\ Advances
<1>0. Types /\ \A u \in Threads \ {t} : Same(u) BY StepSame DEF BaseInv
<1>a. UNCHANGED <<ancestors, hashSyncCheckpoint>> => Advances BY SelfAncestor DEF Advances
<1>b. ASSUME UNCHANGED <<ancestors, hashSyncCheckpoint>>, ~Setting(t)'
      PROVE  CheckpointInv' /\ Advances
  BY <1>0, <1>a, <1>b, SettingKept
<1>1. CASE \E o \in Blocks : AcceptOrphan(t, o)
  BY <1>0, <1>1, <1>b, AddSame DEF AcceptOrphan, Setting, world, checkVars
<1>2. CASE NoMoreOrphans(t)
  BY <1>0, <1>2, <1>b, GotoSame DEF NoMoreOrphans, Return, Setting, world, checkVars, Places
<1>3. CASE NothingToDo(t)
  BY <1>0, <1>3, <1>b, ContinueLeaves DEF NothingToDo, Setting, world, checkVars
<1>4. ASSUME NEW top \in All, MarkDescendants(t, top) PROVE CheckpointInv' /\ Advances
  BY <1>0, <1>4, <1>a, SettingKept
  DEF MarkDescendants, Setting, Above, CheckpointInv, world, checkVars, threadVars
<1>5. ASSUME NEW top \in All, ChooseChain(t, top) PROVE CheckpointInv' /\ Advances
  <2>1. UNCHANGED <<ancestors, hashSyncCheckpoint, job>> /\ pc[t] = "connect"
    BY <1>5 DEF ChooseChain, world, checkVars
  <2>2. pc'[t] = "set" \/ ~Setting(t)'
    BY <1>0, <1>5, ContinueLeaves, GotoSame DEF ChooseChain, Setting, Places
  <2>3. Setting(t) => ~job[t].ok BY <2>1 DEF CheckpointInv, Above
  <2> QED BY <1>0, <1>a, <1>b, <2>1, <2>2, <2>3, SettingKept DEF Setting
<1>6. ASSUME NEW new \in All, Connected(t, new) PROVE CheckpointInv' /\ Advances
  <2>1. /\ UNCHANGED <<ancestors, hashSyncCheckpoint, job, attach>>
        /\ pc[t] = "set" /\ pc'[t] = "flush" /\ view'[t].new = new /\ new \in attach[t]
    BY <1>0, <1>6, GotoSame
    DEF Connected, Switch, world, checkVars, Places, Types, ViewType
  <2>2. Setting(t) /\ job[t].ok => Above(t)'
    BY <2>1 DEF CheckpointInv, Above
  <2> QED BY <1>0, <1>a, <2>1, <2>2, SettingKept DEF Setting
<1>7. ASSUME NEW new \in All, DisconnectFails(t, new) PROVE CheckpointInv' /\ Advances
  BY <1>0, <1>7, <1>b, ContinueLeaves DEF DisconnectFails, Setting, world, checkVars
<1>8. ASSUME NEW new \in All, NEW x \in All, InvalidBlockFound(t, new, x)
      PROVE  CheckpointInv' /\ Advances
  <2>1. UNCHANGED <<ancestors, hashSyncCheckpoint>> /\ pc[t] = "set"
    BY <1>8 DEF InvalidBlockFound, world, checkVars
  <2>2. CASE pnext[x] # None
    <3>1. job' = [job EXCEPT ![t].ok = FALSE] BY <1>8, <2>2 DEF InvalidBlockFound
    <3>2. job'[t].kind = job[t].kind /\ ~job'[t].ok BY <1>0, <3>1 DEF Types, JobType
    <3> QED BY <1>0, <1>a, <2>1, <3>2, SettingKept DEF Setting
  <2>3. CASE pnext[x] = None
    BY <1>0, <1>8, <1>b, <2>1, <2>3, ContinueLeaves DEF InvalidBlockFound, Setting
  <2> QED BY <2>2, <2>3
<1>9. CASE Flush(t)
  <2>1. /\ UNCHANGED <<ancestors, hashSyncCheckpoint, job, attach, view>>
        /\ pc[t] = "flush" /\ pc'[t] = "tip"
    BY <1>0, <1>9, GotoSame DEF Flush, world, checkVars, Places
  <2>2. Setting(t) /\ job[t].ok => Above(t)' BY <2>1 DEF CheckpointInv, Above
  <2> QED BY <1>0, <1>a, <2>1, <2>2, SettingKept DEF Setting
<1>10. CASE NewBestBlock(t)
  <2>1. UNCHANGED <<ancestors, job>> /\ pc[t] = "tip" BY <1>10 DEF NewBestBlock, world
  <2>2. CASE job[t].kind \in {"checkpoint", "pending"} /\ job[t].ok
    <3>1. Setting(t) /\ Above(t) BY <2>1, <2>2 DEF Setting, CheckpointInv
    <3>2. /\ hashSyncCheckpoint' = view[t].new
          /\ hashSyncCheckpoint \in ancestors[view[t].new]
          /\ attach[t] \ {view[t].new} = {}
      BY <1>10, <2>1, <2>2, <3>1 DEF NewBestBlock, WriteSyncCheckpoint, Above
    <3>3. ~Setting(t)' BY <1>0, <1>10, <3>2, ContinueLeaves DEF NewBestBlock, Setting
    <3>4. \A u \in Threads \ {t} : ~Setting(u) BY <3>1 DEF CheckpointInv
    <3> QED BY <1>0, <3>2, <3>3, <3>4, SettingAlone DEF Advances
  <2>3. CASE ~(job[t].kind \in {"checkpoint", "pending"} /\ job[t].ok)
    <3>1. UNCHANGED hashSyncCheckpoint BY <1>10, <2>3 DEF NewBestBlock, checkVars
    <3> QED BY <1>0, <1>a, <2>1, <2>3, <3>1, SettingKept DEF Setting
  <2> QED BY <2>2, <2>3
<1>11. CASE AcceptPendingSyncCheckpoint(t)
  <2> DEFINE c == hashPendingCheckpoint
  <2>1. UNCHANGED ancestors /\ \A u \in Threads : ~Setting(u)
    BY <1>11, FreeIsNotSetting DEF AcceptPendingSyncCheckpoint, world
  <2>2. CASE Accepted(t)
    <3>1. ~Setting(t)' BY <1>0, <2>2, GotoSame DEF Accepted, Setting, Places
    <3>2. pc'[t] = "orphans" BY <1>0, <2>2, GotoSame DEF Accepted, Places
    <3>3. UNCHANGED hashSyncCheckpoint \/ (ValidateSyncCheckpoint(c) /\ hashSyncCheckpoint' = c)
      BY <1>0, <1>11, <3>2, SwitchSame
      DEF AcceptPendingSyncCheckpoint, WriteSyncCheckpoint, checkVars
    <3>4. Advances BY <1>a, <2>1, <3>3 DEF ValidateSyncCheckpoint, Advances
    <3> QED BY <1>0, <2>1, <3>1, <3>4, SettingAlone
  <2>3. CASE c \in mapBlockIndex /\ ValidateSyncCheckpoint(c) /\ SwitchTo(t, c, "pending")
    <3>1. c \in Blocks BY <1>0, <2>3, BlockFacts DEF Types, IndexType, CheckType
    <3>2. UNCHANGED hashSyncCheckpoint BY <2>3 DEF SwitchTo, checkVars
    <3>3. Above(t)'
      BY <1>0, <2>1, <2>3, <3>1, <3>2, SwitchSame DEF Above, ValidateSyncCheckpoint
    <3> QED BY <1>0, <1>a, <2>1, <3>2, <3>3, SettingAlone
  <2> QED BY <1>11, <2>2, <2>3 DEF AcceptPendingSyncCheckpoint
<1> QED BY <1>1, <1>2, <1>3, <1>4, <1>5, <1>6, <1>7, <1>8, <1>9, <1>10, <1>11 DEF Step

LEMMA CheckpointNext ==
    ASSUME BaseInv, CheckpointInv, [Next]_vars PROVE CheckpointInv' /\ Advances
<1>0. Types BY DEF BaseInv
<1>a. UNCHANGED <<ancestors, hashSyncCheckpoint>> => Advances BY SelfAncestor DEF Advances
<1>1. CASE UNCHANGED vars
  BY <1>a, <1>1 DEF vars, world, checkVars, threadVars, CheckpointInv, Setting, Above
<1>2. ASSUME NEW t \in Threads, NEW b \in Blocks, ProcessBlock(t, b)
      PROVE  CheckpointInv' /\ Advances
  <2>1. ~Setting(t)' /\ \A u \in Threads \ {t} : Same(u)
    BY <1>0, <1>2, AddSame DEF ProcessBlock, Setting, Same
  <2> QED BY <1>2, <1>a, <2>1, SettingKept DEF ProcessBlock, world, checkVars
<1>3. ASSUME NEW t \in Threads, NEW b \in Blocks, ShuntOrphan(t, b)
      PROVE  CheckpointInv' /\ Advances
  BY <1>3, <1>a
  DEF ShuntOrphan, world, checkVars, threadVars, CheckpointInv, Setting, Above
<1>4. ASSUME NEW t \in Threads, NEW c \in Checkpoints, ProcessSyncCheckpoint(t, c)
      PROVE  CheckpointInv' /\ Advances
  <2>1. UNCHANGED ancestors /\ \A u \in Threads : ~Setting(u)
    BY <1>4, FreeIsNotSetting DEF ProcessSyncCheckpoint, world
  <2>2. CASE UNCHANGED threadVars
    <3>1. UNCHANGED hashSyncCheckpoint \/ (ValidateSyncCheckpoint(c) /\ hashSyncCheckpoint' = c)
      BY <1>4 DEF ProcessSyncCheckpoint, SwitchTo, WriteSyncCheckpoint, checkVars
    <3>2. Advances BY <1>a, <2>1, <3>1 DEF ValidateSyncCheckpoint, Advances
    <3>3. \A u \in Threads : ~Setting(u)' BY <2>1, <2>2 DEF threadVars, Setting
    <3> QED BY <3>2, <3>3 DEF CheckpointInv
  <2>3. CASE ValidateSyncCheckpoint(c) /\ SwitchTo(t, c, "checkpoint") /\ UNCHANGED view
    <3>1. c \in Blocks BY CheckpointsAssumption
    <3>2. UNCHANGED hashSyncCheckpoint BY <2>3 DEF SwitchTo, checkVars
    <3>3. Above(t)'
      BY <1>0, <2>1, <2>3, <3>1, <3>2, SwitchSame DEF Above, ValidateSyncCheckpoint
    <3>4. \A u \in Threads \ {t} : Same(u) BY <1>0, <2>3, SwitchSame DEF Same
    <3> QED BY <1>a, <2>1, <3>2, <3>3, <3>4, SettingAlone
  <2> QED BY <1>4, <2>2, <2>3 DEF ProcessSyncCheckpoint
<1>5. ASSUME NEW t \in Threads, NEW clean \in BOOLEAN, Restart(t, clean)
      PROVE  CheckpointInv' /\ Advances
  <2>1. ASSUME NEW u \in Threads PROVE ~Setting(u)'
    BY <1>0, <1>5 DEF Restart, Setting, Types, JobType
  <2> QED BY <1>5, <1>a, <2>1 DEF Restart, CheckpointInv, world
<1>6. Net \subseteq Threads BY DEF Threads
<1> QED BY <1>1, <1>2, <1>3, <1>4, <1>5, <1>6, CheckpointStep DEF Next

(* CheckpointsOnlyAdvance: a checkpoint is only replaced by one of its     *)
(* descendants, with any number of threads under cs_main and without it.   *)
THEOREM CheckpointsOnlyAdvance == Spec => CheckpointsAdvance
<1>1. Init => CheckpointInv BY DEF Init, CheckpointInv, Setting
<1>2. BaseInv /\ CheckpointInv /\ [Next]_vars
         => CheckpointInv' /\ [(hashSyncCheckpoint \in ancestors[hashSyncCheckpoint'])]_vars
  BY CheckpointNext DEF Advances
<1> QED BY BaseInit, BaseNext, <1>1, <1>2, PTL DEF Spec, CheckpointsAdvance

-----------------------------------------------------------------------------
(* If every handler runs under cs_main, at most one thread is in a handler *)
(* and the coins, the links and the marks are right.                       *)
LockInv == Pool = {} /\ \A t \in Threads : pc[t] # "idle" => csMain = t

CoinInv == /\ coins = ancestors[coinsBest] \ {Genesis} /\ coins \cap bad = {}
           /\ diskCoins = ancestors[diskBest] \ {Genesis} /\ diskCoins \cap bad = {}

(* What SetBestChain has in hand: the way from the old best block to the   *)
(* new one, in the cache, in the coins and then in the links.              *)
ViewInv ==
    \A t \in Threads :
        /\ pc[t] = "flush" => /\ view[t].disconnect = VDisconnect(view[t].new)
                              /\ view[t].connect = VConnect(view[t].new)
                              /\ view[t].connect \cap bad = {}
        /\ pc[t] = "tip" =>
              /\ view[t].new = coinsBest
              /\ view[t].disconnect = ancestors[pindexBest] \ ancestors[coinsBest]
              /\ view[t].connect = ancestors[coinsBest] \ ancestors[pindexBest]
TipInv == (\A t \in Threads : pc[t] # "tip") => pindexBest = coinsBest
LinkInv == \A x \in All : pnext[x] # None <=> x \in ancestors[pindexBest] \ {pindexBest}

ChainInv == CoinInv /\ ViewInv /\ TipInv /\ LinkInv

LEMMA LockContinue ==
    ASSUME Types, LockInv, NEW t \in Threads, pc[t] # "idle", NEW ok, Continue(t, ok)
    PROVE  LockInv'
<1>1. /\ csMain = t /\ \A u \in Threads \ {t} : pc[u] = "idle" /\ pc'[u] = pc[u]
  BY ContinueLeaves DEF LockInv
<1>2. CASE Return(t)
  <2>1. pc'[t] = "idle" BY <1>2, GotoSame DEF Return, Places
  <2> QED BY <1>1, <2>1 DEF LockInv
<1>3. CASE UNCHANGED csMain BY <1>1, <1>3 DEF LockInv
<1> QED BY <1>2, <1>3 DEF Continue, Accepted

LEMMA LockStep ==
    ASSUME Types, LockInv, NEW t \in Threads, Step(t) PROVE LockInv' /\ pc[t] # "idle"
<1>0. pc[t] # "idle"
  BY DEF Step, AcceptOrphan, NoMoreOrphans, NothingToDo, MarkDescendants, ChooseChain,
         Connected, DisconnectFails, InvalidBlockFound, Flush, NewBestBlock,
         AcceptPendingSyncCheckpoint
<1>1. csMain = t /\ \A u \in Threads \ {t} : pc[u] = "idle" /\ pc'[u] = pc[u]
  BY <1>0, StepSame DEF LockInv, Same
<1>2. CASE UNCHANGED csMain BY <1>0, <1>1, <1>2 DEF LockInv
<1>3. CASE \E ok : Continue(t, ok) BY <1>0, <1>3, LockContinue
<1>4. CASE Return(t)
  <2>1. pc'[t] = "idle" BY <1>4, GotoSame DEF Return, Places
  <2> QED BY <1>0, <1>1, <2>1 DEF LockInv
<1>5. UNCHANGED csMain \/ (\E ok : Continue(t, ok)) \/ Return(t)
  <2>1. CASE \E o \in Blocks : AcceptOrphan(t, o) BY <2>1 DEF AcceptOrphan
  <2>2. CASE NoMoreOrphans(t) \/ NothingToDo(t) BY <2>2 DEF NoMoreOrphans, NothingToDo
  <2>3. ASSUME NEW top, MarkDescendants(t, top) \/ ChooseChain(t, top)
        PROVE  UNCHANGED csMain \/ (\E ok : Continue(t, ok))
    BY <2>3 DEF MarkDescendants, ChooseChain, threadVars
  <2>4. ASSUME NEW new, Connected(t, new) \/ DisconnectFails(t, new)
        PROVE  UNCHANGED csMain \/ (\E ok : Continue(t, ok))
    BY <2>4 DEF Connected, DisconnectFails
  <2>5. ASSUME NEW new, NEW x, InvalidBlockFound(t, new, x)
        PROVE  UNCHANGED csMain \/ (\E ok : Continue(t, ok))
    BY <2>5 DEF InvalidBlockFound
  <2>6. CASE Flush(t) BY <2>6 DEF Flush
  <2>7. CASE NewBestBlock(t) BY <2>7 DEF NewBestBlock
  <2>8. CASE AcceptPendingSyncCheckpoint(t) BY <2>8 DEF AcceptPendingSyncCheckpoint, Accepted
  <2> QED BY <2>1, <2>2, <2>3, <2>4, <2>5, <2>6, <2>7, <2>8 DEF Step
<1> QED BY <1>0, <1>2, <1>3, <1>4, <1>5

LEMMA LockNext == ASSUME Types, LockInv, [Next]_vars PROVE LockInv'
<1>1. CASE UNCHANGED vars BY <1>1 DEF vars, threadVars, LockInv
<1>2. ASSUME NEW t \in Threads, Ready(t) PROVE \A u \in Threads : pc[u] = "idle"
  BY <1>2, ThreadsAssumption DEF Ready, LockInv
<1>3. ASSUME NEW t \in Threads, Ready(t), Take(t), \A u \in Threads \ {t} : pc'[u] = pc[u]
      PROVE  LockInv'
  BY <1>2, <1>3 DEF LockInv, Take
<1>4. ASSUME NEW t \in Threads, NEW b \in Blocks, ProcessBlock(t, b) PROVE LockInv'
  BY <1>3, <1>4, AddSame DEF ProcessBlock
<1>5. ASSUME NEW t \in Threads, NEW b \in Blocks, ShuntOrphan(t, b) PROVE LockInv'
  BY <1>5 DEF ShuntOrphan, threadVars, LockInv
<1>6. ASSUME NEW t \in Threads, NEW c \in Checkpoints, ProcessSyncCheckpoint(t, c)
      PROVE  LockInv'
  <2>1. CASE UNCHANGED threadVars BY <2>1 DEF threadVars, LockInv
  <2>2. CASE SwitchTo(t, c, "checkpoint") /\ Take(t)
    BY <1>3, <1>6, <2>2, SwitchSame DEF ProcessSyncCheckpoint
  <2> QED BY <1>6, <2>1, <2>2 DEF ProcessSyncCheckpoint
<1>7. ASSUME NEW t \in Threads, NEW clean \in BOOLEAN, Restart(t, clean) PROVE LockInv'
  BY <1>7 DEF Restart, LockInv
<1>8. Net \subseteq Threads BY DEF Threads
<1> QED BY <1>1, <1>4, <1>5, <1>6, <1>7, <1>8, LockStep DEF Next

(* A step that leaves the coins and the links alone, and is not about to   *)
(* write either, keeps what is said of them.                               *)
LEMMA QuietStep ==
    ASSUME ChainInv, NEW t \in Threads, \A u \in Threads \ {t} : Same(u),
           UNCHANGED <<world, tipVars, coinVars>>, pc[t] # "tip", pc'[t] \notin {"flush", "tip"}
    PROVE  ChainInv'
<1>1. UNCHANGED <<ancestors, bad, pindexBest, pnext, coins, coinsBest, diskCoins, diskBest>>
  BY DEF world, tipVars, coinVars
<1>2. CoinInv' /\ LinkInv' BY <1>1 DEF ChainInv, CoinInv, LinkInv
<1>3. ViewInv' BY <1>1 DEF ChainInv, ViewInv, Same, VDisconnect, VConnect
<1>4. TipInv' BY <1>1 DEF ChainInv, TipInv, Same
<1> QED BY <1>2, <1>3, <1>4 DEF ChainInv

(* Disconnecting the one chain and connecting the other leaves the coins   *)
(* of the other.                                                           *)
LEMMA FlushStep ==
    ASSUME BaseInv, LockInv, ChainInv, NEW t \in Threads, Flush(t), \A u \in Threads \ {t} : Same(u)
    PROVE  ChainInv'
<1> DEFINE new == view[t].new
<1>1. /\ pc[t] = "flush" /\ pc'[t] = "tip" /\ coinsBest' = new
      /\ coins' = (coins \ view[t].disconnect) \cup view[t].connect
      /\ \/ diskCoins' = coins' /\ diskBest' = coinsBest'
         \/ UNCHANGED <<diskCoins, diskBest>>
      /\ UNCHANGED <<ancestors, bad, pindexBest, pnext, view>>
  BY GotoSame DEF Flush, Places, world, tipVars, BaseInv
<1>2. csMain = t /\ \A u \in Threads \ {t} : pc[u] = "idle" /\ pc'[u] = "idle"
  BY <1>1 DEF LockInv, Same
<1>3. pindexBest = coinsBest BY <1>1, <1>2 DEF ChainInv, TipInv
<1>4. /\ view[t].disconnect = ancestors[coinsBest] \ ancestors[new]
      /\ view[t].connect = ancestors[new] \ ancestors[coinsBest]
      /\ view[t].connect \cap bad = {}
  BY <1>1 DEF ChainInv, ViewInv, VDisconnect, VConnect
<1>5. Genesis \in ancestors[coinsBest] BY DEF BaseInv, WorldInv, Types, CoinType
<1>6. CoinInv'
  <2>1. coins = ancestors[coinsBest] \ {Genesis} /\ coins \cap bad = {}
    BY DEF ChainInv, CoinInv
  <2>2. coins' = ancestors[new] \ {Genesis} BY <1>1, <1>4, <1>5, <2>1
  <2>3. coins' \cap bad = {} BY <1>1, <1>4, <2>1
  <2>4. coins' = ancestors'[coinsBest'] \ {Genesis} BY <1>1, <2>2
  <2>5. diskCoins' = ancestors'[diskBest'] \ {Genesis} /\ diskCoins' \cap bad' = {}
    BY <1>1, <2>3, <2>4 DEF ChainInv, CoinInv
  <2> QED BY <1>1, <2>3, <2>4, <2>5 DEF CoinInv
<1>7. ViewInv' BY <1>1, <1>2, <1>3, <1>4 DEF ViewInv
<1>8. TipInv' BY <1>1 DEF TipInv
<1>9. LinkInv' BY <1>1 DEF ChainInv, LinkInv
<1> QED BY <1>6, <1>7, <1>8, <1>9 DEF ChainInv

(* The links cut and made lead along the new chain and nowhere else.       *)
LEMMA LinkStep ==
    ASSUME BaseInv, NEW p \in All, NEW n \in All, NEW x \in All,
           pnext[x] # None <=> x \in ancestors[p] \ {p}
    PROVE  x \in ancestors[n] \ {n} <=>
               \/ \E c \in ancestors[n] \ ancestors[p] : pprev[c] = x
               \/ /\ ~\E d \in ancestors[p] \ ancestors[n] : pprev[d] = x
                  /\ pnext[x] # None
<1>1. /\ ancestors[n] \subseteq All /\ ancestors[p] \subseteq All
      /\ Genesis \in ancestors[n] /\ Genesis \in ancestors[p]
      /\ ancestors[n] \ ancestors[p] \subseteq Blocks
      /\ ancestors[p] \ ancestors[n] \subseteq Blocks
  BY BlockFacts DEF BaseInv, WorldInv
<1>2. ASSUME NEW b \in All, NEW c \in ancestors[b] \cap Blocks
      PROVE  pprev[c] \in ancestors[b] \ {b} /\ pprev[c] \in All
  <2>1. pprev[c] \in ancestors[b] /\ pprev[c] \in All BY DEF BaseInv, WorldInv, BranchInv
  <2>2. pprev[c] < c /\ c <= b BY DEF BaseInv, WorldInv
  <2>3. pprev[c] \in Nat /\ c \in Nat /\ b \in Nat BY <2>1, BlockFacts
  <2> QED BY <2>1, <2>2, <2>3
<1>3. ASSUME NEW c \in ancestors[n] \ ancestors[p], pprev[c] = x PROVE x \in ancestors[n] \ {n}
  BY <1>1, <1>2, <1>3
<1>4. ASSUME ~\E d \in ancestors[p] \ ancestors[n] : pprev[d] = x, pnext[x] # None
      PROVE  x \in ancestors[n] \ {n}
  <2>1. PICK c \in ancestors[p] \cap Blocks : pprev[c] = x BY <1>4 DEF BaseInv, BranchInv
  <2>2. c \in ancestors[n] BY <1>4, <2>1
  <2> QED BY <1>2, <2>1, <2>2
<1>5. ASSUME x \in ancestors[n] \ {n}, \A c \in ancestors[n] \ ancestors[p] : pprev[c] # x
      PROVE  /\ ~\E d \in ancestors[p] \ ancestors[n] : pprev[d] = x
             /\ pnext[x] # None
  <2>1. PICK c \in ancestors[n] \cap Blocks : pprev[c] = x BY <1>5 DEF BaseInv, BranchInv
  <2>2. c \in ancestors[p] \cap Blocks BY <1>5, <2>1
  <2>3. pnext[x] # None BY <1>2, <2>1, <2>2
  <2>4. ASSUME NEW d \in ancestors[p] \ ancestors[n], pprev[d] = x PROVE FALSE
    <3>1. d \in ancestors[p] \cap Blocks BY <1>1
    <3>2. c = d BY <2>1, <2>2, <2>4, <3>1 DEF BaseInv, BranchInv
    <3> QED BY <2>1, <3>2
  <2> QED BY <2>3, <2>4
<1> QED BY <1>3, <1>4, <1>5

LEMMA NewBestStep ==
    ASSUME BaseInv, LockInv, ChainInv, NEW t \in Threads, NewBestBlock(t),
           \A u \in Threads \ {t} : Same(u)
    PROVE  ChainInv'
<1> DEFINE n == view[t].new
           cut == {pprev[d] : d \in view[t].disconnect}
<1>1. /\ pc[t] = "tip" /\ pindexBest' = n /\ pnext' = Linked(t)
      /\ UNCHANGED <<ancestors, bad, coins, coinsBest, diskCoins, diskBest, view>>
  BY DEF NewBestBlock, world, coinVars
<1>2. csMain = t /\ \A u \in Threads \ {t} : pc[u] = "idle" /\ pc'[u] = "idle"
  BY <1>1 DEF LockInv, Same
<1>3. pc'[t] \notin {"flush", "tip"}
  BY GotoSame, ContinueLeaves DEF NewBestBlock, BaseInv, Places
<1>4. /\ n = coinsBest
      /\ view[t].disconnect = ancestors[pindexBest] \ ancestors[n]
      /\ view[t].connect = ancestors[n] \ ancestors[pindexBest]
  BY <1>1 DEF ChainInv, ViewInv
<1>5. n \in All /\ pindexBest \in All BY DEF BaseInv, Types, ViewType, TipType
<1>6. ASSUME NEW x \in All
      PROVE  pnext'[x] # None <=> \/ \E c \in view[t].connect : pprev[c] = x
                                  \/ x \notin cut /\ pnext[x] # None
  <2> DEFINE next == {c \in view[t].connect : pprev[c] = x}
  <2>1. pnext'[x] = IF next # {} THEN CHOOSE c \in next : TRUE
                    ELSE IF x \in cut THEN None ELSE pnext[x]
    BY <1>1 DEF Linked
  <2>2. CASE next # {}
    <3>1. (CHOOSE c \in next : TRUE) \in next BY <2>2
    <3>2. view[t].connect \subseteq Blocks BY DEF BaseInv, Types, ViewType
    <3>3. pnext'[x] \in Blocks BY <2>1, <2>2, <3>1, <3>2
    <3>4. pnext'[x] # None BY <3>3, BlockFacts
    <3> QED BY <2>2, <3>4
  <2>3. CASE next = {} BY <2>1, <2>3
  <2> QED BY <2>2, <2>3
<1>7. ASSUME NEW x \in All PROVE pnext'[x] # None <=> x \in ancestors[n] \ {n}
  <2>1. pnext[x] # None <=> x \in ancestors[pindexBest] \ {pindexBest}
    BY DEF ChainInv, LinkInv
  <2>2. x \in cut <=> \E d \in ancestors[pindexBest] \ ancestors[n] : pprev[d] = x BY <1>4
  <2>3. x \in ancestors[n] \ {n} <=>
          \/ \E c \in ancestors[n] \ ancestors[pindexBest] : pprev[c] = x
          \/ /\ ~\E d \in ancestors[pindexBest] \ ancestors[n] : pprev[d] = x
             /\ pnext[x] # None
    BY <1>5, <2>1, LinkStep
  <2> HIDE DEF cut, n
  <2> QED BY <1>4, <1>6, <2>2, <2>3
<1>8. LinkInv' BY <1>1, <1>7 DEF LinkInv
<1>9. CoinInv' BY <1>1 DEF ChainInv, CoinInv
<1>10. ViewInv' BY <1>2, <1>3 DEF ViewInv
<1>11. TipInv' BY <1>1, <1>4 DEF TipInv
<1> QED BY <1>8, <1>9, <1>10, <1>11 DEF ChainInv

LEMMA ConnectedStep ==
    ASSUME BaseInv, ChainInv, NEW t \in Threads, NEW new \in All, Connected(t, new),
           \A u \in Threads \ {t} : Same(u)
    PROVE  ChainInv'
<1>1. /\ UNCHANGED <<ancestors, bad, pindexBest, pnext, coins, coinsBest, diskCoins, diskBest>>
      /\ pc[t] = "set" /\ pc'[t] = "flush"
  BY GotoSame DEF Connected, world, tipVars, coinVars, BaseInv, Places
<1>2. /\ view'[t].new = new /\ view'[t].disconnect = VDisconnect(new)
      /\ view'[t].connect = VConnect(new)
  BY DEF Connected, BaseInv, Types, ViewType
<1>3. VConnect(new) \cap bad = {} BY DEF Connected, Refused
<1>4. CoinInv' /\ LinkInv' BY <1>1 DEF ChainInv, CoinInv, LinkInv
<1>5. ASSUME NEW u \in Threads
      PROVE  /\ pc'[u] = "flush" => /\ view'[u].disconnect = VDisconnect(view[u].new)'
                                    /\ view'[u].connect = VConnect(view[u].new)'
                                    /\ view'[u].connect \cap bad' = {}
             /\ pc'[u] = "tip" =>
                  /\ view'[u].new = coinsBest'
                  /\ view'[u].disconnect = ancestors'[pindexBest'] \ ancestors'[coinsBest']
                  /\ view'[u].connect = ancestors'[coinsBest'] \ ancestors'[pindexBest']
  <2>1. CASE u = t BY <1>1, <1>2, <1>3, <2>1 DEF VDisconnect, VConnect
  <2>2. CASE u # t BY <1>1, <2>2 DEF ChainInv, ViewInv, Same, VDisconnect, VConnect
  <2> QED BY <2>1, <2>2
<1>6. ViewInv' BY <1>5 DEF ViewInv
<1>7. TipInv' BY <1>1 DEF ChainInv, TipInv, Same
<1> QED BY <1>4, <1>6, <1>7 DEF ChainInv

LEMMA ChainStep ==
    ASSUME BaseInv, LockInv, ChainInv, NEW t \in Threads, Step(t) PROVE ChainInv'
<1>0. Types /\ \A u \in Threads \ {t} : Same(u) BY StepSame DEF BaseInv
<1>1. CASE Flush(t) BY <1>0, <1>1, FlushStep
<1>2. CASE NewBestBlock(t) BY <1>0, <1>2, NewBestStep
<1>3. CASE \E new \in All : Connected(t, new) BY <1>0, <1>3, ConnectedStep
<1>4. CASE \E o \in Blocks : AcceptOrphan(t, o)
  <2>1. pc[t] = "orphans" /\ pc'[t] \in {"orphans", "connect"} /\ UNCHANGED <<world, tipVars, coinVars>>
    BY <1>0, <1>4, AddSame DEF AcceptOrphan
  <2> QED BY <1>0, <2>1, QuietStep
<1>5. CASE NoMoreOrphans(t)
  <2>1. pc[t] = "orphans" /\ pc'[t] = "idle" /\ UNCHANGED <<world, tipVars, coinVars>>
    BY <1>0, <1>5, GotoSame DEF NoMoreOrphans, Return, Places
  <2> QED BY <1>0, <2>1, QuietStep
<1>6. CASE NothingToDo(t)
  <2>1. /\ pc[t] = "connect" /\ pc'[t] \notin {"flush", "tip"}
        /\ UNCHANGED <<world, tipVars, coinVars>>
    BY <1>0, <1>6, ContinueLeaves DEF NothingToDo
  <2> QED BY <1>0, <2>1, QuietStep
<1>7. ASSUME NEW top \in All, MarkDescendants(t, top) PROVE ChainInv'
  <2>1. pc[t] = "connect" /\ pc'[t] = "connect" /\ UNCHANGED <<world, tipVars, coinVars>>
    BY <1>7 DEF MarkDescendants, threadVars
  <2> QED BY <1>0, <2>1, QuietStep
<1>8. ASSUME NEW top \in All, ChooseChain(t, top) PROVE ChainInv'
  <2>1. /\ pc[t] = "connect" /\ pc'[t] \notin {"flush", "tip"}
        /\ UNCHANGED <<world, tipVars, coinVars>>
    BY <1>0, <1>8, ContinueLeaves, GotoSame DEF ChooseChain, Places
  <2> QED BY <1>0, <2>1, QuietStep
<1>9. ASSUME NEW new \in All, DisconnectFails(t, new) PROVE ChainInv'
  <2>1. /\ pc[t] = "set" /\ pc'[t] \notin {"flush", "tip"}
        /\ UNCHANGED <<world, tipVars, coinVars>>
    BY <1>0, <1>9, ContinueLeaves DEF DisconnectFails
  <2> QED BY <1>0, <2>1, QuietStep
<1>10. ASSUME NEW new \in All, NEW x \in All, InvalidBlockFound(t, new, x) PROVE ChainInv'
  <2>1. /\ pc[t] = "set" /\ pc'[t] \notin {"flush", "tip"}
        /\ UNCHANGED <<world, tipVars, coinVars>>
    BY <1>0, <1>10, ContinueLeaves, GotoSame DEF InvalidBlockFound, Places
  <2> QED BY <1>0, <2>1, QuietStep
<1>11. CASE AcceptPendingSyncCheckpoint(t)
  <2>1. pc'[t] \in {"orphans", "set"}
    BY <1>0, <1>11, GotoSame, SwitchSame DEF AcceptPendingSyncCheckpoint, Accepted, Places
  <2>2. pc[t] = "pending" /\ UNCHANGED <<world, tipVars, coinVars>>
    BY <1>11 DEF AcceptPendingSyncCheckpoint
  <2> QED BY <1>0, <2>1, <2>2, QuietStep
<1> QED BY <1>1, <1>2, <1>3, <1>4, <1>5, <1>6, <1>7, <1>8, <1>9, <1>10, <1>11 DEF Step

(* After a crash the coins are those on disk, and the links are rebuilt.   *)
LEMMA RestartStep ==
    ASSUME BaseInv, ChainInv, NEW t \in Threads, NEW clean \in BOOLEAN, Restart(t, clean)
    PROVE  ChainInv'
<1> DEFINE best == IF clean THEN coinsBest ELSE diskBest
           held == IF clean THEN coins ELSE diskCoins
<1>1. /\ UNCHANGED <<ancestors, bad>> /\ pindexBest' = best
      /\ coins' = held /\ coinsBest' = best /\ diskCoins' = held /\ diskBest' = best
  BY DEF Restart, world
<1>2. CoinInv' BY <1>1 DEF ChainInv, CoinInv
<1>3. ASSUME NEW u \in Threads PROVE pc'[u] \notin {"flush", "tip"} BY DEF Restart
<1>4. ViewInv' /\ TipInv' BY <1>1, <1>3 DEF ViewInv, TipInv
<1>5. best \in All BY DEF BaseInv, Types, CoinType
<1>6. ancestors[best] \ {Genesis} = ancestors[best] \cap Blocks
  BY <1>5, BlockFacts DEF BaseInv, WorldInv
<1>7. ASSUME NEW x \in All PROVE pnext'[x] # None <=> x \in ancestors[best] \ {best}
  <2> DEFINE next == {c \in ancestors[best] \ {Genesis} : pprev[c] = x}
  <2>1. pnext'[x] = IF next # {} THEN CHOOSE c \in next : TRUE ELSE None BY DEF Restart
  <2>2. CASE next # {}
    <3>1. PICK c \in next : TRUE BY <2>2
    <3>2. (CHOOSE d \in next : TRUE) \in next BY <2>2
    <3>3. pnext'[x] \in Blocks BY <1>6, <2>1, <2>2, <3>2
    <3>4. pnext'[x] # None BY <3>3, BlockFacts
    <3>5. c \in ancestors[best] \cap Blocks /\ pprev[c] = x BY <1>6, <3>1
    <3>6. x \in ancestors[best] /\ x < c /\ c <= best
      BY <1>5, <3>5 DEF BaseInv, WorldInv, BranchInv
    <3>7. x \in Nat /\ c \in Nat /\ best \in Nat BY <1>5, <3>5, BlockFacts
    <3>8. x # best BY <3>6, <3>7
    <3> QED BY <3>4, <3>6, <3>8
  <2>3. CASE next = {}
    <3>1. x \notin ancestors[best] \ {best}
      BY <1>5, <1>6, <2>3 DEF BaseInv, BranchInv
    <3> QED BY <2>1, <2>3, <3>1
  <2> QED BY <2>2, <2>3
<1>8. LinkInv' BY <1>1, <1>7 DEF LinkInv
<1> QED BY <1>2, <1>4, <1>8 DEF ChainInv

LEMMA ChainNext == ASSUME BaseInv, LockInv, ChainInv, [Next]_vars PROVE ChainInv'
<1>0. Types BY DEF BaseInv
<1>1. ASSUME UNCHANGED <<world, tipVars, coinVars, pc, view>> PROVE ChainInv'
  <2>1. UNCHANGED <<ancestors, bad, pindexBest, pnext, coins, coinsBest, diskCoins, diskBest,
                    pc, view>>
    BY <1>1 DEF world, tipVars, coinVars
  <2>2. CoinInv' /\ LinkInv' BY <2>1 DEF ChainInv, CoinInv, LinkInv
  <2>3. ViewInv' BY <2>1 DEF ChainInv, ViewInv, VDisconnect, VConnect
  <2>4. TipInv' BY <2>1 DEF ChainInv, TipInv
  <2> QED BY <2>2, <2>3, <2>4 DEF ChainInv
<1>2. CASE UNCHANGED vars BY <1>1, <1>2 DEF vars, threadVars
<1>3. ASSUME NEW t \in Threads, NEW b \in Blocks, ProcessBlock(t, b) PROVE ChainInv'
  <2>1. \A u \in Threads \ {t} : Same(u) BY <1>0, <1>3, AddSame DEF ProcessBlock, Same
  <2>2. pc[t] = "idle" /\ pc'[t] = "connect" /\ UNCHANGED <<world, tipVars, coinVars>>
    BY <1>0, <1>3, AddSame DEF ProcessBlock, Ready
  <2> QED BY <2>1, <2>2, QuietStep
<1>4. ASSUME NEW t \in Threads, NEW b \in Blocks, ShuntOrphan(t, b) PROVE ChainInv'
  BY <1>1, <1>4 DEF ShuntOrphan, threadVars
<1>5. ASSUME NEW t \in Threads, NEW c \in Checkpoints, ProcessSyncCheckpoint(t, c)
      PROVE  ChainInv'
  <2>1. CASE UNCHANGED threadVars BY <1>1, <1>5, <2>1 DEF ProcessSyncCheckpoint, threadVars
  <2>2. CASE SwitchTo(t, c, "checkpoint") /\ UNCHANGED view
    <3>1. \A u \in Threads \ {t} : Same(u) BY <1>0, <2>2, SwitchSame DEF Same
    <3>2. pc[t] = "idle" /\ pc'[t] = "set" /\ UNCHANGED <<world, tipVars, coinVars>>
      BY <1>0, <1>5, <2>2, SwitchSame DEF ProcessSyncCheckpoint, Ready
    <3> QED BY <3>1, <3>2, QuietStep
  <2> QED BY <1>5, <2>1, <2>2 DEF ProcessSyncCheckpoint
<1>6. Net \subseteq Threads BY DEF Threads
<1> QED BY <1>2, <1>3, <1>4, <1>5, <1>6, ChainStep, RestartStep DEF Next

-----------------------------------------------------------------------------
(* A block is refused because it is bad: that its outputs are there already *)
(* cannot be, as the coins are those of the chain that is left.            *)
LEMMA RefusedIsBad ==
    ASSUME BaseInv, ChainInv, NEW new \in All, NEW x \in VConnect(new), Refused(x, new)
    PROVE  x \in bad
BY DEF ChainInv, CoinInv, Refused, VConnect

LEMMA FailNext ==
    ASSUME BaseInv, ChainInv, SoundBlocksNeverFail, [Next]_vars PROVE SoundBlocksNeverFail'
<1>1. UNCHANGED <<ancestors, bad>>
  <2>1. CASE UNCHANGED vars BY <2>1 DEF vars, world
  <2> QED BY <2>1, WorldStays DEF world
<1>2. ASSUME \A b \in failed' : ancestors[b] \cap bad # {} PROVE SoundBlocksNeverFail'
  BY <1>1, <1>2 DEF SoundBlocksNeverFail, Sound
<1>3. CASE UNCHANGED failed BY <1>2, <1>3 DEF SoundBlocksNeverFail, Sound
<1>4. ASSUME NEW t \in Threads, NEW top \in All, MarkDescendants(t, top)
      PROVE  SoundBlocksNeverFail'
  <2>1. PICK f \in Visited(top) \cap failed : failed' = failed \cup Descendants(top, f)
    BY <1>4 DEF MarkDescendants
  <2>2. ancestors[f] \cap bad # {} BY DEF SoundBlocksNeverFail, Sound
  <2>3. ASSUME NEW x \in Descendants(top, f) PROVE ancestors[x] \cap bad # {}
    <3>1. x \in All /\ f \in ancestors[x] BY VisitedFacts DEF Descendants
    <3>2. ancestors[f] \subseteq ancestors[x] BY <3>1 DEF BaseInv, WorldInv
    <3> QED BY <2>2, <3>2
  <2> QED BY <1>2, <2>1, <2>3 DEF SoundBlocksNeverFail, Sound
<1>5. ASSUME NEW t \in Threads, NEW new \in All, NEW x \in All, InvalidBlockFound(t, new, x)
      PROVE  SoundBlocksNeverFail'
  <2>1. x \in bad BY <1>5, RefusedIsBad DEF InvalidBlockFound
  <2>2. x \in ancestors[x] BY DEF BaseInv, WorldInv
  <2>3. failed' = failed \cup {x} BY <1>5 DEF InvalidBlockFound
  <2> QED BY <1>2, <2>1, <2>2, <2>3 DEF SoundBlocksNeverFail, Sound
<1>6. ASSUME NEW t \in Threads, Step(t) PROVE SoundBlocksNeverFail'
  <2>1. ASSUME NEW o \in Blocks, AcceptOrphan(t, o) PROVE UNCHANGED failed
    BY <2>1 DEF AcceptOrphan, AddToBlockIndex, indexVars
  <2>2. ASSUME NoMoreOrphans(t) \/ NothingToDo(t) PROVE UNCHANGED failed
    BY <2>2 DEF NoMoreOrphans, NothingToDo, indexVars
  <2>3. ASSUME NEW top \in All, ChooseChain(t, top) PROVE UNCHANGED failed
    BY <2>3 DEF ChooseChain, indexVars
  <2>4. ASSUME NEW new \in All, Connected(t, new) \/ DisconnectFails(t, new)
        PROVE  UNCHANGED failed
    BY <2>4 DEF Connected, DisconnectFails, indexVars
  <2>5. ASSUME Flush(t) \/ NewBestBlock(t) \/ AcceptPendingSyncCheckpoint(t)
        PROVE  UNCHANGED failed
    BY <2>5 DEF Flush, NewBestBlock, AcceptPendingSyncCheckpoint, indexVars
  <2> QED BY <1>3, <1>4, <1>5, <1>6, <2>1, <2>2, <2>3, <2>4, <2>5 DEF Step
<1>7. ASSUME NEW t \in Threads, NEW b \in Blocks, ProcessBlock(t, b) \/ ShuntOrphan(t, b)
      PROVE  UNCHANGED failed
  BY <1>7 DEF ProcessBlock, ShuntOrphan, AddToBlockIndex, indexVars
<1>8. ASSUME NEW t \in Net, NEW c, ProcessSyncCheckpoint(t, c) \/ Restart(t, c)
      PROVE  UNCHANGED failed
  BY <1>8 DEF ProcessSyncCheckpoint, Restart, indexVars
<1>9. CASE UNCHANGED vars BY <1>3, <1>9 DEF vars, indexVars
<1> QED BY <1>3, <1>6, <1>7, <1>8, <1>9 DEF Next

(* What holds in every state if no thread processes blocks without cs_main. *)
LockedInv == BaseInv /\ LockInv /\ ChainInv /\ SoundBlocksNeverFail

LEMMA LockedInit == Init /\ Pool = {} => LockedInv
<1> SUFFICES ASSUME Init, Pool = {} PROVE LockedInv OBVIOUS
<1>1. BaseInv BY BaseInit
<1>2. LockInv BY DEF Init, LockInv
<1>3. ancestors[Genesis] = {Genesis} BY <1>1, OnlyGenesis
<1>4. CoinInv /\ LinkInv BY <1>3 DEF Init, CoinInv, LinkInv
<1>5. ViewInv /\ TipInv BY DEF Init, ViewInv, TipInv
<1>6. SoundBlocksNeverFail BY DEF Init, SoundBlocksNeverFail
<1> QED BY <1>1, <1>2, <1>3, <1>4, <1>5, <1>6 DEF LockedInv, ChainInv

LEMMA LockedNext == LockedInv /\ [Next]_vars => LockedInv'
<1> SUFFICES ASSUME LockedInv, [Next]_vars PROVE LockedInv' OBVIOUS
<1>1. BaseInv /\ LockInv /\ ChainInv /\ SoundBlocksNeverFail /\ Types
  BY DEF LockedInv, BaseInv
<1> QED BY <1>1, BaseNext, LockNext, ChainNext, FailNext DEF LockedInv

(* CoinsFollowTheChain: under cs_main the coins in memory and on disk are  *)
(* those of one chain, free of refused blocks, after every reorganisation, *)
(* refusal and crash.                                                      *)
THEOREM CoinsFollowTheChain == Spec /\ Pool = {} => []CoinsOfOneChain
<1>1. LockedInv => CoinsOfOneChain BY DEF LockedInv, ChainInv, CoinInv, CoinsOfOneChain
<1> QED BY LockedInit, LockedNext, <1>1, PTL DEF Spec

(* OnlyUnsoundFail: under cs_main no block is marked invalid unless it, or *)
(* a block it builds on, is refused.                                       *)
THEOREM OnlyUnsoundFail == Spec /\ Pool = {} => []SoundBlocksNeverFail
<1>1. LockedInv => SoundBlocksNeverFail BY DEF LockedInv
<1> QED BY LockedInit, LockedNext, <1>1, PTL DEF Spec

(* LinksFollowTheChain: under cs_main IsInMainChain tells exactly the      *)
(* blocks of the best chain, though reorganisations cut and make links one *)
(* by one and a start rebuilds them all.                                   *)
THEOREM LinksFollowTheChain == Spec /\ Pool = {} => []BestChainLinked
<1>1. LockedInv => BestChainLinked
  <2> SUFFICES ASSUME LockedInv, NEW b \in All
               PROVE  IsInMainChain(b) <=> b \in ancestors[pindexBest]
    BY DEF BestChainLinked
  <2>1. pindexBest \in ancestors[pindexBest]
    BY DEF LockedInv, BaseInv, WorldInv, Types, TipType
  <2> QED BY <2>1 DEF LockedInv, ChainInv, LinkInv, IsInMainChain
<1> QED BY LockedInit, LockedNext, <1>1, PTL DEF Spec

-----------------------------------------------------------------------------
(* The search for the heaviest chain, under cs_main. *)
BlocksInv ==
    /\ \A b \in mapBlockIndex : ancestors[b] \subseteq mapBlockIndex
    /\ \A b \in mapBlockIndex : \A a \in ancestors[b] \ {b} : nChainWork[a] < nChainWork[b]
    /\ mapBlockIndex \ failed \subseteq setBlockIndexValid
    /\ setBlockIndexValid \subseteq mapBlockIndex
    /\ {pindexBest, coinsBest, diskBest} \subseteq mapBlockIndex /\ Sound(pindexBest)

(* A thread works on known blocks.  SetBestChain never fails a block of    *)
(* the best chain, so ok stays, and only enforced checkpoints set it.      *)
ThreadInv(t) ==
    /\ attach[t] \subseteq mapBlockIndex /\ queue[t] \subseteq mapBlockIndex
    /\ blk[t] \in mapBlockIndex
    /\ job[t].ok /\ (Setting(t) => enforced)
    /\ pc[t] = "idle" \/ job[t].kind \in {"init", "checkpoint"} => queue[t] = {}
    /\ pc[t] = "pending" => job[t].kind = "block"

(* The block being made the best one is the lowest of attach; the last is  *)
(* one of the heaviest that are not known to be invalid.                   *)
Untried(b) == b \in mapBlockIndex /\ ancestors[b] \cap failed = {}
Lowest(t) ==
    pc[t] \in {"flush", "tip"} =>
        view[t].new \in attach[t] /\ \A x \in attach[t] : view[t].new \in ancestors[x]
TopOf(t, top) ==
    /\ attach[t] \subseteq ancestors[top] /\ Untried(top)
    /\ \A b \in mapBlockIndex : Untried(b) => nChainWork[b] <= nChainWork[top]
    /\ \A x \in attach[t] : nChainWork[x] > nChainWork[pindexBest]
HasTop(t) ==
    pc[t] \in {"set", "flush", "tip"} /\ job[t].kind \in {"block", "init"} =>
        \E top \in attach[t] : TopOf(t, top)

(* A heavier chain is not known to be invalid only while it is tried.      *)
Heavier(b) == Untried(b) /\ nChainWork[b] > nChainWork[pindexBest]
Trying(t) == pc[t] \in {"connect", "set", "flush", "tip"}
Covers(t, b) == \/ pc[t] = "down"
                \/ Trying(t) /\ job[t].kind = "init"
                \/ Trying(t) /\ job[t].kind = "block" /\ blk[t] = b
HeavierInv ==
    NeverForced => \A b \in mapBlockIndex : Heavier(b) => \E t \in Threads : Covers(t, b)

(* An orphan whose parent is known waits for the handler of the parent.    *)
Waits(t, p) == /\ pc[t] # "idle"
               /\ \/ pc[t] = "down"
                  \/ p \in queue[t]
                  \/ /\ p = blk[t] /\ job[t].kind \in {"block", "pending"}
                     /\ Trying(t) \/ pc[t] = "pending"
Ripe(o) == o \in orphans /\ pprev[o] \in mapBlockIndex /\ Sound(o)
OrphansInv ==
    NeverForced => \A o \in Blocks : Ripe(o) => \E t \in Threads : Waits(t, pprev[o])

SearchInv == /\ BlocksInv /\ HeavierInv /\ OrphansInv
             /\ \A t \in Threads : ThreadInv(t) /\ Lowest(t) /\ HasTop(t)

FullInv == LockedInv /\ CheckpointInv /\ SearchInv

Alike(u) == Same(u) /\ queue'[u] = queue[u] /\ blk'[u] = blk[u]
Alone(t) == \A u \in Threads \ {t} : pc[u] = "idle" /\ Alike(u)

(* Only the thread that is in a handler tries chains and keeps orphans     *)
(* waiting.                                                                *)
LEMMA OnlyOne ==
    ASSUME SearchInv, NEW t \in Threads, Alone(t), NeverForced
    PROVE  /\ \A b \in mapBlockIndex : Heavier(b) => Covers(t, b)
           /\ \A o \in Blocks : Ripe(o) => Waits(t, pprev[o])
<1>1. ASSUME NEW u \in Threads \ {t} PROVE (\A b : ~Covers(u, b)) /\ (\A p : ~Waits(u, p))
  BY DEF Alone, Covers, Waits, Trying
<1> QED BY <1>1 DEF SearchInv, HeavierInv, OrphansInv

LEMMA Assemble ==
    ASSUME SearchInv, NEW t \in Threads, Alone(t), BlocksInv', ThreadInv(t)', Lowest(t)', HasTop(t)',
           mapBlockIndex \subseteq mapBlockIndex', UNCHANGED enforced,
           NeverForced' => \A b \in mapBlockIndex' : Heavier(b)' => Covers(t, b)',
           NeverForced' => \A o \in Blocks : Ripe(o)' => Waits(t, pprev[o])'
    PROVE  SearchInv'
<1>1. ASSUME NEW u \in Threads \ {t} PROVE ThreadInv(u)' /\ Lowest(u)' /\ HasTop(u)'
  <2>1. pc[u] = "idle" /\ Alike(u) /\ ThreadInv(u) BY DEF Alone, SearchInv
  <2>2. pc'[u] = "idle" BY <2>1 DEF Alike, Same
  <2>3. ThreadInv(u)' BY <2>1, <2>2 DEF Alike, Same, ThreadInv, Setting
  <2> QED BY <2>2, <2>3 DEF Lowest, HasTop
<1>2. HeavierInv' /\ OrphansInv' BY DEF HeavierInv, OrphansInv
<1> QED BY <1>1, <1>2 DEF SearchInv

(* Once a checkpoint has come there is always one. *)
LEMMA ForcedStays == ASSUME BaseInv, Advances, UNCHANGED enforced, NeverForced' PROVE NeverForced
BY OnlyGenesis DEF Advances, NeverForced

(* What Continue does with the orphans that wait. *)
LEMMA ContinueWaits ==
    ASSUME Types, NEW t \in Threads, ThreadInv(t), Trying(t), NEW ok \in BOOLEAN, Continue(t, ok),
           UNCHANGED <<job, blk>>, NEW p, Waits(t, p), ok \/ job[t].kind # "block" \/ p # blk[t]
    PROVE  Waits(t, p)'
<1>1. CASE job[t].kind = "init" \/ job[t].kind = "checkpoint"
  BY <1>1 DEF ThreadInv, Waits, Trying
<1>2. CASE job[t].kind = "pending"
  <2>1. Accepted(t) BY <1>2 DEF Continue
  <2>2. pc'[t] = "orphans" /\ queue'[t] = queue[t] \cup {blk[t]}
    BY <2>1 DEF Accepted, Goto, Types, LockType
  <2> QED BY <2>2 DEF Waits, Trying
<1>3. CASE job[t].kind = "block" /\ ok
  <2>1. Goto(t, "pending") /\ UNCHANGED queue BY <1>3 DEF Continue
  <2>2. pc'[t] = "pending" BY <2>1, GotoSame DEF Places
  <2> QED BY <1>3, <2>1, <2>2 DEF Waits, Trying
<1>4. CASE job[t].kind = "block" /\ ~ok
  <2>1. p \in queue[t] BY <1>4 DEF Waits, Trying
  <2>2. Goto(t, "orphans") /\ UNCHANGED queue BY <1>4, <2>1 DEF Continue
  <2>3. pc'[t] = "orphans" BY <2>2, GotoSame DEF Places
  <2> QED BY <2>1, <2>2, <2>3 DEF Waits
<1>5. job[t].kind \in Kinds BY DEF Types, JobType
<1> QED BY <1>1, <1>2, <1>3, <1>4, <1>5 DEF Kinds

LEMMA ContinueKnown ==
    ASSUME Types, NEW t \in Threads, ThreadInv(t), Trying(t), NEW ok \in BOOLEAN, Continue(t, ok),
           UNCHANGED <<job, blk>>, attach'[t] \subseteq attach[t], UNCHANGED mapBlockIndex
    PROVE  ThreadInv(t)'
<1>1. pc'[t] \in {"idle", "down", "pending", "orphans"} BY ContinueLeaves
<1>2. /\ queue'[t] \subseteq queue[t] \cup {blk[t]}
      /\ job[t].kind \in {"init", "checkpoint"} => queue'[t] \subseteq queue[t]
      /\ pc'[t] = "idle" => queue'[t] = {}
  <2>1. CASE Return(t) BY <2>1 DEF Return, Types, LockType
  <2>2. CASE Accepted(t) /\ job[t].kind = "pending"
    BY <2>2 DEF Accepted, Goto, Types, LockType
  <2>3. CASE UNCHANGED queue /\ \E place \in {"down", "pending", "orphans"} : Goto(t, place)
    BY <2>3, GotoSame DEF Places
  <2> QED BY <2>1, <2>2, <2>3 DEF Continue
<1>3. pc'[t] = "pending" => job[t].kind = "block"
  <2>1. CASE Return(t) BY <2>1, GotoSame DEF Return, Places
  <2>2. CASE Accepted(t) BY <2>2, GotoSame DEF Accepted, Places
  <2>3. CASE \E place \in {"down", "orphans"} : Goto(t, place) BY <2>3, GotoSame DEF Places
  <2> QED BY <2>1, <2>2, <2>3 DEF Continue
<1> QED BY <1>1, <1>2, <1>3 DEF ThreadInv, Setting

(* What a step that adds no block and does not move the best one keeps.    *)
LEMMA BlocksKept ==
    ASSUME BlocksInv, UNCHANGED <<world, mapBlockIndex, nChainWork, tipVars, coinVars>>,
           mapBlockIndex \ failed' \subseteq setBlockIndexValid',
           setBlockIndexValid' \subseteq mapBlockIndex
    PROVE  BlocksInv'
BY DEF BlocksInv, world, tipVars, coinVars, Sound

LEMMA HeavierKept ==
    ASSUME UNCHANGED <<world, mapBlockIndex, nChainWork, tipVars>>, failed \subseteq failed', NEW b
    PROVE  (Untried(b)' => Untried(b)) /\ (Heavier(b)' => Heavier(b))
BY DEF Untried, Heavier, world, tipVars

LEMMA RipeKept ==
    ASSUME UNCHANGED <<world, mapBlockIndex>>, orphans' \subseteq orphans, NEW o
    PROVE  Ripe(o)' => Ripe(o)
BY DEF Ripe, Sound, world

(* A new block is the only one that can become a candidate. *)
LEMMA AddBlocks ==
    ASSUME BaseInv, BlocksInv, NEW t \in Threads, NEW b \in Blocks, AddToBlockIndex(t, b),
           b \notin mapBlockIndex, pprev[b] \in mapBlockIndex,
           UNCHANGED <<world, tipVars, coinVars>>
    PROVE  /\ BlocksInv' /\ mapBlockIndex' = mapBlockIndex \cup {b}
           /\ \A c \in mapBlockIndex' : Heavier(c)' => Heavier(c) \/ c = b
           /\ \A o \in Blocks : orphans' \subseteq orphans /\ Ripe(o)' => Ripe(o) \/ pprev[o] = b
<1>1. /\ mapBlockIndex' = mapBlockIndex \cup {b} /\ setBlockIndexValid' = setBlockIndexValid \cup {b}
      /\ failed' = failed
      /\ UNCHANGED <<ancestors, pprev, bad, work, pindexBest, coinsBest, diskBest>>
  BY DEF AddToBlockIndex, world, tipVars, coinVars
<1>2. /\ \A c \in mapBlockIndex : nChainWork'[c] = nChainWork[c] /\ nChainWork[c] \in Nat
      /\ nChainWork'[b] = nChainWork[pprev[b]] + work[b]
      /\ work[b] \in Nat /\ work[b] > 0
  <2>1. b \in All /\ mapBlockIndex \subseteq All /\ nChainWork \in [All -> Nat]
    BY BlockFacts DEF BaseInv, Types, IndexType
  <2>2. nChainWork' = [nChainWork EXCEPT ![b] = nChainWork[pprev[b]] + work[b]]
    BY DEF AddToBlockIndex
  <2>3. work[b] \in Nat \ {0} BY DEF BaseInv, WorldInv
  <2> QED BY <2>1, <2>2, <2>3
<1>3. ASSUME NEW a \in ancestors[b] \ {b} PROVE a \in mapBlockIndex /\ nChainWork'[a] < nChainWork'[b]
  <2>1. a \in ancestors[pprev[b]] BY DEF BaseInv, BranchInv
  <2>2. a \in mapBlockIndex BY <2>1 DEF BlocksInv
  <2>3. nChainWork[a] <= nChainWork[pprev[b]]
    <3>1. CASE a = pprev[b] BY <1>2, <2>2, <3>1
    <3>2. CASE a # pprev[b] BY <1>2, <2>1, <2>2, <3>2 DEF BlocksInv
    <3> QED BY <3>1, <3>2
  <2> QED BY <1>2, <2>2, <2>3
<1>4. \A c \in mapBlockIndex : ancestors[c] \subseteq mapBlockIndex BY DEF BlocksInv
<1>5. \A c \in mapBlockIndex' : ancestors[c] \subseteq mapBlockIndex' BY <1>1, <1>3, <1>4
<1>6. ASSUME NEW c \in mapBlockIndex', NEW a \in ancestors[c] \ {c} PROVE nChainWork'[a] < nChainWork'[c]
  <2>1. CASE c = b BY <1>3, <2>1
  <2>2. CASE c # b BY <1>1, <1>2, <1>4, <2>2 DEF BlocksInv
  <2> QED BY <2>1, <2>2
<1>7. BlocksInv' BY <1>1, <1>5, <1>6 DEF BlocksInv, Sound
<1>8. ASSUME NEW c \in mapBlockIndex', Heavier(c)', c # b PROVE Heavier(c)
  <2>1. c \in mapBlockIndex /\ pindexBest \in mapBlockIndex BY <1>1, <1>8 DEF BlocksInv
  <2> QED BY <1>1, <1>2, <1>8, <2>1 DEF Heavier, Untried
<1>9. ASSUME NEW o \in Blocks, orphans' \subseteq orphans, Ripe(o)', pprev[o] # b PROVE Ripe(o)
  BY <1>1, <1>9 DEF Ripe, Sound
<1> QED BY <1>1, <1>7, <1>8, <1>9

LEMMA SearchAdd ==
    ASSUME FullInv, NEW t \in Threads, Alone(t), NEW b \in Blocks, AddToBlockIndex(t, b),
           pc[t] \in {"idle", "orphans"}, b \notin mapBlockIndex, pprev[b] \in mapBlockIndex,
           UNCHANGED <<world, tipVars, coinVars, checkVars, queue, attach>>, orphans' \subseteq orphans
    PROVE  SearchInv'
<1>0. BaseInv /\ Types /\ SearchInv /\ BlocksInv /\ ThreadInv(t)
  BY DEF FullInv, LockedInv, BaseInv, SearchInv
<1>1. /\ BlocksInv' /\ mapBlockIndex' = mapBlockIndex \cup {b}
      /\ \A c \in mapBlockIndex' : Heavier(c)' => Heavier(c) \/ c = b
      /\ \A o \in Blocks : orphans' \subseteq orphans /\ Ripe(o)' => Ripe(o) \/ pprev[o] = b
  BY <1>0, AddBlocks
<1>2. pc'[t] = "connect" /\ job'[t] = [kind |-> "block", ok |-> TRUE] /\ blk'[t] = b
  BY <1>0, AddSame DEF AddToBlockIndex, Types, JobType
<1>3. ThreadInv(t)' BY <1>0, <1>1, <1>2 DEF ThreadInv, Setting
<1>4. Lowest(t)' /\ HasTop(t)' BY <1>2 DEF Lowest, HasTop
<1>5. UNCHANGED <<enforced, pprev>> /\ (NeverForced' => NeverForced)
  BY DEF world, checkVars, NeverForced
<1>6. ASSUME NeverForced', NEW c \in mapBlockIndex', Heavier(c)' PROVE Covers(t, c)'
  <2>1. ~Covers(t, c) BY DEF Covers, Trying
  <2>2. ~Heavier(c) BY <1>0, <1>5, <1>6, <2>1, OnlyOne DEF Heavier, Untried
  <2> QED BY <1>1, <1>2, <1>6, <2>2 DEF Covers, Trying
<1>7. ASSUME NeverForced', NEW o \in Blocks, Ripe(o)' PROVE Waits(t, pprev[o])'
  <2>1. CASE Ripe(o)
    <3>1. Waits(t, pprev[o]) BY <1>0, <1>5, <1>7, <2>1, OnlyOne
    <3> QED BY <1>2, <1>5, <3>1 DEF Waits, Trying
  <2>2. CASE pprev[o] = b BY <1>2, <1>5, <2>2 DEF Waits, Trying
  <2> QED BY <1>1, <1>7, <2>1, <2>2
<1> QED BY <1>0, <1>1, <1>3, <1>4, <1>5, <1>6, <1>7, Assemble

LEMMA SearchAcceptOrphan ==
    ASSUME FullInv, NEW t \in Threads, Alone(t), NEW o \in Blocks, AcceptOrphan(t, o)
    PROVE  SearchInv'
<1>0. SearchInv /\ BlocksInv /\ ThreadInv(t) BY DEF FullInv, SearchInv
<1>1. CASE Acceptable(o)
  <2>1. pprev[o] \in mapBlockIndex BY <1>0 DEF AcceptOrphan, ThreadInv
  <2>2. AddToBlockIndex(t, o) /\ o \notin mapBlockIndex BY <1>1 DEF AcceptOrphan, Acceptable
  <2>3. orphans' \subseteq orphans BY DEF AcceptOrphan
  <2> QED BY <2>1, <2>2, <2>3, SearchAdd DEF AcceptOrphan
<1>2. CASE ~Acceptable(o)
  <2>1. /\ UNCHANGED <<world, indexVars, tipVars, coinVars, checkVars, pc, job, blk, queue, attach, view>>
        /\ orphans' \subseteq orphans /\ pc[t] = "orphans"
    BY <1>2 DEF AcceptOrphan
  <2>2. UNCHANGED <<mapBlockIndex, nChainWork, failed, setBlockIndexValid, enforced, pprev>>
    BY <2>1 DEF indexVars, world
  <2>3. BlocksInv' BY <1>0, <2>1, <2>2, BlocksKept DEF BlocksInv
  <2>4. ThreadInv(t)' /\ Lowest(t)' /\ HasTop(t)'
    BY <1>0, <2>1, <2>2 DEF ThreadInv, Setting, Lowest, HasTop
  <2>5. NeverForced' => NeverForced BY <2>1, <2>2 DEF NeverForced, checkVars
  <2>6. NeverForced' => \A b \in mapBlockIndex' : Heavier(b)' => Covers(t, b)'
    BY <1>0, <2>1, <2>2, <2>5, OnlyOne, HeavierKept DEF Covers, Trying
  <2>7. NeverForced' => \A p \in Blocks : Ripe(p)' => Waits(t, pprev[p])'
    BY <1>0, <2>1, <2>2, <2>5, OnlyOne, RipeKept DEF Waits, Trying
  <2> QED BY <1>0, <2>2, <2>3, <2>4, <2>6, <2>7, Assemble
<1> QED BY <1>1, <1>2

(* A step that adds no block and moves neither the best one nor the        *)
(* checkpoint.                                                             *)
LEMMA SearchQuiet ==
    ASSUME SearchInv, NEW t \in Threads, Alone(t), BlocksInv',
           UNCHANGED <<world, mapBlockIndex, nChainWork, tipVars, hashSyncCheckpoint>>,
           failed \subseteq failed', orphans' \subseteq orphans,
           ThreadInv(t)', Lowest(t)', HasTop(t)',
           \A b \in mapBlockIndex : NeverForced /\ Heavier(b)' /\ Covers(t, b) => Covers(t, b)',
           \A o \in Blocks : NeverForced /\ Ripe(o)' /\ Waits(t, pprev[o]) => Waits(t, pprev[o])'
    PROVE  SearchInv'
<1>1. UNCHANGED <<enforced, pprev, mapBlockIndex>> /\ (NeverForced' => NeverForced)
  BY DEF NeverForced, world
<1>2. NeverForced' => \A b \in mapBlockIndex' : Heavier(b)' => Covers(t, b)'
  BY <1>1, OnlyOne, HeavierKept
<1>3. NeverForced' => \A o \in Blocks : Ripe(o)' => Waits(t, pprev[o])'
  BY <1>1, OnlyOne, RipeKept
<1> QED BY <1>1, <1>2, <1>3, Assemble

LEMMA SearchNoMoreOrphans ==
    ASSUME FullInv, NEW t \in Threads, Alone(t), NoMoreOrphans(t) PROVE SearchInv'
<1>0. Types /\ SearchInv /\ BlocksInv /\ ThreadInv(t)
  BY DEF FullInv, LockedInv, BaseInv, SearchInv
<1>1. /\ UNCHANGED <<world, mapBlockIndex, nChainWork, failed, setBlockIndexValid, orphans, tipVars,
                     coinVars, hashSyncCheckpoint, job, blk, attach, view>>
      /\ pc[t] = "orphans" /\ pc'[t] = "idle" /\ queue'[t] = {}
      /\ \A o \in orphans : pprev[o] \notin queue[t]
  BY <1>0, GotoSame DEF NoMoreOrphans, Return, Places, indexVars, checkVars, Types, LockType
<1>2. BlocksInv' BY <1>0, <1>1, BlocksKept DEF BlocksInv
<1>3. ThreadInv(t)' /\ Lowest(t)' /\ HasTop(t)'
  BY <1>0, <1>1 DEF ThreadInv, Setting, Lowest, HasTop
<1>4. \A b : ~Covers(t, b) BY <1>1 DEF Covers, Trying
<1>5. \A o \in Blocks : Ripe(o)' => ~Waits(t, pprev[o]) BY <1>1 DEF Ripe, Waits, Trying, world
<1> QED BY <1>0, <1>1, <1>2, <1>3, <1>4, <1>5, SearchQuiet

LEMMA HeavierIsValid == ASSUME BlocksInv, NEW b, Untried(b), BaseInv PROVE b \in setBlockIndexValid
<1>1. b \in All BY DEF Untried, BaseInv, Types, IndexType
<1>2. b \in ancestors[b] BY <1>1 DEF BaseInv, WorldInv
<1> QED BY <1>2 DEF BlocksInv, Untried

LEMMA SearchNothingToDo ==
    ASSUME FullInv, NEW t \in Threads, Alone(t), NothingToDo(t) PROVE SearchInv'
<1>0. BaseInv /\ Types /\ SearchInv /\ BlocksInv /\ ThreadInv(t) /\ job[t].ok = TRUE
  BY DEF FullInv, LockedInv, BaseInv, SearchInv, ThreadInv, Types, JobType
<1>1. /\ UNCHANGED <<world, mapBlockIndex, nChainWork, failed, setBlockIndexValid, orphans, tipVars,
                     coinVars, hashSyncCheckpoint, job, blk, attach, view>>
      /\ pc[t] = "connect" /\ Continue(t, TRUE)
  BY <1>0 DEF NothingToDo, indexVars, checkVars
<1>2. BlocksInv' BY <1>0, <1>1, BlocksKept DEF BlocksInv
<1>3. ThreadInv(t)' BY <1>0, <1>1, ContinueKnown DEF Trying
<1>4. pc'[t] \in {"idle", "down", "pending", "orphans"} BY <1>0, <1>1, ContinueLeaves
<1>5. Lowest(t)' /\ HasTop(t)' BY <1>4 DEF Lowest, HasTop
<1>6. ASSUME NEW b, Heavier(b)' PROVE FALSE
  <2>1. Heavier(b) BY <1>1, <1>6, HeavierKept
  <2>2. b \in setBlockIndexValid BY <1>0, <2>1, HeavierIsValid DEF Heavier
  <2>3. nChainWork[b] <= nChainWork[pindexBest] BY <2>2 DEF NothingToDo, Heaviest
  <2>4. nChainWork[b] \in Nat /\ nChainWork[pindexBest] \in Nat
    BY <1>0, <2>1 DEF Heavier, Untried, Types, IndexType, TipType
  <2> QED BY <2>1, <2>3, <2>4 DEF Heavier
<1>7. \A o \in Blocks : Waits(t, pprev[o]) => Waits(t, pprev[o])'
  BY <1>0, <1>1, ContinueWaits DEF Trying, world
<1> QED BY <1>0, <1>1, <1>2, <1>3, <1>5, <1>6, <1>7, SearchQuiet

LEMMA SearchMarkDescendants ==
    ASSUME FullInv, NEW t \in Threads, Alone(t), NEW top \in All, MarkDescendants(t, top)
    PROVE  SearchInv'
<1>0. SearchInv /\ BlocksInv /\ ThreadInv(t) BY DEF FullInv, SearchInv
<1>1. /\ UNCHANGED <<world, mapBlockIndex, nChainWork, orphans, tipVars, coinVars,
                     hashSyncCheckpoint, pc, job, blk, queue, attach, view>>
      /\ pc[t] = "connect"
  BY DEF MarkDescendants, checkVars, threadVars
<1>2. PICK D : failed' = failed \cup D /\ setBlockIndexValid' = setBlockIndexValid \ D
  BY DEF MarkDescendants
<1>3. BlocksInv' BY <1>0, <1>1, <1>2, BlocksKept DEF BlocksInv
<1>4. UNCHANGED enforced BY <1>1 DEF world
<1>5. ThreadInv(t)' /\ Lowest(t)' /\ HasTop(t)'
  BY <1>0, <1>1, <1>4 DEF ThreadInv, Setting, Lowest, HasTop
<1>6. \A b : Covers(t, b) => Covers(t, b)' BY <1>1 DEF Covers, Trying
<1>7. \A o \in Blocks : Waits(t, pprev[o]) => Waits(t, pprev[o])'
  BY <1>1 DEF Waits, Trying, world
<1> QED BY <1>0, <1>1, <1>2, <1>3, <1>5, <1>6, <1>7, SearchQuiet

(* A chain without failed blocks down to the best chain has none at all.   *)
LEMMA VisitedAll ==
    ASSUME LockedInv, BlocksInv, NEW top \in mapBlockIndex, Visited(top) \cap failed = {}
    PROVE  Untried(top)
<1>1. SUFFICES ASSUME NEW a \in ancestors[top], a \in failed PROVE FALSE BY DEF Untried
<1>2. a \notin Visited(top) BY <1>1
<1>3. PICK y \in ancestors[top] : a \in ancestors[y] /\ pnext[y] # None BY <1>2 DEF Visited
<1>4. top \in All /\ y \in All /\ pindexBest \in All
  BY DEF LockedInv, BaseInv, Types, IndexType, TipType, WorldInv
<1>5. y \in ancestors[pindexBest] BY <1>3, <1>4 DEF LockedInv, ChainInv, LinkInv
<1>6. ancestors[a] \subseteq ancestors[y] /\ ancestors[y] \subseteq ancestors[pindexBest]
  BY <1>3, <1>4, <1>5 DEF LockedInv, BaseInv, WorldInv
<1>7. ancestors[a] \cap bad # {} BY <1>1 DEF LockedInv, SoundBlocksNeverFail, Sound
<1> QED BY <1>6, <1>7 DEF BlocksInv, Sound

LEMMA SearchChooseChain ==
    ASSUME FullInv, NEW t \in Threads, Alone(t), NEW top \in All, ChooseChain(t, top)
    PROVE  SearchInv'
<1> DEFINE heavier == {x \in Visited(top) : nChainWork[x] > nChainWork[pindexBest]}
<1>0. BaseInv /\ Types /\ SearchInv /\ BlocksInv /\ ThreadInv(t)
  BY DEF FullInv, LockedInv, BaseInv, SearchInv
<1>1. /\ UNCHANGED <<world, mapBlockIndex, nChainWork, failed, setBlockIndexValid, orphans, tipVars,
                     coinVars, hashSyncCheckpoint, job, blk, view>>
      /\ pc[t] = "connect" /\ attach'[t] = heavier
  BY <1>0 DEF ChooseChain, indexVars, checkVars, Types, AttachType
<1>2. top \in setBlockIndexValid /\ top \in mapBlockIndex
  BY <1>0 DEF ChooseChain, Heaviest, BlocksInv
<1>3. nChainWork[top] > nChainWork[pindexBest]
  <2>1. pindexBest \in All /\ pindexBest \in mapBlockIndex
    BY <1>0 DEF Types, TipType, BlocksInv
  <2>2. pindexBest \notin failed
    <3>1. ancestors[pindexBest] \cap bad = {} BY <1>0 DEF BlocksInv, Sound
    <3> QED BY <3>1 DEF FullInv, LockedInv, SoundBlocksNeverFail, Sound
  <2>3. nChainWork[pindexBest] <= nChainWork[top]
    BY <1>0, <2>1, <2>2 DEF ChooseChain, Heaviest, BlocksInv
  <2>4. nChainWork[top] # nChainWork[pindexBest] BY DEF ChooseChain
  <2>5. nChainWork[top] \in Nat /\ nChainWork[pindexBest] \in Nat
    BY <1>0, <2>1 DEF Types, IndexType
  <2> QED BY <2>3, <2>4, <2>5
<1>4. top \in heavier /\ heavier \subseteq ancestors[top]
  <2>1. top \in ancestors[top] BY <1>0 DEF BaseInv, WorldInv
  <2>2. ASSUME NEW y \in ancestors[top], top \in ancestors[y] PROVE top = y
    <3>1. y \in All BY <1>0 DEF BaseInv, WorldInv
    <3>2. y <= top /\ top <= y BY <1>0, <2>2, <3>1 DEF BaseInv, WorldInv
    <3> QED BY <3>1, <3>2, BlockFacts
  <2> QED BY <1>3, <2>1, <2>2 DEF Visited
<1>5. Goto(t, "set") /\ UNCHANGED <<csMain, queue>> BY <1>4 DEF ChooseChain
<1>6. pc'[t] = "set" BY <1>0, <1>5, GotoSame DEF Places
<1>7. BlocksInv' BY <1>0, <1>1, BlocksKept DEF BlocksInv
<1>8. ThreadInv(t)'
  <2>1. heavier \subseteq mapBlockIndex BY <1>0, <1>2, <1>4 DEF BlocksInv
  <2>2. UNCHANGED enforced BY <1>1 DEF world
  <2> QED BY <1>0, <1>1, <1>5, <1>6, <2>1, <2>2 DEF ThreadInv, Setting
<1>9. Lowest(t)' BY <1>6 DEF Lowest
<1>10. HasTop(t)'
  <2>1. Untried(top) BY <1>0, <1>2, VisitedAll DEF ChooseChain, FullInv
  <2>2. \A b \in mapBlockIndex : Untried(b) => nChainWork[b] <= nChainWork[top]
    BY <1>0, HeavierIsValid DEF ChooseChain, Heaviest
  <2>3. UNCHANGED <<ancestors, pindexBest>> BY <1>1 DEF world, tipVars
  <2>4. \A x \in heavier : nChainWork[x] > nChainWork[pindexBest] OBVIOUS
  <2> HIDE DEF heavier
  <2>5. TopOf(t, top)' BY <1>1, <1>4, <2>1, <2>2, <2>3, <2>4 DEF TopOf, Untried
  <2> QED BY <1>1, <1>4, <2>5 DEF HasTop
<1>11. \A b : Covers(t, b) => Covers(t, b)' BY <1>1, <1>6 DEF Covers, Trying
<1>12. \A o \in Blocks : Waits(t, pprev[o]) => Waits(t, pprev[o])'
  BY <1>1, <1>5, <1>6 DEF Waits, Trying, world
<1> QED BY <1>0, <1>1, <1>7, <1>8, <1>9, <1>10, <1>11, <1>12, SearchQuiet

LEMMA SearchConnected ==
    ASSUME FullInv, NEW t \in Threads, Alone(t), NEW new \in All, Connected(t, new)
    PROVE  SearchInv'
<1>0. Types /\ SearchInv /\ BlocksInv /\ ThreadInv(t) /\ HasTop(t)
  BY DEF FullInv, LockedInv, BaseInv, SearchInv
<1>1. /\ UNCHANGED <<world, mapBlockIndex, nChainWork, failed, setBlockIndexValid, orphans, tipVars,
                     coinVars, hashSyncCheckpoint, job, blk, queue, attach>>
      /\ pc[t] = "set" /\ pc'[t] = "flush" /\ view'[t].new = new
  BY <1>0, GotoSame DEF Connected, indexVars, checkVars, Places, Types, ViewType
<1>2. UNCHANGED <<enforced, ancestors, pprev, pindexBest>> BY <1>1 DEF world, tipVars
<1>3. BlocksInv' BY <1>0, <1>1, BlocksKept DEF BlocksInv
<1>4. ThreadInv(t)' BY <1>0, <1>1, <1>2 DEF ThreadInv, Setting
<1>5. Lowest(t)' BY <1>1, <1>2 DEF Lowest, Connected, Switch
<1>6. HasTop(t)' BY <1>0, <1>1, <1>2 DEF HasTop, TopOf, Untried
<1>7. \A b : Covers(t, b) => Covers(t, b)' BY <1>1 DEF Covers, Trying
<1>8. \A o \in Blocks : Waits(t, pprev[o]) => Waits(t, pprev[o])'
  BY <1>1, <1>2 DEF Waits, Trying
<1> QED BY <1>0, <1>1, <1>3, <1>4, <1>5, <1>6, <1>7, <1>8, SearchQuiet

(* The blocks to disconnect are those of the coins: it never fails.        *)
LEMMA DisconnectNeverFails ==
    ASSUME LockedInv, NEW t \in Threads, NEW new \in All, DisconnectFails(t, new) PROVE FALSE
<1>1. Genesis \in ancestors[new] BY DEF LockedInv, BaseInv, WorldInv
<1>2. coins = ancestors[coinsBest] \ {Genesis} BY DEF LockedInv, ChainInv, CoinInv
<1> QED BY <1>1, <1>2 DEF DisconnectFails, VDisconnect

LEMMA SearchInvalidBlockFound ==
    ASSUME FullInv, NEW t \in Threads, Alone(t), NEW new \in All, NEW x \in All,
           InvalidBlockFound(t, new, x)
    PROVE  SearchInv'
<1>0. /\ LockedInv /\ BaseInv /\ Types /\ SearchInv /\ BlocksInv /\ ThreadInv(t) /\ HasTop(t)
      /\ ChainInv
  BY DEF FullInv, LockedInv, BaseInv, SearchInv
<1>1. /\ UNCHANGED <<world, mapBlockIndex, nChainWork, orphans, tipVars, coinVars,
                     hashSyncCheckpoint, blk, view>>
      /\ pc[t] = "set" /\ new \in attach[t] /\ x \in VConnect(new) /\ Refused(x, new)
      /\ failed' = failed \cup {x} /\ setBlockIndexValid' = setBlockIndexValid \ {x}
      /\ attach' = [attach EXCEPT ![t] = {}]
  BY DEF InvalidBlockFound, Switch, checkVars
<1>2. pnext[x] = None
  <2>1. pindexBest = coinsBest BY <1>0, <1>1 DEF ChainInv, TipInv, Alone
  <2> QED BY <1>0, <1>1, <2>1 DEF ChainInv, LinkInv, VConnect
<1>3. Continue(t, FALSE) /\ UNCHANGED job BY <1>2 DEF InvalidBlockFound
<1>4. pc'[t] \in {"idle", "down", "pending", "orphans"} BY <1>0, <1>3, ContinueLeaves
<1>5. attach'[t] = {} BY <1>0, <1>1 DEF Types, AttachType
<1>6. BlocksInv' BY <1>0, <1>1, BlocksKept DEF BlocksInv
<1>7. ThreadInv(t)' BY <1>0, <1>1, <1>3, <1>5, ContinueKnown DEF Trying
<1>8. Lowest(t)' /\ HasTop(t)' BY <1>4 DEF Lowest, HasTop
<1>9. x \in bad /\ x \in ancestors[new] BY <1>0, <1>1, RefusedIsBad DEF VConnect
<1>10. ASSUME NeverForced, job[t].kind = "block" PROVE x \in ancestors[blk[t]]
  <2>1. PICK top \in attach[t] : TopOf(t, top) BY <1>0, <1>1, <1>10 DEF HasTop
  <2>2. Heavier(top) /\ top \in mapBlockIndex BY <2>1 DEF TopOf, Heavier, Untried
  <2>3. Covers(t, top) BY <1>0, <1>10, <2>2, OnlyOne
  <2>4. top = blk[t] BY <1>1, <1>10, <2>3 DEF Covers
  <2>5. new \in ancestors[top] BY <1>1, <2>1 DEF TopOf
  <2>6. top \in All BY <1>0, <2>2 DEF Types, IndexType
  <2>7. ancestors[new] \subseteq ancestors[top] BY <1>0, <2>5, <2>6 DEF BaseInv, WorldInv
  <2> QED BY <1>9, <2>4, <2>7
<1>11. ASSUME NEW b \in mapBlockIndex, NeverForced, Heavier(b)', Covers(t, b) PROVE Covers(t, b)'
  <2>1. CASE job[t].kind = "init"
    <3>1. Goto(t, "down") BY <1>3, <2>1 DEF Continue
    <3>2. pc'[t] = "down" BY <1>0, <3>1, GotoSame DEF Places
    <3> QED BY <3>2 DEF Covers
  <2>2. CASE job[t].kind = "block" /\ blk[t] = b
    <3>1. x \in ancestors[b] BY <1>10, <1>11, <2>2
    <3>2. ancestors'[b] = ancestors[b] BY <1>1 DEF world
    <3> QED BY <1>1, <1>11, <3>1, <3>2 DEF Heavier, Untried
  <2> QED BY <1>1, <1>11, <2>1, <2>2 DEF Covers, Trying
<1>12. ASSUME NEW o \in Blocks, NeverForced, Ripe(o)', Waits(t, pprev[o])
       PROVE  Waits(t, pprev[o])'
  <2>1. ASSUME job[t].kind = "block", pprev[o] = blk[t] PROVE FALSE
    <3>1. x \in ancestors[pprev[o]] BY <1>10, <1>12, <2>1
    <3>2. o \in All /\ o \in ancestors[o] BY <1>0, BlockFacts DEF BaseInv, WorldInv
    <3>3. pprev[o] \in ancestors[o] BY <1>0, <3>2 DEF BaseInv, BranchInv
    <3>4. ancestors[pprev[o]] \subseteq ancestors[o] BY <1>0, <3>2, <3>3 DEF BaseInv, WorldInv
    <3>5. ancestors'[o] = ancestors[o] /\ bad' = bad BY <1>1 DEF world
    <3> QED BY <1>9, <1>12, <3>1, <3>4, <3>5 DEF Ripe, Sound
  <2>2. pprev' = pprev BY <1>1 DEF world
  <2>3. \A p : Waits(t, p) /\ (job[t].kind # "block" \/ p # blk[t]) => Waits(t, p)'
    BY <1>0, <1>1, <1>3, ContinueWaits DEF Trying
  <2> QED BY <1>12, <2>1, <2>2, <2>3
<1> QED BY <1>0, <1>1, <1>6, <1>7, <1>8, <1>11, <1>12, SearchQuiet

LEMMA SearchFlush == ASSUME FullInv, NEW t \in Threads, Alone(t), Flush(t) PROVE SearchInv'
<1>0. Types /\ SearchInv /\ BlocksInv /\ ThreadInv(t) /\ HasTop(t) /\ Lowest(t)
  BY DEF FullInv, LockedInv, BaseInv, SearchInv
<1>1. /\ UNCHANGED <<world, mapBlockIndex, nChainWork, failed, setBlockIndexValid, orphans, tipVars,
                     hashSyncCheckpoint, job, blk, queue, attach, view>>
      /\ pc[t] = "flush" /\ pc'[t] = "tip" /\ coinsBest' = view[t].new
      /\ diskBest' \in {view[t].new, diskBest}
  BY <1>0, GotoSame DEF Flush, indexVars, checkVars, Places
<1>2. UNCHANGED <<enforced, ancestors, pprev, bad, pindexBest>> BY <1>1 DEF world, tipVars
<1>3. BlocksInv'
  <2>1. view[t].new \in mapBlockIndex BY <1>0, <1>1 DEF Lowest, ThreadInv
  <2> QED BY <1>0, <1>1, <1>2, <2>1 DEF BlocksInv, Sound
<1>4. ThreadInv(t)' BY <1>0, <1>1, <1>2 DEF ThreadInv, Setting
<1>5. Lowest(t)' BY <1>0, <1>1, <1>2 DEF Lowest
<1>6. HasTop(t)' BY <1>0, <1>1, <1>2 DEF HasTop, TopOf, Untried
<1>7. \A b : Covers(t, b) => Covers(t, b)' BY <1>1 DEF Covers, Trying
<1>8. \A o \in Blocks : Waits(t, pprev[o]) => Waits(t, pprev[o])'
  BY <1>1, <1>2 DEF Waits, Trying
<1> QED BY <1>0, <1>1, <1>3, <1>4, <1>5, <1>6, <1>7, <1>8, SearchQuiet

(* The last of attach becomes the best block exactly when attach is empty. *)
LEMMA TopIsLast ==
    ASSUME BaseInv, NEW t \in Threads, NEW n \in attach[t], \A x \in attach[t] : n \in ancestors[x],
           NEW top \in attach[t], attach[t] \subseteq ancestors[top]
    PROVE  attach[t] \ {n} = {} <=> top = n
<1>1. attach[t] \subseteq All BY BlockFacts DEF BaseInv, Types, AttachType
<1>2. ASSUME top = n, NEW x \in attach[t] PROVE x = n
  <2>1. x <= n /\ n <= x BY <1>1, <1>2 DEF BaseInv, WorldInv
  <2>2. x \in Nat /\ n \in Nat BY <1>1, BlockFacts
  <2> QED BY <2>1, <2>2
<1> QED BY <1>2

LEMMA SearchNewBestBlock ==
    ASSUME FullInv, NEW t \in Threads, Alone(t), NewBestBlock(t) PROVE SearchInv'
<1> DEFINE n == view[t].new
           left == attach[t] \ {n}
<1>0. /\ LockedInv /\ BaseInv /\ Types /\ SearchInv /\ BlocksInv /\ ThreadInv(t) /\ HasTop(t)
      /\ Lowest(t) /\ ChainInv /\ CheckpointInv /\ job[t].ok = TRUE
  BY DEF FullInv, LockedInv, BaseInv, SearchInv, ThreadInv, Types, JobType
<1>1. /\ UNCHANGED <<world, mapBlockIndex, nChainWork, failed, setBlockIndexValid, orphans, coinVars,
                     job, blk, view>>
      /\ pc[t] = "tip" /\ pindexBest' = n /\ attach'[t] = left
      /\ IF left # {} THEN Goto(t, "set") /\ UNCHANGED <<csMain, queue>>
         ELSE Continue(t, TRUE)
  BY <1>0 DEF NewBestBlock, indexVars, Types, AttachType
<1>2. UNCHANGED <<enforced, ancestors, pprev, bad, coinsBest, diskBest>> BY <1>1 DEF world, coinVars
<1>3. /\ n \in attach[t] /\ n \in mapBlockIndex /\ n \in All /\ n = coinsBest
      /\ \A x \in attach[t] : n \in ancestors[x]
  BY <1>0, <1>1 DEF Lowest, ThreadInv, Types, ViewType, ChainInv, ViewInv
<1>4. BlocksInv'
  <2>1. ancestors[n] \cap bad = {}
    BY <1>0, <1>3, BlockFacts DEF ChainInv, CoinInv, BaseInv, WorldInv
  <2> QED BY <1>0, <1>1, <1>2, <1>3, <2>1 DEF BlocksInv, Sound
<1>5. pc'[t] = "set" \/ left = {} BY <1>0, <1>1, GotoSame DEF Places
<1>6. ASSUME left = {}
      PROVE  /\ pc'[t] \in {"idle", "down", "pending", "orphans"} /\ Continue(t, TRUE)
             /\ ThreadInv(t)' /\ Lowest(t)' /\ HasTop(t)'
  <2>1. Continue(t, TRUE) BY <1>1, <1>6
  <2>2. pc'[t] \in {"idle", "down", "pending", "orphans"} BY <1>0, <2>1, ContinueLeaves
  <2>3. ThreadInv(t)' BY <1>0, <1>1, <2>1, ContinueKnown DEF Trying
  <2> QED BY <2>1, <2>2, <2>3 DEF Lowest, HasTop
<1>7. CASE job[t].kind \in {"checkpoint", "pending"}
  <2>1. Setting(t) /\ Above(t) BY <1>0, <1>1, <1>7 DEF Setting, CheckpointInv
  <2>2. left = {} /\ n \in Blocks BY <1>1, <2>1 DEF Above
  <2>3. hashSyncCheckpoint' = n BY <1>0, <1>7 DEF NewBestBlock, WriteSyncCheckpoint
  <2>4. ~NeverForced'
    BY <1>0, <1>2, <2>1, <2>2, <2>3, BlockFacts DEF NeverForced, ThreadInv
  <2> QED BY <1>0, <1>1, <1>2, <1>4, <1>6, <2>2, <2>4, Assemble
<1>8. CASE job[t].kind \in {"block", "init"}
  <2>1. PICK top \in attach[t] : TopOf(t, top) BY <1>0, <1>1, <1>8 DEF HasTop
  <2>2. left = {} <=> top = n BY <1>0, <1>3, <2>1, TopIsLast DEF TopOf
  <2>3. UNCHANGED hashSyncCheckpoint BY <1>8 DEF NewBestBlock, checkVars
  <2>4. NeverForced' => NeverForced BY <1>2, <2>3 DEF NeverForced
  <2>5. attach[t] \subseteq mapBlockIndex /\ attach[t] \subseteq All
    BY <1>0 DEF ThreadInv, Types, IndexType
  <2>6. /\ \A x \in mapBlockIndex : nChainWork[x] \in Nat
        /\ nChainWork[n] > nChainWork[pindexBest] /\ nChainWork[pindexBest] \in Nat
    BY <1>0, <1>3, <2>1 DEF Types, IndexType, TipType, TopOf
  <2>7. ASSUME NEW b \in mapBlockIndex, Heavier(b)' PROVE Heavier(b) /\ top # n
    <3>1. Untried(b) /\ nChainWork[b] > nChainWork[n]
      BY <1>1, <1>2, <2>7 DEF Heavier, Untried
    <3>2. Heavier(b) BY <1>3, <2>6, <3>1 DEF Heavier
    <3>3. nChainWork[b] <= nChainWork[top] BY <2>1, <3>1 DEF TopOf
    <3>4. top # n BY <1>3, <2>6, <3>1, <3>3
    <3> QED BY <3>2, <3>4
  <2>8. \A o \in Blocks : Ripe(o)' => Ripe(o) BY <1>1, RipeKept
  <2>9. CASE left = {}
    <3>1. \A b \in mapBlockIndex : ~Heavier(b)' BY <2>2, <2>7, <2>9
    <3>2. \A p : Waits(t, p) => Waits(t, p)'
      BY <1>0, <1>1, <1>6, <2>9, ContinueWaits DEF Trying
    <3>3. NeverForced' => \A o \in Blocks : Ripe(o)' => Waits(t, pprev[o])'
      BY <1>0, <1>2, <2>4, <2>8, <3>2, OnlyOne
    <3> QED BY <1>0, <1>1, <1>2, <1>4, <1>6, <2>9, <3>1, <3>3, Assemble
  <2>10. CASE left # {}
    <3>1. pc'[t] = "set" /\ UNCHANGED queue BY <1>1, <1>5, <2>10
    <3>2. ThreadInv(t)' BY <1>0, <1>1, <1>2, <2>5, <3>1 DEF ThreadInv, Setting
    <3>3. Lowest(t)' BY <3>1 DEF Lowest
    <3>4. top \in left /\ left \subseteq ancestors[top] BY <2>1, <2>2, <2>10 DEF TopOf
    <3>5. \A x \in left : nChainWork[x] > nChainWork[n]
      <4>1. \A x \in left : nChainWork[n] < nChainWork[x] BY <1>0, <1>3, <2>5 DEF BlocksInv
      <4> QED BY <1>3, <2>5, <2>6, <4>1
    <3>6. TopOf(t, top)'
      <4> HIDE DEF left, n
      <4> QED BY <1>1, <1>2, <2>1, <3>4, <3>5 DEF TopOf, Untried
    <3>7. HasTop(t)' BY <1>1, <3>4, <3>6 DEF HasTop
    <3>8. NeverForced' => \A b \in mapBlockIndex' : Heavier(b)' => Covers(t, b)'
      <4>1. \A b : Covers(t, b) => Covers(t, b)' BY <1>1, <3>1 DEF Covers, Trying
      <4> QED BY <1>0, <1>1, <2>4, <2>7, <4>1, OnlyOne
    <3>9. NeverForced' => \A o \in Blocks : Ripe(o)' => Waits(t, pprev[o])'
      <4>1. \A p : Waits(t, p) => Waits(t, p)' BY <1>1, <3>1 DEF Waits, Trying
      <4> QED BY <1>0, <1>2, <2>4, <2>8, <4>1, OnlyOne
    <3> QED BY <1>0, <1>1, <1>2, <1>4, <3>2, <3>3, <3>7, <3>8, <3>9, Assemble
  <2> QED BY <2>9, <2>10
<1> QED BY <1>0, <1>7, <1>8 DEF Types, JobType, Kinds

LEMMA SearchAcceptPending ==
    ASSUME FullInv, NEW t \in Threads, Alone(t), AcceptPendingSyncCheckpoint(t), Advances
    PROVE  SearchInv'
<1> DEFINE c == hashPendingCheckpoint
<1>0. BaseInv /\ Types /\ SearchInv /\ BlocksInv /\ ThreadInv(t)
  BY DEF FullInv, LockedInv, BaseInv, SearchInv
<1>1. /\ UNCHANGED <<world, mapBlockIndex, nChainWork, failed, setBlockIndexValid, orphans, tipVars,
                     coinVars, blk, view>>
      /\ pc[t] = "pending" /\ job[t].kind = "block"
  BY <1>0 DEF AcceptPendingSyncCheckpoint, indexVars, ThreadInv
<1>2. UNCHANGED <<enforced, pprev>> /\ (NeverForced' => NeverForced)
  BY <1>0, <1>1, ForcedStays DEF world
<1>3. BlocksInv' BY <1>0, <1>1, BlocksKept DEF BlocksInv
<1>4. NeverForced' => \A b \in mapBlockIndex' : ~Heavier(b)'
  <2>1. \A b : ~Covers(t, b) BY <1>1 DEF Covers, Trying
  <2> QED BY <1>0, <1>1, <1>2, <2>1, OnlyOne, HeavierKept
<1>5. NeverForced' => \A o \in Blocks : Ripe(o)' => Waits(t, pprev[o])
  BY <1>0, <1>1, <1>2, OnlyOne, RipeKept
<1>6. CASE Accepted(t) /\ UNCHANGED <<job, attach>>
  <2>1. pc'[t] = "orphans" /\ queue'[t] = queue[t] \cup {blk[t]}
    BY <1>0, <1>6 DEF Accepted, Goto, Types, LockType
  <2>2. ThreadInv(t)' BY <1>0, <1>1, <1>6, <2>1 DEF ThreadInv, Setting
  <2>3. Lowest(t)' /\ HasTop(t)' BY <2>1 DEF Lowest, HasTop
  <2>4. \A p : Waits(t, p) => Waits(t, p)' BY <1>1, <2>1 DEF Waits, Trying
  <2> QED BY <1>0, <1>1, <1>2, <1>3, <1>4, <1>5, <2>2, <2>3, <2>4, Assemble
<1>7. CASE c \in mapBlockIndex /\ SwitchTo(t, c, "pending") /\ UNCHANGED queue
  <2>1. pc'[t] = "set" /\ job'[t] = [kind |-> "pending", ok |-> TRUE] /\ attach'[t] = {c}
    BY <1>0, <1>7, SwitchSame
  <2>2. ThreadInv(t)' BY <1>0, <1>1, <1>2, <1>7, <2>1 DEF ThreadInv, Setting, SwitchTo
  <2>3. Lowest(t)' /\ HasTop(t)' BY <2>1 DEF Lowest, HasTop
  <2>4. \A p : Waits(t, p) => Waits(t, p)' BY <1>1, <1>7, <2>1 DEF Waits, Trying
  <2> QED BY <1>0, <1>1, <1>2, <1>3, <1>4, <1>5, <2>2, <2>3, <2>4, Assemble
<1> QED BY <1>6, <1>7 DEF AcceptPendingSyncCheckpoint

LEMMA SearchStep ==
    ASSUME FullInv, NEW t \in Threads, Step(t), Advances PROVE SearchInv'
<1>1. LockedInv /\ Types /\ LockInv BY DEF FullInv, LockedInv, BaseInv
<1>2. Alone(t)
  <2>1. pc[t] # "idle" BY <1>1, LockStep
  <2>2. \A u \in Threads \ {t} : pc[u] = "idle" /\ Same(u) BY <1>1, <2>1, StepSame DEF LockInv
  <2>3. ASSUME NEW u \in Threads \ {t} PROVE queue'[u] = queue[u]
    <3>1. ASSUME NEW ok, Continue(t, ok) PROVE queue'[u] = queue[u]
      BY <1>1, <3>1 DEF Continue, Return, Accepted, Types, LockType
    <3>2. ASSUME Return(t) \/ Accepted(t) PROVE queue'[u] = queue[u]
      BY <1>1, <3>2 DEF Return, Accepted, Types, LockType
    <3>3. UNCHANGED queue \/ (\E ok : Continue(t, ok)) \/ Return(t) \/ Accepted(t)
      <4>1. CASE \E o \in Blocks : AcceptOrphan(t, o) BY <4>1 DEF AcceptOrphan
      <4>2. CASE NoMoreOrphans(t) \/ NothingToDo(t) BY <4>2 DEF NoMoreOrphans, NothingToDo
      <4>3. ASSUME NEW top, MarkDescendants(t, top) \/ ChooseChain(t, top)
            PROVE  UNCHANGED queue \/ (\E ok : Continue(t, ok))
        BY <4>3 DEF MarkDescendants, ChooseChain, threadVars
      <4>4. ASSUME NEW new, Connected(t, new) \/ DisconnectFails(t, new)
            PROVE  UNCHANGED queue \/ (\E ok : Continue(t, ok))
        BY <4>4 DEF Connected, DisconnectFails
      <4>5. ASSUME NEW new, NEW x, InvalidBlockFound(t, new, x)
            PROVE  UNCHANGED queue \/ (\E ok : Continue(t, ok))
        BY <4>5 DEF InvalidBlockFound
      <4>6. CASE Flush(t) BY <4>6 DEF Flush
      <4>7. CASE NewBestBlock(t) BY <4>7 DEF NewBestBlock
      <4>8. CASE AcceptPendingSyncCheckpoint(t) BY <4>8 DEF AcceptPendingSyncCheckpoint
      <4> QED BY <4>1, <4>2, <4>3, <4>4, <4>5, <4>6, <4>7, <4>8 DEF Step
    <3> QED BY <3>1, <3>2, <3>3
  <2>4. ASSUME NEW u \in Threads \ {t} PROVE blk'[u] = blk[u]
    <3>1. ASSUME NEW b, AddToBlockIndex(t, b) PROVE blk'[u] = blk[u]
      BY <1>1, <3>1 DEF AddToBlockIndex, Types, JobType
    <3>2. UNCHANGED blk \/ \E b : AddToBlockIndex(t, b)
      <4>1. CASE \E o \in Blocks : AcceptOrphan(t, o) BY <4>1 DEF AcceptOrphan
      <4>2. CASE NoMoreOrphans(t) \/ NothingToDo(t) BY <4>2 DEF NoMoreOrphans, NothingToDo
      <4>3. ASSUME NEW top, MarkDescendants(t, top) \/ ChooseChain(t, top) PROVE UNCHANGED blk
        BY <4>3 DEF MarkDescendants, ChooseChain, threadVars
      <4>4. ASSUME NEW new, Connected(t, new) \/ DisconnectFails(t, new) PROVE UNCHANGED blk
        BY <4>4 DEF Connected, DisconnectFails
      <4>5. ASSUME NEW new, NEW x, InvalidBlockFound(t, new, x) PROVE UNCHANGED blk
        BY <4>5 DEF InvalidBlockFound
      <4>6. CASE Flush(t) BY <4>6 DEF Flush
      <4>7. CASE NewBestBlock(t) BY <4>7 DEF NewBestBlock
      <4>8. CASE AcceptPendingSyncCheckpoint(t) BY <4>8 DEF AcceptPendingSyncCheckpoint
      <4> QED BY <4>1, <4>2, <4>3, <4>4, <4>5, <4>6, <4>7, <4>8 DEF Step
    <3> QED BY <3>1, <3>2
  <2> QED BY <2>2, <2>3, <2>4 DEF Alone, Alike
<1> QED BY <1>1, <1>2, SearchAcceptOrphan, SearchNoMoreOrphans, SearchNothingToDo,
           SearchMarkDescendants, SearchChooseChain, SearchConnected, DisconnectNeverFails,
           SearchInvalidBlockFound, SearchFlush, SearchNewBestBlock, SearchAcceptPending
    DEF Step

LEMMA SearchProcessSyncCheckpoint ==
    ASSUME FullInv, NEW t \in Threads, NEW c \in Checkpoints, ProcessSyncCheckpoint(t, c), Advances
    PROVE  SearchInv'
<1>0. BaseInv /\ Types /\ LockInv /\ SearchInv /\ BlocksInv /\ ThreadInv(t)
  BY DEF FullInv, LockedInv, BaseInv, SearchInv
<1>1. /\ UNCHANGED <<world, mapBlockIndex, nChainWork, failed, setBlockIndexValid, orphans, tipVars,
                     coinVars>>
      /\ \A u \in Threads : pc[u] = "idle"
  BY <1>0, ThreadsAssumption DEF ProcessSyncCheckpoint, Ready, LockInv, indexVars
<1>2. UNCHANGED <<enforced, pprev>> /\ (NeverForced' => NeverForced)
  BY <1>0, <1>1, ForcedStays DEF world
<1>3. BlocksInv' BY <1>0, <1>1, BlocksKept DEF BlocksInv
<1>4. Alone(t) =>
         /\ NeverForced' => \A b \in mapBlockIndex' : ~Heavier(b)'
         /\ NeverForced' => \A o \in Blocks : ~Ripe(o)'
  <2>1. (\A b : ~Covers(t, b)) /\ (\A p : ~Waits(t, p)) BY <1>1 DEF Covers, Trying, Waits
  <2> QED BY <1>0, <1>1, <1>2, <2>1, OnlyOne, HeavierKept, RipeKept
<1>5. CASE UNCHANGED threadVars
  <2>1. Alone(t) BY <1>1, <1>5 DEF Alone, Alike, Same, threadVars
  <2>2. ThreadInv(t)' /\ Lowest(t)' /\ HasTop(t)'
    BY <1>0, <1>1, <1>2, <1>5 DEF ThreadInv, Setting, Lowest, HasTop, threadVars
  <2> QED BY <1>0, <1>1, <1>2, <1>3, <1>4, <2>1, <2>2, Assemble
<1>6. CASE c \in mapBlockIndex /\ SwitchTo(t, c, "checkpoint") /\ UNCHANGED <<blk, queue, view>>
  <2>1. Alone(t) BY <1>0, <1>1, <1>6, SwitchSame DEF Alone, Alike, Same
  <2>2. pc'[t] = "set" /\ job'[t] = [kind |-> "checkpoint", ok |-> TRUE] /\ attach'[t] = {c}
    BY <1>0, <1>6, SwitchSame
  <2>3. ThreadInv(t)' BY <1>0, <1>1, <1>2, <1>6, <2>2 DEF ThreadInv, Setting, SwitchTo
  <2>4. Lowest(t)' /\ HasTop(t)' BY <2>2 DEF Lowest, HasTop
  <2> QED BY <1>0, <1>1, <1>2, <1>3, <1>4, <2>1, <2>3, <2>4, Assemble
<1> QED BY <1>5, <1>6 DEF ProcessSyncCheckpoint

LEMMA SearchRestart ==
    ASSUME FullInv, NEW t \in Threads, NEW clean \in BOOLEAN, Restart(t, clean) PROVE SearchInv'
<1> DEFINE best == IF clean THEN coinsBest ELSE diskBest
<1>0. BaseInv /\ Types /\ SearchInv /\ BlocksInv /\ ChainInv
  BY DEF FullInv, LockedInv, BaseInv, SearchInv
<1>1. /\ UNCHANGED <<ancestors, bad, enforced, mapBlockIndex, nChainWork, failed, blk>>
      /\ setBlockIndexValid' = mapBlockIndex \ failed /\ orphans' = {}
      /\ pindexBest' = best /\ coinsBest' = best /\ diskBest' = best
      /\ pc' = [u \in Threads |-> IF u = t THEN "connect" ELSE "idle"]
      /\ job' = [job EXCEPT ![t] = [kind |-> "init", ok |-> TRUE]]
      /\ queue' = [u \in Threads |-> {}] /\ attach' = [u \in Threads |-> {}]
  BY DEF Restart, world
<1>2. ancestors[best] \cap bad = {}
  <2>1. Genesis \notin bad BY <1>0, BlockFacts DEF BaseInv, WorldInv
  <2> QED BY <1>0, <2>1 DEF ChainInv, CoinInv
<1>3. BlocksInv' BY <1>0, <1>1, <1>2 DEF BlocksInv, Sound
<1>4. ASSUME NEW u \in Threads PROVE ThreadInv(u)' /\ Lowest(u)' /\ HasTop(u)'
  <2>1. ThreadInv(u) BY <1>0 DEF SearchInv
  <2>2. pc'[u] \in {"connect", "idle"} /\ queue'[u] = {} /\ attach'[u] = {} BY <1>1
  <2>3. job'[u].ok /\ ~Setting(u)'
    BY <1>0, <1>1, <2>1 DEF Setting, ThreadInv, Types, JobType
  <2>4. ThreadInv(u)' BY <1>1, <2>1, <2>2, <2>3 DEF ThreadInv
  <2> QED BY <2>2, <2>4 DEF Lowest, HasTop
<1>5. pc'[t] = "connect" /\ job'[t].kind = "init" BY <1>0, <1>1 DEF Types, JobType
<1>6. HeavierInv' BY <1>5 DEF HeavierInv, Covers, Trying
<1>7. OrphansInv' BY <1>1 DEF OrphansInv, Ripe
<1> QED BY <1>3, <1>4, <1>6, <1>7 DEF SearchInv

LEMMA SearchNext == ASSUME FullInv, [Next]_vars PROVE SearchInv'
<1>0. LockedInv /\ BaseInv /\ CheckpointInv /\ Types /\ LockInv /\ SearchInv
  BY DEF FullInv, LockedInv, BaseInv
<1>1. Advances BY <1>0, CheckpointNext
<1>2. CASE UNCHANGED vars
  BY <1>0, <1>2
  DEF SearchInv, BlocksInv, HeavierInv, OrphansInv, ThreadInv, Lowest, HasTop, TopOf, Untried,
      Heavier, Trying, Covers, Waits, Ripe, Setting, NeverForced, Sound, vars, world, indexVars,
      tipVars, coinVars, checkVars, threadVars
<1>3. ASSUME NEW t \in Threads, NEW b \in Blocks, ProcessBlock(t, b) PROVE SearchInv'
  <2>1. \A u \in Threads : pc[u] = "idle"
    BY <1>0, <1>3, ThreadsAssumption DEF ProcessBlock, Ready, LockInv
  <2>2. \A u \in Threads \ {t} : Same(u) /\ queue'[u] = queue[u]
    BY <1>0, <1>3, AddSame DEF ProcessBlock, Same
  <2>3. \A u \in Threads \ {t} : blk'[u] = blk[u]
    BY <1>0, <1>3 DEF ProcessBlock, AddToBlockIndex, Types, JobType
  <2>4. Alone(t) BY <2>1, <2>2, <2>3 DEF Alone, Alike
  <2> QED BY <1>3, <2>1, <2>4, SearchAdd DEF ProcessBlock
<1>4. ASSUME NEW t \in Threads, NEW b \in Blocks, ShuntOrphan(t, b) PROVE SearchInv'
  <2>1. /\ UNCHANGED <<pprev, ancestors, bad, enforced, mapBlockIndex, nChainWork, failed,
                       setBlockIndexValid, pindexBest, coinsBest, diskBest, hashSyncCheckpoint,
                       pc, job, blk, queue, attach, view>>
        /\ orphans' = orphans \cup {b} /\ pprev[b] \notin mapBlockIndex
    BY <1>4 DEF ShuntOrphan, world, indexVars, tipVars, coinVars, checkVars, threadVars
  <2>2. BlocksInv' /\ HeavierInv'
    BY <1>0, <2>1 DEF SearchInv, BlocksInv, HeavierInv, NeverForced, Heavier, Untried, Covers,
       Trying, Sound
  <2>3. \A u \in Threads : ThreadInv(u)' /\ Lowest(u)' /\ HasTop(u)'
    BY <1>0, <2>1 DEF SearchInv, ThreadInv, Lowest, HasTop, TopOf, Untried, Setting
  <2>4. \A o \in Blocks : Ripe(o)' => Ripe(o) BY <2>1 DEF Ripe, Sound
  <2>5. OrphansInv'
    BY <1>0, <2>1, <2>4 DEF SearchInv, OrphansInv, NeverForced, Waits, Trying
  <2> QED BY <2>2, <2>3, <2>5 DEF SearchInv
<1>5. Net \subseteq Threads BY DEF Threads
<1> QED BY <1>1, <1>2, <1>3, <1>4, <1>5, SearchStep, SearchProcessSyncCheckpoint, SearchRestart
    DEF Next

LEMMA FullInit == Init /\ Pool = {} => FullInv
<1> SUFFICES ASSUME Init, Pool = {} PROVE FullInv OBVIOUS
<1>1. LockedInv /\ BaseInv BY LockedInit DEF LockedInv
<1>2. CheckpointInv BY DEF Init, CheckpointInv, Setting
<1>3. ancestors[Genesis] = {Genesis} BY <1>1, OnlyGenesis
<1>4. Genesis \notin bad BY <1>1, BlockFacts DEF BaseInv, WorldInv
<1>5. BlocksInv BY <1>3, <1>4 DEF Init, BlocksInv, Sound
<1>6. HeavierInv
  <2>1. \A b \in mapBlockIndex : ~Heavier(b) BY BlockFacts DEF Init, Heavier
  <2> QED BY <2>1 DEF HeavierInv
<1>7. OrphansInv BY DEF Init, OrphansInv, Ripe
<1>8. \A t \in Threads : ThreadInv(t) /\ Lowest(t) /\ HasTop(t)
  BY DEF Init, ThreadInv, Setting, Lowest, HasTop
<1> QED BY <1>1, <1>2, <1>5, <1>6, <1>7, <1>8 DEF FullInv, SearchInv

LEMMA FullNext == FullInv /\ [Next]_vars => FullInv'
<1> SUFFICES ASSUME FullInv, [Next]_vars PROVE FullInv' OBVIOUS
<1>1. LockedInv /\ BaseInv /\ CheckpointInv BY DEF FullInv, LockedInv
<1> QED BY <1>1, LockedNext, CheckpointNext, SearchNext DEF FullInv

(* HeaviestIsFound: under cs_main, and until an enforced checkpoint comes, *)
(* every handler leaves the node on a chain that no known sound chain      *)
(* outweighs: the search that gives up at the first refused block has then *)
(* tried the only candidate, the new block.                                *)
THEOREM HeaviestIsFound == Spec /\ Pool = {} => []BestIsHeaviest
<1>1. FullInv => BestIsHeaviest
  <2> SUFFICES ASSUME FullInv, Idle, NeverForced, NEW b \in mapBlockIndex, Sound(b)
               PROVE  nChainWork[b] <= nChainWork[pindexBest]
    BY DEF BestIsHeaviest
  <2>1. BaseInv /\ Types /\ SoundBlocksNeverFail /\ SearchInv /\ b \in All
    BY DEF FullInv, LockedInv, BaseInv, Types, IndexType
  <2>2. Untried(b)
    <3>1. ASSUME NEW a \in ancestors[b], a \in failed PROVE FALSE
      <4>1. ancestors[a] \subseteq ancestors[b] BY <2>1 DEF BaseInv, WorldInv
      <4> QED BY <2>1, <3>1, <4>1 DEF SoundBlocksNeverFail, Sound
    <3> QED BY <3>1 DEF Untried
  <2>3. ~Heavier(b)
    <3>1. \A t \in Threads : ~Covers(t, b) BY DEF Idle, Covers, Trying
    <3> QED BY <2>1, <3>1 DEF SearchInv, HeavierInv
  <2>4. nChainWork[b] \in Nat /\ nChainWork[pindexBest] \in Nat
    BY <2>1 DEF Types, IndexType, TipType
  <2> QED BY <2>2, <2>3, <2>4 DEF Heavier
<1> QED BY FullInit, FullNext, <1>1, PTL DEF Spec

(* OrphansAreReleased: under cs_main, and until an enforced checkpoint     *)
(* comes, no handler ends while a sound orphan could be accepted: when a   *)
(* block is given up with its orphans, a block it builds on is refused.    *)
THEOREM OrphansAreReleased == Spec /\ Pool = {} => []NoSoundOrphanIsStranded
<1>1. FullInv => NoSoundOrphanIsStranded
  <2> SUFFICES ASSUME FullInv, Idle, NeverForced, NEW o \in orphans, pprev[o] \in mapBlockIndex, Sound(o)
               PROVE  FALSE
    BY DEF NoSoundOrphanIsStranded
  <2>1. o \in Blocks /\ OrphansInv
    BY DEF FullInv, LockedInv, BaseInv, Types, OrphanType, SearchInv
  <2>2. PICK t \in Threads : Waits(t, pprev[o]) BY <2>1 DEF OrphansInv, Ripe
  <2> QED BY <2>2 DEF Waits, Idle
<1> QED BY FullInit, FullNext, <1>1, PTL DEF Spec

-----------------------------------------------------------------------------
(* How the best block changes. *)
Better == \/ nChainWork[pindexBest'] > nChainWork[pindexBest]
          \/ enforced /\ hashSyncCheckpoint' = pindexBest'
          \/ restarts' = restarts + 1 /\ pindexBest' = diskBest

LEMMA NewBestIsBetter == ASSUME FullInv, NEW t \in Threads, NewBestBlock(t) PROVE Better
<1>0. Types /\ ThreadInv(t) /\ Lowest(t) /\ HasTop(t) /\ CheckpointInv /\ pc[t] = "tip"
  BY DEF FullInv, LockedInv, BaseInv, SearchInv, NewBestBlock
<1>1. pindexBest' = view[t].new /\ view[t].new \in attach[t] BY <1>0 DEF NewBestBlock, Lowest
<1>2. CASE job[t].kind \in {"checkpoint", "pending"}
  <2>1. Setting(t) /\ enforced /\ job[t].ok BY <1>0, <1>2 DEF Setting, ThreadInv
  <2>2. hashSyncCheckpoint' = view[t].new BY <1>2, <2>1 DEF NewBestBlock, WriteSyncCheckpoint
  <2> QED BY <1>1, <2>1, <2>2 DEF Better
<1>3. CASE job[t].kind \in {"block", "init"}
  <2>1. PICK top \in attach[t] : TopOf(t, top) BY <1>0, <1>3 DEF HasTop
  <2> QED BY <1>1, <2>1 DEF TopOf, Better
<1> QED BY <1>0, <1>2, <1>3 DEF Types, JobType, Kinds

LEMMA OnlyNewBestBlock ==
    ASSUME NEW t, Step(t), ~NewBestBlock(t) PROVE UNCHANGED tipVars
<1>1. CASE \E o \in Blocks : AcceptOrphan(t, o) BY <1>1 DEF AcceptOrphan
<1>2. CASE NoMoreOrphans(t) \/ NothingToDo(t) BY <1>2 DEF NoMoreOrphans, NothingToDo
<1>3. CASE \E top \in All : MarkDescendants(t, top) \/ ChooseChain(t, top)
  BY <1>3 DEF MarkDescendants, ChooseChain
<1>4. CASE \E new \in All : Connected(t, new) \/ DisconnectFails(t, new)
  BY <1>4 DEF Connected, DisconnectFails
<1>5. CASE \E new, x \in All : InvalidBlockFound(t, new, x) BY <1>5 DEF InvalidBlockFound
<1>6. CASE Flush(t) \/ AcceptPendingSyncCheckpoint(t)
  BY <1>6 DEF Flush, AcceptPendingSyncCheckpoint
<1> QED BY <1>1, <1>2, <1>3, <1>4, <1>5, <1>6 DEF Step

LEMMA RestartIsBetter ==
    ASSUME FullInv, NEW t \in Threads, NEW clean \in BOOLEAN, Restart(t, clean),
           pindexBest' # pindexBest
    PROVE  Better
<1>1. restarts' = restarts + 1 /\ pindexBest' = IF clean THEN coinsBest ELSE diskBest BY DEF Restart
<1>2. ASSUME clean PROVE pindexBest = coinsBest
  <2>1. \A u \in Threads : pc[u] = "idle" BY <1>2 DEF Restart
  <2> QED BY <2>1 DEF FullInv, LockedInv, ChainInv, TipInv
<1> QED BY <1>1, <1>2 DEF Better

(* BestOnlyImproves: under cs_main the best block is replaced only by one  *)
(* with strictly more work behind it, block by block on the way through a  *)
(* reorganisation; by the block of an enforced checkpoint, in the step     *)
(* that writes the checkpoint; or at a start, by the best block of the     *)
(* coins on disk, and then not if the process was stopped in order.  So a  *)
(* block that was replaced as the best one does not come back while the    *)
(* node runs.                                                              *)
THEOREM BestOnlyImproves == Spec /\ Pool = {} => [][pindexBest' # pindexBest => Better]_vars
<1>1. FullInv /\ [Next]_vars => [pindexBest' # pindexBest => Better]_vars
  <2> SUFFICES ASSUME FullInv, Next, pindexBest' # pindexBest PROVE Better
    BY DEF vars, tipVars
  <2>1. CASE \E t \in Threads : Step(t) BY <2>1, NewBestIsBetter, OnlyNewBestBlock DEF tipVars
  <2>2. CASE \E t \in Threads, b \in Blocks : ProcessBlock(t, b) \/ ShuntOrphan(t, b)
    BY <2>2 DEF ProcessBlock, ShuntOrphan, tipVars
  <2>3. CASE \E t \in Net, c \in Checkpoints : ProcessSyncCheckpoint(t, c)
    BY <2>3 DEF ProcessSyncCheckpoint, tipVars
  <2>4. CASE \E t \in Net, clean \in BOOLEAN : Restart(t, clean)
    BY <2>4, RestartIsBetter DEF Threads
  <2> QED BY <2>1, <2>2, <2>3, <2>4 DEF Next
<1> QED BY FullInit, FullNext, <1>1, PTL DEF Spec

-----------------------------------------------------------------------------
(* Handlers end.  A block that is marked is known, and no longer valid.    *)
MarkInv == failed \subseteq mapBlockIndex /\ failed \cap setBlockIndexValid = {}

(* How far a handler is, in its order (Stage), and within SetBestChain     *)
(* (Spot).                                                                 *)
Stage(t) == CASE pc[t] \in {"idle", "down"} -> 0
              [] pc[t] = "orphans" -> 1
              [] Setting(t) /\ pc[t] # "connect" -> 2
              [] pc[t] = "pending" -> 3
              [] pc[t] \in {"set", "flush", "tip"} /\ ~Setting(t) -> 4
              [] OTHER -> 5
Spot(t) == CASE pc[t] = "set" -> 2 [] pc[t] = "flush" -> 1 [] OTHER -> 0
Less(S, T) == S \subseteq T /\ S # T

(* The handler of t comes nearer to its end: there are fewer orphans, or   *)
(* the stage is lower, or more blocks are marked, or there are fewer       *)
(* blocks to attach, or SetBestChain is further.  Each matters only where  *)
(* those before it stay, and all are bounded, as the blocks are.           *)
Nearer(t) ==
    \/ Less(orphans', orphans)
    \/ /\ orphans' = orphans
       /\ \/ Stage(t)' < Stage(t)
          \/ /\ Stage(t)' = Stage(t)
             /\ \/ Less(failed, failed')
                \/ /\ failed' = failed
                   /\ \/ Less(attach'[t], attach[t])
                      \/ attach'[t] = attach[t] /\ Spot(t)' < Spot(t)

LEMMA ContinueStage ==
    ASSUME Types, NEW t \in Threads, Trying(t), UNCHANGED job, NEW ok \in BOOLEAN, Continue(t, ok)
    PROVE  Stage(t)' < Stage(t)
<1>1. job[t].kind \in Kinds BY DEF Types, JobType
<1>2. CASE job[t].kind \in {"init", "checkpoint"}
  <2>1. Goto(t, "idle") \/ Goto(t, "down") BY <1>2 DEF Continue, Return
  <2>2. pc'[t] \in {"idle", "down"} BY <2>1, GotoSame DEF Places
  <2> QED BY <2>2 DEF Stage, Setting, Trying
<1>3. CASE job[t].kind = "pending"
  <2>1. Goto(t, "orphans") BY <1>3 DEF Continue, Accepted
  <2>2. pc'[t] = "orphans" BY <2>1, GotoSame DEF Places
  <2> QED BY <2>2 DEF Stage, Setting, Trying
<1>4. CASE job[t].kind = "block"
  <2>1. pc'[t] \in {"idle", "down", "pending", "orphans"} BY ContinueLeaves
  <2> QED BY <1>4, <2>1 DEF Stage, Setting, Trying
<1> QED BY <1>1, <1>2, <1>3, <1>4 DEF Kinds

(* The top of the chain is visited, and is one of the descendants. *)
LEMMA TopIsMarked ==
    ASSUME FullInv, MarkInv, NEW t \in Threads, NEW top \in All, MarkDescendants(t, top)
    PROVE  /\ top \notin failed /\ top \in failed'
           /\ \E f \in ancestors[top] :
                 /\ failed' = failed \cup Descendants(top, f)
                 /\ setBlockIndexValid' = setBlockIndexValid \ Descendants(top, f)
           /\ \A f : Descendants(top, f) \subseteq mapBlockIndex
<1>1. BaseInv /\ BlocksInv BY DEF FullInv, LockedInv, SearchInv
<1>2. PICK f \in Visited(top) \cap failed :
            /\ failed' = failed \cup Descendants(top, f)
            /\ setBlockIndexValid' = setBlockIndexValid \ Descendants(top, f)
  BY DEF MarkDescendants
<1>3. top \in setBlockIndexValid /\ top \in mapBlockIndex /\ top \notin failed
  BY <1>1 DEF MarkDescendants, Heaviest, BlocksInv, MarkInv
<1>4. f \in ancestors[top] /\ f # top BY <1>2, <1>3 DEF Visited
<1>5. top \in Visited(top)
  <2>1. top \in ancestors[top] BY <1>1 DEF BaseInv, WorldInv
  <2>2. ASSUME NEW y \in ancestors[top], top \in ancestors[y] PROVE top = y
    <3>1. y \in All BY <1>1 DEF BaseInv, WorldInv
    <3>2. y <= top /\ top <= y BY <1>1, <2>2, <3>1 DEF BaseInv, WorldInv
    <3> QED BY <3>1, <3>2, BlockFacts
  <2> QED BY <2>1, <2>2 DEF Visited
<1>6. top \in Descendants(top, f) BY <1>4, <1>5 DEF Descendants
<1>7. Visited(top) \subseteq mapBlockIndex BY <1>1, <1>3 DEF Visited, BlocksInv
<1> QED BY <1>2, <1>3, <1>4, <1>6, <1>7 DEF Descendants

(* A block that SetBestChain refuses is not in the best chain. *)
LEMMA RefusedIsNotLinked ==
    ASSUME FullInv, NEW t \in Threads, NEW new \in All, NEW x \in All, InvalidBlockFound(t, new, x)
    PROVE  pnext[x] = None /\ x \in mapBlockIndex
<1>1. LockInv /\ ChainInv /\ BlocksInv /\ ThreadInv(t) BY DEF FullInv, LockedInv, SearchInv
<1>2. pc[t] = "set" /\ new \in attach[t] /\ x \in VConnect(new) BY DEF InvalidBlockFound, Switch
<1>3. \A u \in Threads : pc[u] # "tip" BY <1>1, <1>2 DEF LockInv
<1>4. pindexBest = coinsBest BY <1>1, <1>3 DEF ChainInv, TipInv
<1>5. pnext[x] = None BY <1>1, <1>2, <1>4 DEF ChainInv, LinkInv, VConnect
<1> QED BY <1>1, <1>2, <1>5 DEF ThreadInv, BlocksInv, VConnect

LEMMA MarkNext == FullInv /\ MarkInv /\ [Next]_vars => MarkInv'
<1> SUFFICES ASSUME FullInv, MarkInv, [Next]_vars PROVE MarkInv' OBVIOUS
<1>1. ASSUME UNCHANGED indexVars PROVE MarkInv' BY <1>1 DEF indexVars, MarkInv
<1>2. ASSUME NEW t, NEW b, b \notin mapBlockIndex, AddToBlockIndex(t, b) PROVE MarkInv'
  BY <1>2 DEF AddToBlockIndex, MarkInv
<1>3. ASSUME NEW t \in Threads, Step(t) PROVE MarkInv'
  <2>1. CASE \E o \in Blocks : AcceptOrphan(t, o) BY <1>1, <1>2, <2>1 DEF AcceptOrphan, Acceptable
  <2>2. CASE NoMoreOrphans(t) \/ NothingToDo(t) BY <1>1, <2>2 DEF NoMoreOrphans, NothingToDo
  <2>3. CASE \E top \in All : MarkDescendants(t, top)
    <3>1. PICK top \in All : MarkDescendants(t, top) BY <2>3
    <3>2. mapBlockIndex' = mapBlockIndex BY <3>1 DEF MarkDescendants
    <3> QED BY <3>1, <3>2, TopIsMarked DEF MarkInv
  <2>4. CASE \E top \in All : ChooseChain(t, top) BY <1>1, <2>4 DEF ChooseChain
  <2>5. CASE \E new \in All : Connected(t, new) \/ DisconnectFails(t, new)
    BY <1>1, <2>5 DEF Connected, DisconnectFails
  <2>6. CASE \E new, x \in All : InvalidBlockFound(t, new, x)
    <3>1. PICK new \in All, x \in All : InvalidBlockFound(t, new, x) BY <2>6
    <3>2. x \in mapBlockIndex BY <3>1, RefusedIsNotLinked
    <3> QED BY <3>1, <3>2 DEF InvalidBlockFound, MarkInv
  <2>7. CASE Flush(t) \/ NewBestBlock(t) \/ AcceptPendingSyncCheckpoint(t)
    BY <1>1, <2>7 DEF Flush, NewBestBlock, AcceptPendingSyncCheckpoint
  <2> QED BY <1>3, <2>1, <2>2, <2>3, <2>4, <2>5, <2>6, <2>7 DEF Step
<1>4. ASSUME NEW t, NEW b, ProcessBlock(t, b) \/ ShuntOrphan(t, b) PROVE MarkInv'
  BY <1>1, <1>2, <1>4 DEF ProcessBlock, ShuntOrphan, Acceptable
<1>5. ASSUME NEW t, NEW c, ProcessSyncCheckpoint(t, c) PROVE MarkInv'
  BY <1>1, <1>5 DEF ProcessSyncCheckpoint
<1>6. ASSUME NEW t, NEW clean, Restart(t, clean) PROVE MarkInv' BY <1>6 DEF Restart, MarkInv
<1>7. CASE UNCHANGED vars BY <1>1, <1>7 DEF vars
<1> QED BY <1>3, <1>4, <1>5, <1>6, <1>7 DEF Next

LEMMA StepIsNearer == ASSUME FullInv, MarkInv, NEW t \in Threads, Step(t) PROVE Nearer(t)
<1>0. /\ LockedInv /\ BaseInv /\ Types /\ ThreadInv(t) /\ Lowest(t) /\ job[t].ok \in BOOLEAN
      /\ attach \in [Threads -> SUBSET Blocks]
  BY DEF FullInv, LockedInv, BaseInv, SearchInv, Types, JobType, AttachType
<1>1. ASSUME orphans' = orphans, Stage(t)' < Stage(t) PROVE Nearer(t) BY <1>1 DEF Nearer
<1>2. ASSUME NEW o \in Blocks, AcceptOrphan(t, o) PROVE Nearer(t)
  BY <1>2 DEF AcceptOrphan, Nearer, Less
<1>3. CASE NoMoreOrphans(t)
  <2>1. pc[t] = "orphans" /\ Goto(t, "idle") /\ orphans' = orphans BY <1>3 DEF NoMoreOrphans, Return
  <2>2. pc'[t] = "idle" BY <1>0, <2>1, GotoSame DEF Places
  <2> QED BY <1>1, <2>1, <2>2 DEF Stage, Setting
<1>4. CASE NothingToDo(t)
  BY <1>0, <1>1, <1>4, ContinueStage DEF NothingToDo, Trying
<1>5. ASSUME NEW top \in All, MarkDescendants(t, top) PROVE Nearer(t)
  <2>1. UNCHANGED <<pc, job, orphans>> BY <1>5 DEF MarkDescendants, threadVars
  <2>2. Stage(t)' = Stage(t) BY <2>1 DEF Stage, Setting
  <2>3. Less(failed, failed') BY <1>5, TopIsMarked DEF Less
  <2> QED BY <2>1, <2>2, <2>3 DEF Nearer
<1>6. ASSUME NEW top \in All, ChooseChain(t, top) PROVE Nearer(t)
  <2>1. pc[t] = "connect" /\ UNCHANGED <<job, orphans>> BY <1>6 DEF ChooseChain
  <2>2. CASE Continue(t, job[t].ok) BY <1>0, <1>1, <2>1, <2>2, ContinueStage DEF Trying
  <2>3. CASE Goto(t, "set")
    <3>1. pc'[t] = "set" BY <1>0, <2>3, GotoSame DEF Places
    <3>2. Stage(t) = 5 BY <2>1 DEF Stage
    <3>3. Stage(t)' \in {2, 4} BY <3>1 DEF Stage, Setting
    <3> QED BY <1>1, <2>1, <3>2, <3>3
  <2> QED BY <1>6, <2>2, <2>3 DEF ChooseChain
<1>7. ASSUME UNCHANGED <<job, orphans, failed, attach>>,
             \/ pc[t] = "set" /\ pc'[t] = "flush"
             \/ pc[t] = "flush" /\ pc'[t] = "tip"
      PROVE  Nearer(t)
  <2>1. Stage(t)' = Stage(t) BY <1>7 DEF Stage, Setting
  <2>2. Spot(t)' < Spot(t) BY <1>7 DEF Spot
  <2> QED BY <1>7, <2>1, <2>2 DEF Nearer
<1>8. ASSUME NEW new \in All, Connected(t, new) PROVE Nearer(t)
  <2>1. UNCHANGED <<job, orphans, failed, attach>> /\ pc[t] = "set" /\ Goto(t, "flush")
    BY <1>8 DEF Connected, indexVars
  <2>2. pc'[t] = "flush" BY <1>0, <2>1, GotoSame DEF Places
  <2> QED BY <1>7, <2>1, <2>2
<1>9. CASE Flush(t)
  <2>1. UNCHANGED <<job, orphans, failed, attach>> /\ pc[t] = "flush" /\ Goto(t, "tip")
    BY <1>9 DEF Flush, indexVars
  <2>2. pc'[t] = "tip" BY <1>0, <2>1, GotoSame DEF Places
  <2> QED BY <1>7, <2>1, <2>2
<1>10. ASSUME NEW new \in All, NEW x \in All, InvalidBlockFound(t, new, x) PROVE Nearer(t)
  <2>1. Continue(t, FALSE) /\ UNCHANGED <<job, orphans>> /\ Trying(t)
    BY <1>10, RefusedIsNotLinked DEF InvalidBlockFound, Trying
  <2> QED BY <1>0, <1>1, <2>1, ContinueStage
<1>11. CASE NewBestBlock(t)
  <2>1. UNCHANGED <<job, orphans, failed>> /\ pc[t] = "tip" /\ Trying(t)
    BY <1>11 DEF NewBestBlock, indexVars, Trying
  <2>2. CASE Continue(t, job[t].ok) BY <1>0, <1>1, <2>1, <2>2, ContinueStage
  <2>3. CASE Goto(t, "set")
    <3>1. pc'[t] = "set" BY <1>0, <2>3, GotoSame DEF Places
    <3>2. Stage(t)' = Stage(t) BY <2>1, <3>1 DEF Stage, Setting
    <3>3. view[t].new \in attach[t] BY <1>0, <2>1 DEF Lowest
    <3>4. attach'[t] = attach[t] \ {view[t].new} BY <1>0, <1>11 DEF NewBestBlock
    <3>5. Less(attach'[t], attach[t]) BY <3>3, <3>4 DEF Less
    <3> QED BY <2>1, <3>2, <3>5 DEF Nearer
  <2> QED BY <1>11, <2>2, <2>3 DEF NewBestBlock
<1>12. CASE AcceptPendingSyncCheckpoint(t)
  <2>1. pc[t] = "pending" /\ orphans' = orphans BY <1>12 DEF AcceptPendingSyncCheckpoint
  <2>2. Stage(t) = 3 BY <2>1 DEF Stage, Setting
  <2>3. CASE Accepted(t)
    <3>1. pc'[t] = "orphans" BY <1>0, <2>3, GotoSame DEF Accepted, Places
    <3>2. Stage(t)' = 1 BY <3>1 DEF Stage, Setting
    <3> QED BY <1>1, <2>1, <2>2, <3>2
  <2>4. CASE SwitchTo(t, hashPendingCheckpoint, "pending")
    <3>1. pc'[t] = "set" /\ job'[t] = [kind |-> "pending", ok |-> TRUE] BY <1>0, <2>4, SwitchSame
    <3>2. Stage(t)' = 2 BY <3>1 DEF Stage, Setting
    <3> QED BY <1>1, <2>1, <2>2, <3>2
  <2> QED BY <1>12, <2>3, <2>4 DEF AcceptPendingSyncCheckpoint
<1> QED BY <1>0, <1>2, <1>3, <1>4, <1>5, <1>6, <1>8, <1>9, <1>10, <1>11, <1>12, DisconnectNeverFails
    DEF Step

(* HandlersComeNearer: under cs_main, whatever step the node takes while a *)
(* handler is under way, short of a restart, brings that handler nearer to *)
(* its end: the search that starts again after marking a refused chain has *)
(* one chain less, and the orphans that release orphans run out.           *)
THEOREM HandlersComeNearer ==
    Spec /\ Pool = {} =>
        [][\A t \in Threads : pc[t] # "idle" => Nearer(t) \/ restarts' = restarts + 1]_vars
<1> DEFINE A == \A t \in Threads : pc[t] # "idle" => Nearer(t) \/ restarts' = restarts + 1
<1>1. Init /\ Pool = {} => FullInv /\ MarkInv
  <2>1. Init => MarkInv BY DEF Init, MarkInv
  <2> QED BY <2>1, FullInit
<1>2. FullInv /\ MarkInv /\ [Next]_vars => (FullInv /\ MarkInv)' BY FullNext, MarkNext
<1>3. FullInv /\ MarkInv /\ [Next]_vars => [A]_vars
  <2> SUFFICES ASSUME FullInv, MarkInv, Next, NEW t \in Threads, pc[t] # "idle", restarts' # restarts + 1
               PROVE  Nearer(t)
    OBVIOUS
  <2>1. LockInv /\ Types /\ csMain = t /\ t \notin Pool /\ t # NoThread
    BY ThreadsAssumption DEF FullInv, LockedInv, BaseInv, LockInv
  <2>2. ASSUME NEW u \in Threads PROVE ~Ready(u) BY <2>1 DEF Ready, LockInv
  <2>3. ASSUME NEW u \in Threads, Step(u) PROVE Nearer(t)
    <3>1. pc[u] # "idle" BY <2>1, <2>3, LockStep
    <3>2. u = t BY <2>1, <3>1 DEF LockInv
    <3> QED BY <2>3, <3>2, StepIsNearer
  <2>4. \A u \in Threads : \A b : ~ProcessBlock(u, b) /\ ~ShuntOrphan(u, b) /\ ~ProcessSyncCheckpoint(u, b)
    BY <2>2 DEF ProcessBlock, ShuntOrphan, ProcessSyncCheckpoint
  <2>5. \A u, clean : ~Restart(u, clean) BY DEF Restart
  <2>6. Net \subseteq Threads BY DEF Threads
  <2> QED BY <2>3, <2>4, <2>5, <2>6 DEF Next
<1> QED BY <1>1, <1>2, <1>3, PTL DEF Spec
=============================================================================
