------------------------- MODULE ConfirmationsProofs -------------------------
(***************************************************************************)
(* Proofs about Confirmations, for every tree of blocks, every set of      *)
(* blocks of the pool and every number of failures and restarts.           *)
(***************************************************************************)
EXTENDS Confirmations, FiniteSetTheorems, TLAPS

(* What the model says of the tree, once and for all.                      *)
WorldInv ==
    /\ pprev \in [Blocks -> All]
    /\ \A b \in Blocks : pprev[b] < b
    /\ ancestors \in [All -> SUBSET All]
    /\ \A b, a \in All :
          a \in ancestors[b] <=> \A S \in SUBSET All : b \in S /\ Closed(S) => a \in S

(* The links are those of the best chain, but while SetBestChain works on  *)
(* them: first some of the old chain's are left, then only links of the    *)
(* new one are there.                                                      *)
LinkInv ==
    /\ moving = "no" => pindexSwitch = pindexBest
    /\ moving # "no" => pindexSwitch \notin ancestors[pindexBest]
    /\ moving # "tie" => linked \subseteq Links(pindexBest)
    /\ moving = "tie" => linked \subseteq Links(pindexSwitch)

(* Blocks that are Final deep have been settled, but the genesis block.    *)
DeepInv == Deep(pindexBest) \cap Blocks \subseteq settled

(* The rows still to come, and the row being looked at, are not settled    *)
(* yet.  While its depth is read without a reorganisation that moves its   *)
(* block, the block is in the best chain or in one that extends it; a      *)
(* depth that settles the row was then read while the block had it.        *)
RowInv ==
    /\ \A b \in todo : confirmations[b] < Final
    /\ pc \in {"best", "depth", "depthbest", "height", "update", "orphaned"} =>
          row \in rows /\ row \notin todo /\ confirmations[row] < Final
    /\ pc = "height" /\ row \notin torn =>
          /\ row \in ancestors[pindexSwitch]
          /\ row \in ancestors[pindexBest] \/ pindexBest \in ancestors[pindexSwitch]
    /\ pc = "update" /\ iConfirmations >= Final => row \in settled \cup torn

Inv ==
    /\ TypeOK /\ WorldInv /\ Closed(mapBlockIndex) /\ LinkInv /\ DeepInv /\ RowInv
    /\ FinalRowsStayInChain

-----------------------------------------------------------------------------
(* WorldInit: the tree that Init makes is as WorldInv says.                *)
LEMMA WorldInit == Init => WorldInv
<1> SUFFICES ASSUME Init PROVE WorldInv
    OBVIOUS
<1>1. pprev \in [Blocks -> All] /\ \A b \in Blocks : pprev[b] < b
    BY TreesAssumption DEF Init
<1>2. ancestors \in [All -> SUBSET All]
    BY DEF Init
<1>3. ASSUME NEW b \in All, NEW a \in All
      PROVE  a \in ancestors[b] <=> \A S \in SUBSET All : b \in S /\ Closed(S) => a \in S
    BY <1>3 DEF Init
<1> QED BY <1>1, <1>2, <1>3 DEF WorldInv

(* LeastClosed: the ancestors of a block are the least closed set with it. *)
LEMMA LeastClosed ==
    ASSUME WorldInv, NEW b \in All
    PROVE  /\ ancestors[b] \subseteq All /\ b \in ancestors[b] /\ Closed(ancestors[b])
           /\ \A S \in SUBSET All : b \in S /\ Closed(S) => ancestors[b] \subseteq S
<1>1. ancestors[b] \subseteq All
    BY DEF WorldInv
<1>2. b \in ancestors[b]
    BY DEF WorldInv
<1>3. ASSUME NEW S \in SUBSET All, b \in S, Closed(S), NEW a \in ancestors[b] PROVE a \in S
    BY <1>1, <1>3 DEF WorldInv
<1>4. ASSUME NEW x \in ancestors[b] \cap Blocks PROVE pprev[x] \in ancestors[b]
    <2>1. x \in All /\ pprev[x] \in All
        BY <1>1 DEF WorldInv
    <2>2. ASSUME NEW S \in SUBSET All, b \in S, Closed(S) PROVE pprev[x] \in S
        <3>1. x \in S
            BY <1>3, <2>2
        <3> QED BY <2>2, <3>1 DEF Closed
    <2> QED BY <2>1, <2>2 DEF WorldInv
<1> QED BY <1>1, <1>2, <1>3, <1>4 DEF Closed

(* Transitive: an ancestor's ancestors are ancestors.                      *)
LEMMA Transitive ==
    ASSUME WorldInv, NEW b \in All, NEW a \in ancestors[b]
    PROVE  a \in All /\ ancestors[a] \subseteq ancestors[b]
<1>1. ancestors[b] \in SUBSET All /\ Closed(ancestors[b])
    BY LeastClosed
<1>2. a \in All
    BY <1>1
<1> QED BY <1>1, <1>2, LeastClosed

(* NotBelow: an ancestor has no higher number than the block.              *)
LEMMA NotBelow ==
    ASSUME WorldInv, NEW b \in All, NEW a \in ancestors[b]
    PROVE  a <= b
<1> DEFINE S == {x \in All : x <= b}
<1>1. All \subseteq Nat
    BY BoundsAssumption DEF All, Blocks, Genesis
<1>2. b \in S
    BY <1>1
<1>3. ASSUME NEW x \in S \cap Blocks PROVE pprev[x] \in S
    <2>1. pprev[x] \in All /\ pprev[x] < x
        BY DEF WorldInv
    <2> QED BY <1>1, <2>1
<1>4. Closed(S)
    BY <1>3 DEF Closed
<1>5. ancestors[b] \subseteq S
    BY <1>2, <1>4, LeastClosed
<1> QED BY <1>5

(* HasChild: every proper ancestor of a block is below one of the others.  *)
LEMMA HasChild ==
    ASSUME WorldInv, NEW b \in All, NEW a \in ancestors[b], a # b
    PROVE  \E x \in ancestors[b] \cap Blocks : pprev[x] = a
<1> DEFINE S == {b} \cup {pprev[x] : x \in ancestors[b] \cap Blocks}
<1>1. ancestors[b] \subseteq All /\ Closed(ancestors[b]) /\ b \in ancestors[b]
    BY LeastClosed
<1>2. S \subseteq ancestors[b]
    BY <1>1 DEF Closed
<1>3. Closed(S)
    BY <1>2 DEF Closed
<1>4. S \in SUBSET All
    BY <1>1, <1>2
<1>5. a \in S
    BY <1>3, <1>4, LeastClosed
<1> QED BY <1>5

(* Linear: of two ancestors of a block one is an ancestor of the other.    *)
LEMMA Linear ==
    ASSUME WorldInv, NEW b \in All, NEW a \in ancestors[b], NEW c \in ancestors[b]
    PROVE  a \in ancestors[c] \/ c \in ancestors[a]
<1> DEFINE S == {x \in All : x \in ancestors[c] \/ c \in ancestors[x]}
<1>1. a \in All /\ c \in All
    BY LeastClosed
<1>2. b \in S
    OBVIOUS
<1>3. ASSUME NEW x \in S \cap Blocks PROVE pprev[x] \in S
    <2>1. pprev[x] \in All /\ x \in All
        BY DEF WorldInv
    <2>2. CASE x \in ancestors[c]
        BY <1>1, <2>1, <2>2, LeastClosed DEF Closed
    <2>3. CASE c \in ancestors[x] /\ c = x
        <3>1. x \in ancestors[c]
            BY <1>1, <2>3, LeastClosed
        <3> QED BY <1>1, <2>1, <3>1, LeastClosed DEF Closed
    <2>4. CASE c \in ancestors[x] /\ c # x
        <3> DEFINE T == {x} \cup ancestors[pprev[x]]
        <3>1. ancestors[pprev[x]] \subseteq All /\ Closed(ancestors[pprev[x]])
              /\ pprev[x] \in ancestors[pprev[x]]
            BY <2>1, LeastClosed
        <3>2. T \in SUBSET All /\ Closed(T)
            BY <2>1, <3>1 DEF Closed
        <3>3. ancestors[x] \subseteq T
            BY <2>1, <3>2, LeastClosed
        <3> QED BY <2>1, <2>4, <3>3
    <2> QED BY <2>2, <2>3, <2>4
<1>4. Closed(S)
    BY <1>3 DEF Closed
<1>5. ancestors[b] \subseteq S
    BY <1>2, <1>4, LeastClosed
<1> QED BY <1>5

(* HeightFacts: heights are integers, and a proper ancestor is lower.      *)
LEMMA HeightFacts ==
    ASSUME WorldInv
    PROVE  /\ \A b \in All : Height(b) \in Int
           /\ \A b \in All : \A a \in ancestors[b] : b \notin ancestors[a] => Height(a) < Height(b)
<1>1. IsFiniteSet(All)
    <2>1. IsFiniteSet(0..NBlocks)
        BY FS_Interval, BoundsAssumption
    <2>2. All \subseteq 0..NBlocks
        BY BoundsAssumption DEF All, Blocks, Genesis
    <2> QED BY <2>1, <2>2, FS_Subset
<1>2. ASSUME NEW b \in All PROVE IsFiniteSet(ancestors[b])
    <2>1. ancestors[b] \subseteq All
        BY LeastClosed
    <2> QED BY <1>1, <2>1, FS_Subset
<1>3. ASSUME NEW b \in All PROVE Cardinality(ancestors[b]) \in Nat
    BY <1>2, FS_CardinalityType
<1>4. ASSUME NEW b \in All, NEW a \in ancestors[b], b \notin ancestors[a]
      PROVE  a \in All /\ Cardinality(ancestors[a]) < Cardinality(ancestors[b])
    <2>1. a \in All /\ ancestors[a] \subseteq ancestors[b]
        BY Transitive
    <2>2. ancestors[a] # ancestors[b]
        BY <1>4, LeastClosed
    <2>3. Cardinality(ancestors[a]) <= Cardinality(ancestors[b])
          /\ Cardinality(ancestors[a]) # Cardinality(ancestors[b])
        BY <1>2, <2>1, <2>2, FS_Subset
    <2> QED BY <1>3, <2>1, <2>3
<1>5. \A b \in All : Height(b) \in Int
    BY <1>3 DEF Height
<1>6. ASSUME NEW b \in All, NEW a \in ancestors[b], b \notin ancestors[a]
      PROVE  Height(a) < Height(b)
    BY <1>3, <1>4, <1>6 DEF Height
<1> QED BY <1>5, <1>6

(* DepthFacts: a depth is an integer, and one that settles a row whose     *)
(* block was not moved belongs to a settled block.                         *)
LEMMA DepthFacts ==
    ASSUME Inv, pc = "height"
    PROVE  Confirmed(row) \in Int /\ (Confirmed(row) >= Final => row \in settled \cup torn)
<1>1. pindexBest \in All /\ row \in All /\ pindexSwitch \in All
    BY DEF Inv, TypeOK
<1>2. Height(row) \in Int /\ Height(pindexBest) \in Int
    BY <1>1, HeightFacts DEF Inv
<1>3. CASE row \in torn
    BY <1>2, <1>3 DEF Confirmed
<1>4. CASE row \in ancestors[pindexBest]
    <2>1. Confirmed(row) >= Final => row \in Deep(pindexBest)
        BY <1>4 DEF Confirmed, Deep
    <2>2. row \in Blocks
        BY MineAssumption DEF Inv, RowInv, TypeOK
    <2> QED BY <1>2, <2>1, <2>2 DEF Inv, DeepInv, Confirmed
<1>5. CASE row \notin torn /\ row \notin ancestors[pindexBest]
    <2>1. row \in ancestors[pindexSwitch] /\ pindexBest \in ancestors[pindexSwitch]
        BY <1>5 DEF Inv, RowInv
    <2>2. pindexBest \in ancestors[row]
        BY <1>1, <1>5, <2>1, Linear DEF Inv
    <2>3. Height(pindexBest) < Height(row)
        BY <1>1, <1>5, <2>2, HeightFacts DEF Inv
    <2> QED BY <1>2, <2>3, BoundsAssumption DEF Confirmed
<1> QED BY <1>3, <1>4, <1>5

(* OldLinks: a link of the best chain that is not one of the chain of c    *)
(* is among those to be cut.                                               *)
LEMMA OldLinks ==
    ASSUME WorldInv, pindexBest \in All, NEW c \in All,
           NEW a \in Links(pindexBest), a \notin Below(pindexBest, c)
    PROVE  a \in ancestors[c]
<1>1. a \in ancestors[pindexBest] /\ a # pindexBest
    BY DEF Links
<1>2. PICK x \in ancestors[pindexBest] \cap Blocks : pprev[x] = a
    BY <1>1, HasChild
<1>3. x \in ancestors[c]
    BY <1>2 DEF Below
<1> QED BY <1>2, <1>3, LeastClosed DEF Closed
-----------------------------------------------------------------------------
LEMMA InitInv == Init => Inv
<1> SUFFICES ASSUME Init PROVE Inv
    OBVIOUS
<1>1. WorldInv
    BY WorldInit
<1>2. TypeOK
    <2>1. confirmations \in [Mine -> Int] /\ orphan \in [Mine -> BOOLEAN]
        BY DEF Init
    <2>2. failures \in 0..MaxFailures /\ restarts \in 0..MaxRestarts
        BY BoundsAssumption DEF Init
    <2>3. pc \in Places /\ Genesis \in All
        BY DEF Init, Places, All
    <2> QED BY <2>1, <2>2, <2>3 DEF Init, TypeOK
<1>3. Genesis \in All /\ Genesis \notin Blocks
    BY DEF Genesis, Blocks, All
<1>4. Closed(mapBlockIndex) /\ LinkInv
    BY <1>3 DEF Init, Closed, LinkInv
<1>5. DeepInv
    <2>1. ASSUME NEW b \in ancestors[Genesis] PROVE b = Genesis
        <3>1. Closed({Genesis}) /\ {Genesis} \in SUBSET All
            BY <1>3 DEF Closed
        <3> QED BY <1>1, <1>3, <3>1, LeastClosed
    <2> QED BY <1>3, <2>1 DEF Init, DeepInv, Deep
<1>6. RowInv /\ FinalRowsStayInChain
    BY DEF Init, RowInv, FinalRowsStayInChain
<1> QED BY <1>1, <1>2, <1>4, <1>5, <1>6 DEF Inv

(* ChainSame: a step that leaves the chain alone keeps what is said of it. *)
LEMMA ChainSame ==
    ASSUME Inv, UNCHANGED <<world, chainVars>>
    PROVE  WorldInv' /\ Closed(mapBlockIndex)' /\ LinkInv' /\ DeepInv'
BY DEF Inv, world, chainVars, moveVars, WorldInv, Closed, LinkInv, Links, DeepInv, Deep, Height

(* RowsSame: a step that leaves the table and the thread alone keeps what  *)
(* is said of them, if it moves no block whose depth is being read.        *)
LEMMA RowsSame ==
    ASSUME Inv, settled \subseteq settled', torn \subseteq torn',
           UNCHANGED <<tableVars, threadVars>>,
           pc = "height" /\ row \notin torn' =>
              /\ row \in ancestors'[pindexSwitch']
              /\ row \in ancestors'[pindexBest'] \/ pindexBest' \in ancestors'[pindexSwitch']
    PROVE  RowInv' /\ FinalRowsStayInChain'
<1>1. /\ rows' = rows /\ confirmations' = confirmations /\ orphan' = orphan
      /\ pc' = pc /\ todo' = todo /\ row' = row /\ iConfirmations' = iConfirmations
    BY DEF tableVars, threadVars
<1>2. RowInv'
    BY <1>1 DEF Inv, RowInv
<1>3. FinalRowsStayInChain'
    BY <1>1 DEF Inv, FinalRowsStayInChain
<1> QED BY <1>2, <1>3

(* AddKeeps: a block enters the index.                                     *)
LEMMA AddKeeps ==
    ASSUME Inv, NEW b \in Blocks, NEW best \in All, pprev[b] \in mapBlockIndex,
           AddToBlockIndex(b, best)
    PROVE  /\ mapBlockIndex' \subseteq All
           /\ {pindexBest, pindexNewBest, pindexSwitch}' \subseteq mapBlockIndex'
           /\ WorldInv' /\ Closed(mapBlockIndex)' /\ LinkInv' /\ DeepInv'
           /\ RowInv' /\ FinalRowsStayInChain'
<1>1. /\ UNCHANGED <<pprev, ancestors, pindexBest, linked, pindexSwitch, moving, settled, torn>>
      /\ mapBlockIndex' = mapBlockIndex \cup {b}
      /\ best \in mapBlockIndex' /\ pindexNewBest' = best
    BY DEF AddToBlockIndex, world
<1>2. mapBlockIndex' \subseteq All /\ {pindexBest, pindexNewBest, pindexSwitch}' \subseteq mapBlockIndex'
    BY <1>1 DEF Inv, TypeOK, All
<1>3. WorldInv' /\ LinkInv' /\ DeepInv'
    BY <1>1 DEF Inv, WorldInv, Closed, LinkInv, Links, DeepInv, Deep, Height
<1>4. Closed(mapBlockIndex)'
    BY <1>1 DEF Inv, Closed
<1>5. UNCHANGED <<tableVars, threadVars>>
    BY DEF AddToBlockIndex
<1>6. RowInv' /\ FinalRowsStayInChain'
    BY <1>1, <1>5, RowsSame DEF Inv, RowInv
<1> QED BY <1>2, <1>3, <1>4, <1>6

(* SwitchKeeps: the chain begins to move to another block.                 *)
LEMMA SwitchKeeps == ASSUME Inv, NEW b \in All, Switch(b) PROVE Inv'
<1>1. /\ UNCHANGED <<pprev, ancestors, mapBlockIndex, pindexBest, linked, pindexNewBest, settled>>
      /\ pindexSwitch' = b /\ moving = "no"
      /\ b \in ancestors[pindexNewBest] /\ b \notin ancestors[pindexBest]
    BY DEF Switch, world
<1>2. WorldInv' /\ Closed(mapBlockIndex)' /\ DeepInv'
    BY <1>1 DEF Inv, WorldInv, Closed, DeepInv, Deep, Height
<1>3. b \in mapBlockIndex /\ pindexBest \in All /\ pindexBest \in mapBlockIndex
    <2>1. pindexNewBest \in mapBlockIndex /\ pindexNewBest \in All /\ mapBlockIndex \in SUBSET All
        BY DEF Inv, TypeOK
    <2>2. ancestors[pindexNewBest] \subseteq mapBlockIndex
        BY <2>1, LeastClosed DEF Inv
    <2> QED BY <1>1, <2>1, <2>2 DEF Inv, TypeOK
<1>4. LinkInv'
    <2>1. linked \subseteq Links(pindexBest) /\ Links(pindexBest)' = Links(pindexBest)
        BY <1>1 DEF Inv, LinkInv, Links
    <2>2. CASE Below(pindexBest, b) = {}
        <3>1. moving' = "tie"
            BY <2>2 DEF Switch
        <3>2. ASSUME NEW a \in linked PROVE a \in ancestors[b] /\ a # b
            <4>1. a \in Links(pindexBest)
                BY <2>1
            <4>2. a \in ancestors[b]
                BY <1>3, <2>2, <4>1, OldLinks DEF Inv
            <4> QED BY <1>1, <4>1, <4>2 DEF Links
        <3> QED BY <1>1, <3>1, <3>2 DEF LinkInv, Links
    <2>3. CASE Below(pindexBest, b) # {}
        <3>1. moving' = "cut"
            BY <2>3 DEF Switch
        <3> QED BY <1>1, <2>1, <3>1 DEF LinkInv
    <2> QED BY <2>2, <2>3
<1>5. torn \subseteq torn' /\ (pc = "height" /\ row \notin torn' => ~Moves(row, b)) /\ torn' \subseteq torn \cup {row}
    BY DEF Switch
<1>6. pc = "height" /\ row \notin torn' =>
         /\ row \in ancestors[b]
         /\ row \in ancestors[pindexBest] \/ pindexBest \in ancestors[b]
    <2> SUFFICES ASSUME pc = "height", row \notin torn'
                 PROVE  row \in ancestors[b] /\ row \in ancestors[pindexBest]
        OBVIOUS
    <2>1. row \in ancestors[pindexBest]
        BY <1>1, <1>5 DEF Inv, RowInv, LinkInv
    <2>2. CASE pindexBest \in ancestors[b]
        BY <1>3, <2>1, <2>2, Transitive DEF Inv
    <2>3. CASE pindexBest \notin ancestors[b]
        BY <1>5, <2>1, <2>3 DEF Moves
    <2> QED BY <2>1, <2>2, <2>3
<1>7. UNCHANGED <<tableVars, threadVars>>
    BY DEF Switch
<1>8. RowInv' /\ FinalRowsStayInChain'
    BY <1>1, <1>5, <1>6, <1>7, RowsSame
<1>9. TypeOK'
    <2>1. moving' \in {"no", "cut", "tie"} /\ UNCHANGED <<poolVars, tableVars, threadVars, failures, restarts>>
        BY DEF Switch
    <2>2. torn' \subseteq rows
        BY DEF Switch, Inv, TypeOK, RowInv
    <2> QED BY <1>1, <1>3, <2>1, <2>2 DEF Inv, TypeOK, poolVars, tableVars, threadVars
<1> QED BY <1>2, <1>4, <1>8, <1>9 DEF Inv

(* LinkKeeps: a link is cut or tied.                                       *)
LEMMA LinkKeeps == ASSUME Inv, NEW b \in All, CutLink(b) \/ TieLink(b) PROVE Inv'
<1>1. /\ UNCHANGED <<pprev, ancestors, mapBlockIndex, pindexBest, pindexNewBest, pindexSwitch, settled, torn>>
      /\ UNCHANGED <<poolVars, tableVars, threadVars, failures, restarts>>
    BY DEF CutLink, TieLink, world
<1>2. WorldInv' /\ Closed(mapBlockIndex)' /\ DeepInv'
    BY <1>1 DEF Inv, WorldInv, Closed, DeepInv, Deep, Height
<1>3. RowInv' /\ FinalRowsStayInChain'
    BY <1>1, RowsSame DEF Inv, RowInv
<1>4. pindexBest \in All /\ pindexSwitch \in All
    BY DEF Inv, TypeOK
<1>5. Links(pindexBest)' = Links(pindexBest) /\ Links(pindexSwitch)' = Links(pindexSwitch)
    BY <1>1 DEF Links
<1>6. CASE CutLink(b)
    <2>1. /\ moving = "cut" /\ linked' = linked \ {b} /\ linked \subseteq Links(pindexBest)
          /\ moving' = IF ToCut = {b} THEN "tie" ELSE "cut"
          /\ pindexSwitch \notin ancestors[pindexBest]
        BY <1>6 DEF CutLink, Inv, LinkInv
    <2>2. ASSUME NEW a \in linked', ToCut = {b} PROVE a \in Links(pindexSwitch)
        <3>1. a \in Links(pindexBest) /\ a \notin Below(pindexBest, pindexSwitch)
            BY <2>1, <2>2 DEF ToCut
        <3>2. a \in ancestors[pindexSwitch]
            BY <1>4, <3>1, OldLinks DEF Inv
        <3> QED BY <2>1, <3>1, <3>2 DEF Links
    <2>3. ToCut = {b} => linked' \subseteq Links(pindexSwitch)
        BY <2>2
    <2>4. LinkInv'
        BY <1>1, <1>5, <2>1, <2>3 DEF LinkInv
    <2>5. TypeOK'
        BY <1>1, <2>1 DEF Inv, TypeOK, poolVars, tableVars, threadVars
    <2> QED BY <1>2, <1>3, <2>4, <2>5 DEF Inv
<1>7. CASE TieLink(b)
    <2>1. /\ moving = "tie" /\ moving' = "tie" /\ linked' = linked \cup {b}
          /\ linked \subseteq Links(pindexSwitch) /\ b \in Below(pindexSwitch, pindexBest)
          /\ pindexSwitch \notin ancestors[pindexBest]
        BY <1>7 DEF TieLink, ToTie, Inv, LinkInv
    <2>2. PICK x \in ancestors[pindexSwitch] \cap Blocks : b = pprev[x]
        BY <2>1 DEF Below
    <2>3. b \in ancestors[pindexSwitch]
        BY <1>4, <2>2, LeastClosed DEF Inv, Closed
    <2>4. b # pindexSwitch
        <3>1. x <= pindexSwitch /\ pprev[x] < x
            BY <1>4, <2>2, NotBelow DEF Inv, WorldInv
        <3>2. All \subseteq Nat /\ Blocks \subseteq Nat
            BY BoundsAssumption DEF All, Blocks, Genesis
        <3> QED BY <1>4, <2>2, <3>1, <3>2
    <2>5. LinkInv'
        BY <1>1, <1>5, <2>1, <2>3, <2>4 DEF LinkInv, Links
    <2>6. TypeOK'
        BY <1>1, <2>1 DEF Inv, TypeOK, poolVars, tableVars, threadVars
    <2> QED BY <1>2, <1>3, <2>5, <2>6 DEF Inv
<1> QED BY <1>6, <1>7

(* BestKeeps: the best block is replaced.                                  *)
LEMMA BestKeeps == ASSUME Inv, NewBest PROVE Inv'
<1>1. /\ UNCHANGED <<pprev, ancestors, mapBlockIndex, linked, pindexNewBest, pindexSwitch, torn>>
      /\ UNCHANGED <<poolVars, tableVars, threadVars, failures, restarts>>
      /\ moving = "tie" /\ moving' = "no" /\ pindexBest' = pindexSwitch
      /\ settled' = settled \cup Deep(pindexSwitch)
    BY DEF NewBest, world
<1>2. WorldInv' /\ Closed(mapBlockIndex)'
    BY <1>1 DEF Inv, WorldInv, Closed
<1>3. LinkInv'
    BY <1>1 DEF Inv, LinkInv, Links
<1>4. DeepInv'
    BY <1>1 DEF DeepInv, Deep, Height
<1>5. RowInv' /\ FinalRowsStayInChain'
    BY <1>1, RowsSame DEF Inv, RowInv
<1>6. TypeOK'
    <2>1. Deep(pindexSwitch) \subseteq All
        BY LeastClosed DEF Deep, Inv, TypeOK
    <2> QED BY <1>1, <2>1 DEF Inv, TypeOK, poolVars, tableVars, threadVars
<1> QED BY <1>2, <1>3, <1>4, <1>5, <1>6 DEF Inv

(* RestartKeeps: the process starts again.                                 *)
LEMMA RestartKeeps ==
    ASSUME Inv, NEW kept \in SUBSET All, NEW best \in All, Restart(kept, best) PROVE Inv'
<1>1. /\ UNCHANGED <<pprev, ancestors, tableVars, torn, found, failures>>
      /\ mapBlockIndex' = kept /\ pindexBest' = best /\ pindexNewBest' = best
      /\ pindexSwitch' = best /\ moving' = "no" /\ linked' = Links(best) /\ best \in kept
      /\ settled' = settled \cup Deep(best) /\ Closed(kept)
      /\ accepting' = Genesis /\ unsaved' = {} /\ pc' = "select" /\ todo' = {}
      /\ row' = Genesis /\ iConfirmations' = 0
      /\ restarts < MaxRestarts /\ restarts' = restarts + 1
    BY DEF Restart, world
<1>2. WorldInv' /\ Closed(mapBlockIndex)'
    BY <1>1 DEF Inv, WorldInv, Closed
<1>3. LinkInv' /\ DeepInv'
    BY <1>1 DEF LinkInv, Links, DeepInv, Deep, Height
<1>4. RowInv' /\ FinalRowsStayInChain'
    BY <1>1 DEF Inv, RowInv, FinalRowsStayInChain, tableVars
<1>5. TypeOK'
    <2>1. Deep(best) \subseteq All /\ Links(best) \subseteq All
        BY LeastClosed DEF Deep, Links, Inv
    <2>2. restarts' \in 0..MaxRestarts
        BY <1>1, BoundsAssumption DEF Inv, TypeOK
    <2>3. Genesis \in All /\ "select" \in Places
        BY DEF All, Places
    <2> QED BY <1>1, <2>1, <2>2, <2>3 DEF Inv, TypeOK, tableVars
<1> QED BY <1>2, <1>3, <1>4, <1>5 DEF Inv

(* SaveKeeps: the row of a block is inserted, or is not.                   *)
LEMMA SaveKeeps == ASSUME Inv, NEW b \in Mine, SaveBlock(b) PROVE Inv'
<1>1. WorldInv' /\ Closed(mapBlockIndex)' /\ LinkInv' /\ DeepInv'
    BY ChainSame DEF SaveBlock
<1>2. /\ b \in unsaved /\ unsaved' = unsaved \ {b} /\ found' = found /\ accepting' = accepting
      /\ UNCHANGED <<chainVars, threadVars, torn, restarts, ancestors>>
    BY DEF SaveBlock, world
<1>3. \/ UNCHANGED tableVars
      \/ /\ rows' = rows \cup {b}
         /\ confirmations' = [confirmations EXCEPT ![b] = 0]
         /\ orphan' = [orphan EXCEPT ![b] = FALSE]
    BY DEF SaveBlock
<1>4. /\ rows \subseteq rows' /\ rows' \subseteq found
      /\ confirmations' \in [Mine -> Int] /\ orphan' \in [Mine -> BOOLEAN]
    <2>1. CASE UNCHANGED tableVars
        BY <2>1 DEF Inv, TypeOK, tableVars
    <2>2. CASE /\ rows' = rows \cup {b}
               /\ confirmations' = [confirmations EXCEPT ![b] = 0]
               /\ orphan' = [orphan EXCEPT ![b] = FALSE]
        BY <1>2, <2>2 DEF Inv, TypeOK
    <2> QED BY <1>3, <2>1, <2>2
<1>5. TypeOK'
    <2>1. failures' \in 0..MaxFailures
        BY BoundsAssumption DEF SaveBlock, Inv, TypeOK
    <2> QED BY <1>2, <1>4, <2>1 DEF Inv, TypeOK, threadVars, chainVars, moveVars
<1>6. ASSUME NEW c \in Mine
      PROVE  \/ /\ confirmations'[c] = confirmations[c] /\ orphan'[c] = orphan[c]
                /\ c \in rows' => c \in rows \/ c = b
             \/ confirmations'[c] < Final
    BY <1>3, BoundsAssumption DEF Inv, TypeOK, tableVars
<1>7. RowInv'
    <2>1. ASSUME NEW c \in Mine, confirmations[c] < Final PROVE confirmations'[c] < Final
        BY <1>6, <2>1
    <2>2. rows \subseteq Mine /\ todo \subseteq Mine
        BY DEF Inv, TypeOK
    <2>3. /\ pc' = pc /\ todo' = todo /\ row' = row /\ iConfirmations' = iConfirmations
          /\ settled' = settled /\ torn' = torn /\ ancestors' = ancestors
          /\ pindexSwitch' = pindexSwitch /\ pindexBest' = pindexBest
        BY <1>2 DEF threadVars, chainVars, moveVars
    <2> QED BY <1>4, <2>1, <2>2, <2>3 DEF Inv, RowInv
<1>8. FinalRowsStayInChain'
    <2>1. ASSUME NEW c \in rows', confirmations'[c] >= Final
          PROVE  ~orphan'[c] /\ c \in settled \cup torn
        <3>1. c \in Mine
            BY <1>5 DEF TypeOK
        <3>2. CASE UNCHANGED tableVars
            BY <2>1, <3>2 DEF Inv, FinalRowsStayInChain, tableVars
        <3>3. CASE /\ rows' = rows \cup {b}
                   /\ confirmations' = [confirmations EXCEPT ![b] = 0]
                   /\ orphan' = [orphan EXCEPT ![b] = FALSE]
            <4>1. c # b
                BY <2>1, <3>3, BoundsAssumption DEF Inv, TypeOK
            <4>2. c \in rows /\ confirmations[c] >= Final /\ orphan'[c] = orphan[c]
                BY <2>1, <3>1, <3>3, <4>1 DEF Inv, TypeOK
            <4> QED BY <4>2 DEF Inv, FinalRowsStayInChain
        <3> QED BY <1>3, <3>2, <3>3
    <2>2. settled' = settled /\ torn' = torn
        BY <1>2 DEF chainVars
    <2> QED BY <2>1, <2>2 DEF FinalRowsStayInChain
<1> QED BY <1>1, <1>5, <1>7, <1>8 DEF Inv

(* ThreadKeeps: a step of the confirmation thread.                         *)
LEMMA ThreadKeeps == ASSUME Inv, Thread PROVE Inv'
<1> USE DEF Inv
<1>0. UNCHANGED <<world, chainVars, poolVars, restarts>>
    BY DEF Thread, Select, CheckRow, CheckBest, Depth, DepthBest, DepthHeight, Update, Orphaned,
           QueryFails, RoundDone, Wake
<1>1. WorldInv' /\ Closed(mapBlockIndex)' /\ LinkInv' /\ DeepInv'
    BY <1>0, ChainSame
<1>2. /\ UNCHANGED <<mapBlockIndex, settled, linked, pindexBest, pindexNewBest, pindexSwitch,
                     moving, found, accepting, unsaved, restarts, ancestors>>
    BY <1>0 DEF world, chainVars, moveVars, poolVars
<1>3. ASSUME Select PROVE Inv'
    <2>1. todo' \subseteq rows /\ \A b \in todo' : confirmations[b] < Final
        BY <1>3 DEF Select, Unsettled
    <2>2. TypeOK' /\ RowInv' /\ FinalRowsStayInChain'
        BY <1>2, <1>3, <2>1 DEF Select, TypeOK, RowInv, FinalRowsStayInChain, tableVars, Places
    <2> QED BY <1>1, <2>2
<1>4. ASSUME NEW b \in Mine, CheckRow(b) PROVE Inv'
    <2>1. b \in rows /\ confirmations[b] < Final /\ b \in All
        BY <1>4, MineAssumption DEF CheckRow, TypeOK, RowInv, All
    <2>2. TypeOK'
        BY <1>2, <1>4, <2>1 DEF CheckRow, TypeOK, tableVars, Places
    <2>3. RowInv' /\ FinalRowsStayInChain'
        BY <1>2, <1>4, <2>1 DEF CheckRow, RowInv, FinalRowsStayInChain, tableVars
    <2> QED BY <1>1, <2>2, <2>3
<1>5. ASSUME CheckBest PROVE Inv'
    <2>1. TypeOK' /\ RowInv' /\ FinalRowsStayInChain'
        BY <1>2, <1>5 DEF CheckBest, TypeOK, RowInv, FinalRowsStayInChain, tableVars, Places
    <2> QED BY <1>1, <2>1
<1>6. ASSUME GoesOn, pc \in {"depth", "depthbest"}, row \in linked \/ row = pindexBest,
             UNCHANGED <<tableVars, todo, row, failures>>
      PROVE  Inv'
    <2>1. /\ rows' = rows /\ confirmations' = confirmations /\ orphan' = orphan /\ todo' = todo
          /\ row' = row /\ failures' = failures /\ iConfirmations' = iConfirmations /\ pc' = "height"
        BY <1>6 DEF GoesOn, tableVars
    <2>2. row \in rows /\ row \notin todo /\ confirmations[row] < Final
        BY <1>6 DEF RowInv
    <2>3. torn' \subseteq torn \cup {row} /\ torn \subseteq torn' \cup {row}
        BY <1>6 DEF GoesOn
    <2>4. pindexBest \in All /\ pindexSwitch \in All
        BY DEF TypeOK
    <2>5. row \notin torn' => /\ row \in ancestors[pindexSwitch]
                              /\ row \in ancestors[pindexBest] \/ pindexBest \in ancestors[pindexSwitch]
        <3>1. row \in ancestors[pindexBest] \/ (moving = "tie" /\ row \in ancestors[pindexSwitch])
            BY <1>6, <2>4, LeastClosed DEF LinkInv, Links, TypeOK
        <3>2. CASE moving = "no"
            BY <3>1, <3>2 DEF LinkInv
        <3>3. CASE moving # "no" /\ Moves(row, pindexSwitch)
            BY <1>6, <3>3 DEF GoesOn
        <3>4. CASE moving # "no" /\ pindexBest \in ancestors[pindexSwitch]
            BY <2>4, <3>1, <3>4, Transitive
        <3>5. CASE row \in ancestors[pindexBest] /\ row \in ancestors[pindexSwitch]
            BY <3>5
        <3> QED BY <3>2, <3>3, <3>4, <3>5 DEF Moves
    <2>6. RowInv'
        BY <1>2, <2>1, <2>2, <2>5 DEF RowInv
    <2>7. FinalRowsStayInChain'
        <3>1. ~(confirmations[row] >= Final)
            BY <2>2, BoundsAssumption DEF TypeOK
        <3> QED BY <1>2, <2>1, <2>3, <3>1 DEF FinalRowsStayInChain
    <2>8. TypeOK'
        BY <1>2, <2>1, <2>2, <2>3 DEF TypeOK, Places
    <2> QED BY <1>1, <2>6, <2>7, <2>8
<1>7. ASSUME Depth PROVE Inv'
    <2>1. CASE HasNext(row) /\ GoesOn
        BY <1>6, <1>7, <2>1 DEF Depth, HasNext
    <2>2. CASE pc' = "depthbest" /\ UNCHANGED <<iConfirmations, torn>>
        <3>1. TypeOK' /\ RowInv' /\ FinalRowsStayInChain'
            BY <1>2, <1>7, <2>2 DEF Depth, TypeOK, RowInv, FinalRowsStayInChain, tableVars, Places
        <3> QED BY <1>1, <3>1
    <2> QED BY <1>7, <2>1, <2>2 DEF Depth
<1>8. ASSUME DepthBest PROVE Inv'
    <2>1. CASE row = pindexBest /\ GoesOn
        BY <1>6, <1>8, <2>1 DEF DepthBest
    <2>2. CASE pc' = "update" /\ iConfirmations' = 0 /\ UNCHANGED torn
        <3>1. TypeOK' /\ RowInv' /\ FinalRowsStayInChain'
            BY <1>2, <1>8, <2>2, BoundsAssumption
            DEF DepthBest, TypeOK, RowInv, FinalRowsStayInChain, tableVars, Places
        <3> QED BY <1>1, <3>1
    <2> QED BY <1>8, <2>1, <2>2 DEF DepthBest
<1>9. ASSUME DepthHeight PROVE Inv'
    <2>1. iConfirmations' \in Int /\ (iConfirmations' >= Final => row \in settled \cup torn)
        BY <1>9, DepthFacts DEF DepthHeight
    <2>2. TypeOK' /\ RowInv' /\ FinalRowsStayInChain'
        BY <1>2, <1>9, <2>1
        DEF DepthHeight, TypeOK, RowInv, FinalRowsStayInChain, tableVars, Places
    <2> QED BY <1>1, <2>2
<1>10. ASSUME Update PROVE Inv'
    <2>1. row \in rows /\ row \notin todo /\ row \in Mine
        BY <1>10 DEF Update, RowInv, TypeOK
    <2>2. TypeOK'
        BY <1>2, <1>10, <2>1 DEF Update, TypeOK, Places, All
    <2>3. \A b \in Mine : b # row => confirmations'[b] = confirmations[b] /\ orphan'[b] = orphan[b]
        BY <1>10 DEF Update, TypeOK
    <2>4. RowInv'
        <3>1. todo' = todo /\ pc' = "rows" /\ todo \subseteq Mine
            BY <1>10 DEF Update, TypeOK
        <3> QED BY <2>1, <2>3, <3>1 DEF RowInv
    <2>5. confirmations'[row] = iConfirmations /\ orphan'[row] = FALSE
        BY <1>10, <2>1 DEF Update, TypeOK
    <2>6. FinalRowsStayInChain'
        <3>1. rows' = rows /\ settled' = settled /\ torn' = torn /\ rows \subseteq Mine
            BY <1>2, <1>10 DEF Update, TypeOK
        <3>2. iConfirmations >= Final => row \in settled \cup torn
            BY <1>10 DEF Update, RowInv
        <3> QED BY <2>3, <2>5, <3>1, <3>2 DEF FinalRowsStayInChain
    <2> QED BY <1>1, <2>2, <2>4, <2>6
<1>11. ASSUME Orphaned PROVE Inv'
    <2>1. row \in rows /\ row \in Mine /\ confirmations[row] < Final
        BY <1>11 DEF Orphaned, RowInv, TypeOK
    <2>2. TypeOK' /\ RowInv'
        BY <1>2, <1>11, <2>1 DEF Orphaned, TypeOK, RowInv, Places, All
    <2>3. \A b \in Mine : b # row => orphan'[b] = orphan[b]
        BY <1>11 DEF Orphaned, TypeOK
    <2>4. FinalRowsStayInChain'
        <3>1. /\ rows' = rows /\ settled' = settled /\ torn' = torn /\ rows \subseteq Mine
              /\ confirmations' = confirmations
            BY <1>2, <1>11 DEF Orphaned, TypeOK
        <3>2. ~(confirmations[row] >= Final)
            BY <2>1, BoundsAssumption DEF TypeOK
        <3> QED BY <2>3, <3>1, <3>2 DEF FinalRowsStayInChain
    <2> QED BY <1>1, <2>2, <2>4
<1>12. ASSUME QueryFails PROVE Inv'
    <2>1. TypeOK' /\ RowInv' /\ FinalRowsStayInChain'
        BY <1>2, <1>12, BoundsAssumption
        DEF QueryFails, TypeOK, RowInv, FinalRowsStayInChain, tableVars, Places, All
    <2> QED BY <1>1, <2>1
<1>13. ASSUME RoundDone \/ Wake PROVE Inv'
    <2>1. TypeOK' /\ RowInv' /\ FinalRowsStayInChain'
        BY <1>2, <1>13
        DEF RoundDone, Wake, TypeOK, RowInv, FinalRowsStayInChain, tableVars, Places
    <2> QED BY <1>1, <2>1
<1> QED BY <1>3, <1>4, <1>5, <1>7, <1>8, <1>9, <1>10, <1>11, <1>12, <1>13 DEF Thread

LEMMA NextInv == Inv /\ [Next]_vars => Inv'
<1> SUFFICES ASSUME Inv, [Next]_vars PROVE Inv'
    OBVIOUS
<1>1. ASSUME NEW b \in Blocks, NEW best \in All, Arrive(b, best) PROVE Inv'
    <2>1. pprev[b] \in mapBlockIndex /\ AddToBlockIndex(b, best)
        BY <1>1 DEF Arrive
    <2>2. TypeOK'
        BY <1>1, <2>1, AddKeeps DEF Inv, TypeOK, Arrive, AddToBlockIndex, tableVars, threadVars
    <2> QED BY <2>1, <2>2, AddKeeps DEF Inv
<1>2. ASSUME NEW b \in Blocks, NEW best \in All, ProcessBlock(b, best) PROVE Inv'
    <2>1. pprev[b] \in mapBlockIndex /\ AddToBlockIndex(b, best)
        BY <1>2 DEF ProcessBlock, Inv, TypeOK
    <2>2. TypeOK'
        BY <1>2, <2>1, AddKeeps DEF Inv, TypeOK, ProcessBlock, AddToBlockIndex, tableVars, threadVars
    <2> QED BY <2>1, <2>2, AddKeeps DEF Inv
<1>3. ASSUME Accepted PROVE Inv'
    <2>1. WorldInv' /\ Closed(mapBlockIndex)' /\ LinkInv' /\ DeepInv'
        BY <1>3, ChainSame DEF Accepted
    <2>2. UNCHANGED <<ancestors, pindexBest, pindexSwitch, settled, torn, tableVars, threadVars>>
        BY <1>3 DEF Accepted, world, chainVars, moveVars
    <2>3. RowInv' /\ FinalRowsStayInChain'
        BY <2>2, RowsSame DEF Inv, RowInv
    <2>4. TypeOK'
        BY <1>3 DEF Accepted, Inv, TypeOK, chainVars, moveVars, tableVars, threadVars
    <2> QED BY <2>1, <2>3, <2>4 DEF Inv
<1>4. ASSUME UNCHANGED vars PROVE Inv'
    <2>1. WorldInv' /\ Closed(mapBlockIndex)' /\ LinkInv' /\ DeepInv'
        BY <1>4, ChainSame DEF vars
    <2>2. UNCHANGED <<ancestors, pindexBest, pindexSwitch, settled, torn, tableVars, threadVars>>
        BY <1>4 DEF vars, world, chainVars, moveVars
    <2>3. RowInv' /\ FinalRowsStayInChain'
        BY <2>2, RowsSame DEF Inv, RowInv
    <2>4. TypeOK'
        BY <1>4 DEF vars, Inv, TypeOK, chainVars, moveVars, poolVars, tableVars, threadVars
    <2> QED BY <2>1, <2>3, <2>4 DEF Inv
<1> QED BY <1>1, <1>2, <1>3, <1>4, SwitchKeeps, LinkKeeps, BestKeeps, RestartKeeps, SaveKeeps,
           ThreadKeeps DEF Next, ConnectBestBlock

LEMMA InvHolds == Spec => []Inv
<1> QED BY InitInv, NextInv, PTL DEF Spec

(* TypeCorrect: the chain, the table and the thread's variables have their *)
(* types.                                                                  *)
THEOREM TypeCorrect == Spec => []TypeOK
<1>1. Inv => TypeOK
    BY DEF Inv
<1> QED BY <1>1, InvHolds, PTL

(* FinalRowsAreSettled: a row the confirmation thread leaves alone for     *)
(* ever is not marked as an orphan and is one of a block that was Final    *)
(* deep, though each link, the best block and the row are read and written *)
(* one by one beside a chain that moves; unless a reorganisation that      *)
(* moves that very block overlaps the two reads of GetDepthInMainChain.    *)
THEOREM FinalRowsAreSettled == Spec => []FinalRowsStayInChain
<1>1. Inv => FinalRowsStayInChain
    BY DEF Inv
<1> QED BY <1>1, InvHolds, PTL
=============================================================================
