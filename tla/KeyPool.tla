------------------------------ MODULE KeyPool ------------------------------
(***************************************************************************)
(* The wallet's key pool and the CReserveKey objects that draw on it.  The *)
(* pool server keeps one for each connection, and one for each block       *)
(* template: they hold their key for as long as the connection or the      *)
(* template lives, and are then forgotten without the key being kept or    *)
(* returned.  Payments reserve a key for the change and keep or return it. *)
(*                                                                         *)
(* The set of indices is in memory, the entries are in the wallet file and *)
(* survive a restart.  Keys are numbered in the order they are generated.  *)
(***************************************************************************)
EXTENDS Integers, FiniteSets

CONSTANTS
    Forgetful,      \* CReserveKeys of connections and templates
    Payments,       \* CReserveKeys of payments
    TargetSize,     \* -keypool (100)
    MaxKeys         \* bound on the number of keys generated

Holders == Forgetful \cup Payments

ASSUME TargetAssumption == TargetSize \in Nat
ASSUME MaxKeysAssumption == MaxKeys \in Nat

VARIABLES
    locked,         \* IsLocked()
    setKeyPool,     \* indices of the keys in the pool
    db,             \* the pool entries of the wallet file: index to key
    nextKey,        \* the key GenerateNewKey makes next
    nIndex,         \* nIndex of each CReserveKey
    vchPubKey,      \* its key
    kept,           \* history: keys taken out of the pool for good
    drained         \* history: the pool has been empty at some time

vars == <<locked, setKeyPool, db, nextKey, nIndex, vchPubKey, kept, drained>>

NoKey == 0
DefaultKey == 1     \* made on the first run, with the first pool

Init ==
    /\ locked = FALSE
    /\ setKeyPool = 2..TargetSize + 1
    /\ db = [i \in 2..TargetSize + 1 |-> i]
    /\ nextKey = TargetSize + 2
    /\ nIndex = [h \in Holders |-> -1]
    /\ vchPubKey = [h \in Holders |-> NoKey]
    /\ kept = {DefaultKey}
    /\ drained = (TargetSize = 0)

-----------------------------------------------------------------------------
(* TopUpKeyPool, part of every reservation from an unlocked wallet: the    *)
(* pool after it, when end is the first free index and n keys are missing. *)

LowestFree(end) == end \in 1..MaxKeys /\ end \notin setKeyPool
                   /\ \A i \in 1..end - 1 : i \in setKeyPool
NEnd(end) ==
    \/ setKeyPool = {} /\ end = 1
    \/ /\ end - 1 \in setKeyPool
       /\ \A i \in setKeyPool : i <= end - 1

Missing == LET size == Cardinality(setKeyPool)
           IN  IF locked \/ size > TargetSize THEN 0 ELSE TargetSize + 1 - size

New(end, n) == end..end + n - 1
ToppedUp(end, n) == setKeyPool \cup New(end, n)
Unwritten(end, n) == db
Written(end, n) ==
    [i \in DOMAIN db \cup New(end, n) |->
        IF i \in New(end, n) THEN nextKey + (i - end) ELSE db[i]]

(* The bound on the keys, and the index the new keys start at. *)
Room(end) == NEnd(end) /\ nextKey + Missing <= MaxKeys + 1

TopUpKeyPool ==
    \E end \in 1..MaxKeys + 1 :
        /\ Room(end)
        /\ Missing > 0
        /\ setKeyPool' = ToppedUp(end, Missing)
        /\ db' = Written(end, Missing)
        /\ nextKey' = nextKey + Missing
        /\ UNCHANGED <<locked, nIndex, vchPubKey, kept, drained>>

(* ReserveKeyFromKeyPool takes the oldest key, i, of the topped up pool.   *)
Oldest(i, end) ==
    /\ Room(end)
    /\ i \in ToppedUp(end, Missing)
    /\ \A j \in ToppedUp(end, Missing) : i <= j

Reserve(i, end) ==
    /\ Oldest(i, end)
    /\ setKeyPool' = ToppedUp(end, Missing) \ {i}
    /\ nextKey' = nextKey + Missing
    /\ drained' = (drained \/ setKeyPool' = {})

Erase(f, i) == [j \in DOMAIN f \ {i} |-> f[j]]

-----------------------------------------------------------------------------
(* CReserveKey.                                                            *)

(* GetReservedKey, when it holds no key yet. *)
GetReservedKey(h, i, end) ==
    /\ nIndex[h] = -1
    /\ Reserve(i, end)
    /\ db' = Written(end, Missing)
    /\ i \in DOMAIN db'
    /\ nIndex' = [nIndex EXCEPT ![h] = i]
    /\ vchPubKey' = [vchPubKey EXCEPT ![h] = db'[i]]
    /\ UNCHANGED <<locked, kept>>

(* The index has no entry: "ReserveKeyFromKeyPool() : read failed".  The   *)
(* exception ends a listening thread, and with it the process; an RPC      *)
(* call only reports it.  The index is out of the pool by then; if it was  *)
(* for a payment, the destructor of its CReserveKey puts it back.          *)
ReadFails(i, end) ==
    LET pool == ToppedUp(end, Missing)
    IN  /\ Oldest(i, end)
        /\ db' = Written(end, Missing)
        /\ i \notin DOMAIN db'
        /\ nextKey' = nextKey + Missing
        /\ \/ setKeyPool' = pool \ {i}
           \/ (\E h \in Payments : nIndex[h] = -1) /\ setKeyPool' = pool
        /\ drained' = (drained \/ pool \ {i} = {})
        /\ UNCHANGED <<locked, nIndex, vchPubKey, kept>>

(* A locked wallet with an empty pool gives out its default key. *)
GetDefaultKey(h) ==
    /\ nIndex[h] = -1
    /\ locked /\ setKeyPool = {}
    /\ vchPubKey' = [vchPubKey EXCEPT ![h] = DefaultKey]
    /\ UNCHANGED <<locked, setKeyPool, db, nextKey, nIndex, kept, drained>>

(* The default key has no index. *)
Always(h) == TRUE
HasIndex(h) == nIndex[h] # -1

Release(h) ==
    /\ nIndex' = [nIndex EXCEPT ![h] = -1]
    /\ vchPubKey' = [vchPubKey EXCEPT ![h] = NoKey]

(* KeepKey: a client found a block, or the payment was made.  The entry    *)
(* leaves the wallet file.                                                 *)
NotErased(i) == db
ErasePool(i) == Erase(db, i)

KeepKey(h) ==
    /\ vchPubKey[h] # NoKey
    /\ db' = IF HasIndex(h) THEN ErasePool(nIndex[h]) ELSE db
    /\ kept' = kept \cup {vchPubKey[h]}
    /\ Release(h)
    /\ UNCHANGED <<locked, setKeyPool, nextKey, drained>>

(* ReturnKey: the payment failed or had no change. *)
ReturnKey(h) ==
    /\ vchPubKey[h] # NoKey
    /\ setKeyPool' = IF HasIndex(h) THEN setKeyPool \cup {nIndex[h]} ELSE setKeyPool
    /\ Release(h)
    /\ UNCHANGED <<locked, db, nextKey, kept, drained>>

(* The destructor of xptServerClient_t, or a new template: the pointer to  *)
(* the CReserveKey is overwritten.                                         *)
Forget(h) ==
    /\ vchPubKey[h] # NoKey
    /\ Release(h)
    /\ UNCHANGED <<locked, setKeyPool, db, nextKey, kept, drained>>

-----------------------------------------------------------------------------
(* GetKeyFromPool, for a new address: reserve and keep at once. *)
GetKeyFromPool(i, end) ==
    LET file == Written(end, Missing)
    IN  /\ Reserve(i, end)
        /\ i \in DOMAIN file
        /\ db' = Erase(file, i)
        /\ kept' = kept \cup {file[i]}
        /\ UNCHANGED <<locked, nIndex, vchPubKey>>

Lock ==
    /\ locked' = ~locked
    /\ UNCHANGED <<setKeyPool, db, nextKey, nIndex, vchPubKey, kept, drained>>

(* The process stops and starts again: the pool is what the file has. *)
Restart ==
    /\ setKeyPool' = DOMAIN db
    /\ nIndex' = [h \in Holders |-> -1]
    /\ vchPubKey' = [h \in Holders |-> NoKey]
    /\ drained' = (drained \/ DOMAIN db = {})
    /\ UNCHANGED <<locked, db, nextKey, kept>>

Next ==
    \/ TopUpKeyPool \/ Lock \/ Restart
    \/ \E i, end \in 1..MaxKeys + 1 :
          \/ GetKeyFromPool(i, end) \/ ReadFails(i, end)
          \/ \E h \in Holders : GetReservedKey(h, i, end)
    \/ \E h \in Holders : GetDefaultKey(h) \/ KeepKey(h)
    \/ \E h \in Payments : ReturnKey(h)
    \/ \E h \in Forgetful : Forget(h)

Spec == Init /\ [][Next]_vars

-----------------------------------------------------------------------------
Values == {db[i] : i \in DOMAIN db}

(* TypeOK: indices and keys have their types.                              *)
TypeOK ==
    /\ locked \in BOOLEAN
    /\ setKeyPool \in SUBSET (Nat \ {0})
    /\ DOMAIN db \subseteq Nat \ {0}
    /\ db = [i \in DOMAIN db |-> db[i]]
    /\ Values \subseteq Nat \ {0}
    /\ nextKey \in Nat \ {0}
    /\ nIndex \in [Holders -> Nat \cup {-1}]
    /\ vchPubKey \in [Holders -> Nat]
    /\ kept \subseteq Nat \ {0}
    /\ drained \in BOOLEAN

(* The next three hold as long as the pool has not run empty.  A locked    *)
(* wallet gives its last key away, then its default key to everyone, and   *)
(* once unlocked TopUpKeyPool starts at index 1 again, over the entries of *)
(* the indices that connections still hold.                                *)
PoolHasEntries == setKeyPool \subseteq DOMAIN db
KeysRemain == \A k \in 1..nextKey - 1 : k \in kept \cup Values

(* ReadsSucceed: every index of the pool has its entry in the wallet file, *)
(* so that "ReserveKeyFromKeyPool() : read failed" is never thrown, though *)
(* connections hold indices for hours while others are kept and returned,  *)
(* as long as the pool has not run empty.                                  *)
ReadsSucceed == ~drained => PoolHasEntries

(* OwnKeys: no two connections, templates or payments have the same key    *)
(* ("Each thread has its own key and counter"), and none has a key that    *)
(* another one has used in a block or a payment before, as long as the     *)
(* pool has not run empty.                                                 *)
OwnKeys ==
    ~drained =>
    /\ \A g, h \in Holders :
          g # h /\ vchPubKey[g] = vchPubKey[h] => vchPubKey[g] = NoKey
    /\ \A h \in Holders : vchPubKey[h] \notin kept

(* ForgottenKeysRemain: the keys of closed connections and old templates   *)
(* are not lost: every key ever generated was kept or is in the wallet     *)
(* file, from where a restart brings it back into the pool, as long as the *)
(* pool has not run empty.                                                 *)
ForgottenKeysRemain == ~drained => KeysRemain

(* KeptKeysStayOut: a key that a found block or a payment has used is not  *)
(* in the wallet file any more, so that no restart brings it back ("Take   *)
(* key pair from key pool so it won't be used again"), also when a locked  *)
(* wallet has run out of keys and indices have been given out twice.       *)
KeptKeysStayOut == Values \cap kept = {}
=============================================================================
