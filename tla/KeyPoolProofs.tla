---------------------------- MODULE KeyPoolProofs ----------------------------
(***************************************************************************)
(* Proofs about KeyPool.  Kept keys stay out of the wallet file whatever   *)
(* happens.  Reads succeed, holders have keys of their own and forgotten   *)
(* keys remain as long as the pool has not run empty.                      *)
(***************************************************************************)
EXTENDS KeyPool, FiniteSetTheorems, TLAPS

FiniteInv == IsFiniteSet(setKeyPool) /\ IsFiniteSet(DOMAIN db)
FreshInv ==
    /\ \A i \in DOMAIN db : db[i] < nextKey
    /\ \A k \in kept : k < nextKey
    /\ \A h \in Holders : vchPubKey[h] < nextKey
InjInv == \A i, j \in DOMAIN db : db[i] = db[j] => i = j
EntryInv ==
    \A h \in Holders : \A i \in DOMAIN db :
        nIndex[h] # -1 /\ db[i] = vchPubKey[h] => i = nIndex[h]
DefaultInv ==
    /\ DefaultKey \in kept
    /\ \A h \in Holders :
          /\ nIndex[h] = -1 => vchPubKey[h] \in {NoKey, DefaultKey}
          /\ nIndex[h] # -1 => vchPubKey[h] # NoKey /\ nIndex[h] # 0

SInv ==
    /\ setKeyPool # {}
    /\ PoolHasEntries
    /\ \A i \in DOMAIN db \ setKeyPool : \E j \in setKeyPool : i < j
    /\ \A h \in Holders : nIndex[h] # -1 =>
          nIndex[h] \in DOMAIN db \ setKeyPool /\ vchPubKey[h] = db[nIndex[h]]
    /\ \A g, h \in Holders : nIndex[g] # -1 /\ nIndex[g] = nIndex[h] => g = h
    /\ \A h \in Holders : nIndex[h] = -1 => vchPubKey[h] = NoKey
    /\ KeysRemain

GInv == TypeOK /\ FiniteInv /\ FreshInv /\ InjInv /\ EntryInv /\ DefaultInv
            /\ KeptKeysStayOut

-----------------------------------------------------------------------------
(* What topping up does to the pool and the file.                          *)
LEMMA MissingType ==
    ASSUME GInv
    PROVE  Missing \in Nat /\ (~locked => Cardinality(setKeyPool) + Missing > TargetSize)
           /\ Cardinality(setKeyPool) \in Nat
<1>1. Cardinality(setKeyPool) \in Nat BY FS_CardinalityType DEF GInv, FiniteInv
<1> QED BY <1>1, TargetAssumption DEF Missing, GInv, TypeOK

LEMMA WrittenFacts ==
    ASSUME GInv, NEW end \in Nat \ {0}
    PROVE  LET f == Written(end, Missing)
               s == ToppedUp(end, Missing)
               new == New(end, Missing)
           IN  /\ f = [i \in DOMAIN f |-> f[i]]
               /\ DOMAIN f = DOMAIN db \cup new
               /\ s = setKeyPool \cup new
               /\ new \in SUBSET (Nat \ {0}) /\ \A i \in new : i >= end
               /\ IsFiniteSet(new) /\ IsFiniteSet(s) /\ IsFiniteSet(DOMAIN f)
               /\ Cardinality(new) = Missing
               /\ \A i \in new : f[i] = nextKey + (i - end) /\ f[i] >= nextKey
               /\ \A i \in DOMAIN f : f[i] \in Nat \ {0} /\ f[i] < nextKey + Missing
               /\ \A i \in DOMAIN f : f[i] < nextKey => i \in DOMAIN db /\ f[i] = db[i]
               /\ \A i, j \in DOMAIN f : f[i] = f[j] => i = j
<1> USE DEF GInv
<1> DEFINE f == Written(end, Missing)
           s == ToppedUp(end, Missing)
           new == New(end, Missing)
<1>1. Missing \in Nat BY MissingType
<1>2. new = end..end + Missing - 1 /\ new \in SUBSET (Nat \ {0})
      /\ \A i \in new : i >= end /\ i - end \in Nat /\ i - end < Missing
  BY <1>1 DEF New
<1>3. IsFiniteSet(new) /\ Cardinality(new) = Missing
  BY <1>1, <1>2, FS_Interval
<1>4. f = [i \in DOMAIN db \cup new |-> IF i \in new THEN nextKey + (i - end) ELSE db[i]]
  BY DEF Written
<1>5. s = setKeyPool \cup new BY DEF ToppedUp
<1>6. IsFiniteSet(s) /\ IsFiniteSet(DOMAIN f)
  <2>1. IsFiniteSet(setKeyPool) /\ IsFiniteSet(DOMAIN db)
    BY DEF FiniteInv
  <2>2. IsFiniteSet(setKeyPool \cup new) /\ IsFiniteSet(DOMAIN db \cup new)
    BY <1>3, <2>1, FS_Union
  <2>3. DOMAIN f = DOMAIN db \cup new
    BY <1>4
  <2> QED BY <1>5, <2>2, <2>3
<1>7. \A i \in new : f[i] = nextKey + (i - end) /\ f[i] >= nextKey
                     /\ f[i] \in Nat \ {0} /\ f[i] < nextKey + Missing
  BY <1>1, <1>2, <1>4 DEF TypeOK
<1>8. \A i \in DOMAIN db : i \notin new => f[i] = db[i] /\ f[i] < nextKey /\ f[i] \in Nat \ {0}
  BY <1>4 DEF TypeOK, Values, FreshInv
<1>9. \A i \in DOMAIN f : f[i] \in Nat \ {0} /\ f[i] < nextKey + Missing
  BY <1>1, <1>4, <1>7, <1>8 DEF TypeOK
<1>10. \A i \in DOMAIN f : f[i] < nextKey => i \in DOMAIN db /\ f[i] = db[i]
  BY <1>4, <1>7, <1>8, <1>9 DEF TypeOK
<1>11. \A i, j \in DOMAIN f : f[i] = f[j] => i = j
  <2> SUFFICES ASSUME NEW i \in DOMAIN f, NEW j \in DOMAIN f, f[i] = f[j] PROVE i = j
    OBVIOUS
  <2>1. CASE i \in new /\ j \in new
    BY <1>2, <1>7, <2>1 DEF TypeOK
  <2>2. CASE i \notin new /\ j \notin new
    BY <1>4, <1>8, <2>2 DEF InjInv
  <2>3. CASE ~(i \in new <=> j \in new)
    BY <1>4, <1>7, <1>8, <2>3 DEF TypeOK
  <2> QED BY <2>1, <2>2, <2>3
<1> HIDE DEF f, s, new
<1>12. /\ f = [i \in DOMAIN f |-> f[i]] /\ DOMAIN f = DOMAIN db \cup new BY <1>4
<1> QED
  BY <1>2, <1>3, <1>5, <1>6, <1>7, <1>9, <1>10, <1>11, <1>12 DEF f, s, new

-----------------------------------------------------------------------------
(* The general invariant holds initially and is preserved by every step.   *)
LEMMA GInit == Init => GInv
<1> SUFFICES ASSUME Init PROVE GInv OBVIOUS
<1> USE DEF Init
<1>1. DOMAIN db = 2..TargetSize + 1 /\ \A i \in 2..TargetSize + 1 : db[i] = i OBVIOUS
<1>2. 2..TargetSize + 1 \subseteq Nat \ {0} BY TargetAssumption
<1>3. TypeOK
  <2>1. Values \subseteq Nat \ {0} BY <1>1, <1>2 DEF Values
  <2>2. db = [i \in DOMAIN db |-> db[i]] BY <1>1
  <2>3. nIndex \in [Holders -> Nat \cup {-1}] /\ vchPubKey \in [Holders -> Nat] BY DEF NoKey
  <2>4. nextKey \in Nat \ {0} /\ kept \subseteq Nat \ {0}
    BY TargetAssumption DEF DefaultKey
  <2> QED BY <1>1, <1>2, <2>1, <2>2, <2>3, <2>4 DEF TypeOK
<1>4. FiniteInv BY <1>1, TargetAssumption, FS_Interval DEF FiniteInv
<1>5. FreshInv /\ InjInv /\ EntryInv /\ DefaultInv
  BY <1>1, TargetAssumption DEF FreshInv, InjInv, EntryInv, DefaultInv, DefaultKey, NoKey
<1>6. KeptKeysStayOut BY <1>1, TargetAssumption DEF KeptKeysStayOut, Values, DefaultKey
<1> QED BY <1>3, <1>4, <1>5, <1>6 DEF GInv

(* A reservation, or topping up alone, leaves the file as WrittenFacts     *)
(* says and takes at most one index out of the pool.                       *)
LEMMA GWritten ==
    ASSUME GInv, NEW end \in Nat \ {0}, NEW i,
           setKeyPool' = ToppedUp(end, Missing) \ {i},
           db' = Written(end, Missing), nextKey' = nextKey + Missing,
           UNCHANGED <<locked, kept>>, drained' \in BOOLEAN,
           \/ UNCHANGED <<nIndex, vchPubKey>>
           \/ \E h \in Holders : /\ i \in DOMAIN db' /\ i \in Nat \ {0}
                                /\ nIndex' = [nIndex EXCEPT ![h] = i]
                                /\ vchPubKey' = [vchPubKey EXCEPT ![h] = db'[i]]
    PROVE  GInv'
<1> USE DEF GInv
<1> DEFINE f == Written(end, Missing)
           s == ToppedUp(end, Missing)
           new == New(end, Missing)
<1>1. /\ f = [j \in DOMAIN f |-> f[j]]
      /\ DOMAIN f = DOMAIN db \cup new
      /\ s = setKeyPool \cup new
      /\ new \in SUBSET (Nat \ {0}) /\ \A j \in new : j >= end
      /\ IsFiniteSet(new) /\ IsFiniteSet(s) /\ IsFiniteSet(DOMAIN f)
      /\ Cardinality(new) = Missing
      /\ \A j \in new : f[j] = nextKey + (j - end) /\ f[j] >= nextKey
      /\ \A j \in DOMAIN f : f[j] \in Nat \ {0} /\ f[j] < nextKey + Missing
      /\ \A j \in DOMAIN f : f[j] < nextKey => j \in DOMAIN db /\ f[j] = db[j]
      /\ \A j, k \in DOMAIN f : f[j] = f[k] => j = k
  BY WrittenFacts
<1>2. Missing \in Nat /\ nextKey' = nextKey + Missing /\ nextKey' >= nextKey
  BY MissingType DEF TypeOK
<1> HIDE DEF f, s, new
<1>3. db' = f /\ setKeyPool' = s \ {i} BY DEF f, s
<1>4. /\ nIndex' \in [Holders -> Nat \cup {-1}] /\ vchPubKey' \in [Holders -> Nat]
      /\ \A h \in Holders :
            \/ nIndex'[h] = nIndex[h] /\ vchPubKey'[h] = vchPubKey[h]
            \/ nIndex'[h] = i /\ i \in DOMAIN f /\ i \in Nat \ {0} /\ vchPubKey'[h] = f[i]
  BY <1>1, <1>3 DEF TypeOK
<1>5. TypeOK'
  <2>1. DOMAIN f \subseteq Nat \ {0} /\ s \subseteq Nat \ {0} BY <1>1 DEF TypeOK
  <2>2. Values' \subseteq Nat \ {0} BY <1>1, <1>3 DEF Values
  <2>3. nextKey' \in Nat \ {0} BY <1>2 DEF TypeOK
  <2>4. setKeyPool' \in SUBSET (Nat \ {0}) /\ DOMAIN db' \subseteq Nat \ {0}
        /\ db' = [j \in DOMAIN db' |-> db'[j]]
    BY <1>1, <1>3, <2>1
  <2>5. locked' \in BOOLEAN /\ kept' \subseteq Nat \ {0} BY DEF TypeOK
  <2> QED BY <1>4, <2>2, <2>3, <2>4, <2>5 DEF TypeOK
<1>6. FiniteInv'
  <2>1. IsFiniteSet(s \ {i}) BY <1>1, FS_Difference
  <2> QED BY <1>1, <1>3, <2>1 DEF FiniteInv
<1>7. FreshInv'
  <2>1. \A j \in DOMAIN db' : db'[j] < nextKey' BY <1>1, <1>2, <1>3
  <2>2. \A k \in kept' : k < nextKey' BY <1>2 DEF FreshInv, TypeOK
  <2>3. \A h \in Holders : vchPubKey'[h] < nextKey'
    BY <1>1, <1>2, <1>4 DEF FreshInv, TypeOK
  <2> QED BY <2>1, <2>2, <2>3 DEF FreshInv
<1>8. InjInv'
  BY <1>1, <1>3 DEF InjInv
<1>9. EntryInv'
  <2> SUFFICES ASSUME NEW h \in Holders, NEW j \in DOMAIN f,
                      nIndex'[h] # -1, f[j] = vchPubKey'[h]
               PROVE  j = nIndex'[h]
    BY <1>3 DEF EntryInv
  <2>1. CASE nIndex'[h] = nIndex[h] /\ vchPubKey'[h] = vchPubKey[h]
    BY <1>1, <2>1 DEF EntryInv, FreshInv
  <2>2. CASE nIndex'[h] = i /\ i \in DOMAIN f /\ vchPubKey'[h] = f[i]
    BY <1>1, <2>2
  <2> QED BY <1>4, <2>1, <2>2
<1>10. DefaultInv'
  BY <1>1, <1>4 DEF DefaultInv, NoKey
<1>11. KeptKeysStayOut'
  BY <1>1, <1>3 DEF KeptKeysStayOut, Values, FreshInv
<1> QED
  BY <1>5, <1>6, <1>7, <1>8, <1>9, <1>10, <1>11

LEMMA NoZero == ASSUME GInv, NEW end \in Nat \ {0}
                PROVE  ToppedUp(end, Missing) = ToppedUp(end, Missing) \ {0}
<1>1. 0 \notin New(end, Missing) BY WrittenFacts
<1>2. 0 \notin ToppedUp(end, Missing) BY <1>1 DEF ToppedUp, GInv, TypeOK
<1> QED BY <1>2

LEMMA GTopUp == ASSUME GInv, TopUpKeyPool PROVE GInv'
<1>1. PICK end \in 1..MaxKeys + 1 :
        /\ setKeyPool' = ToppedUp(end, Missing) \ {0}
        /\ db' = Written(end, Missing) /\ nextKey' = nextKey + Missing
        /\ UNCHANGED <<locked, kept, nIndex, vchPubKey>>
  <2>1. PICK end \in 1..MaxKeys + 1 :
          /\ setKeyPool' = ToppedUp(end, Missing)
          /\ db' = Written(end, Missing) /\ nextKey' = nextKey + Missing
          /\ UNCHANGED <<locked, kept, nIndex, vchPubKey>>
    BY DEF TopUpKeyPool
  <2>2. end \in Nat \ {0} BY MaxKeysAssumption
  <2> QED BY <2>1, <2>2, NoZero
<1>2. end \in Nat \ {0} BY MaxKeysAssumption
<1>3. drained' \in BOOLEAN BY DEF TopUpKeyPool, GInv, TypeOK
<1> QED BY <1>1, <1>2, <1>3, GWritten

LEMMA GReserved ==
    ASSUME GInv, NEW h \in Holders, NEW i \in 1..MaxKeys + 1, NEW end \in 1..MaxKeys + 1,
           GetReservedKey(h, i, end)
    PROVE  GInv'
<1>1. end \in Nat \ {0} /\ i \in Nat \ {0} BY MaxKeysAssumption
<1> QED BY <1>1, GWritten DEF GetReservedKey, Reserve

LEMMA GReadFails ==
    ASSUME GInv, NEW i \in 1..MaxKeys + 1, NEW end \in 1..MaxKeys + 1, ReadFails(i, end)
    PROVE  GInv'
<1>1. end \in Nat \ {0} BY MaxKeysAssumption
<1>2. PICK j \in {0, i} : setKeyPool' = ToppedUp(end, Missing) \ {j}
  BY <1>1, NoZero DEF ReadFails
<1> QED BY <1>1, <1>2, GWritten DEF ReadFails

LEMMA GNewAddress ==
    ASSUME GInv, NEW i \in 1..MaxKeys + 1, NEW end \in 1..MaxKeys + 1,
           GetKeyFromPool(i, end)
    PROVE  GInv'
<1> USE DEF GInv
<1>0. end \in Nat \ {0} BY MaxKeysAssumption
<1> DEFINE f == Written(end, Missing)
           s == ToppedUp(end, Missing)
           new == New(end, Missing)
<1>1. /\ f = [j \in DOMAIN f |-> f[j]]
      /\ DOMAIN f = DOMAIN db \cup new
      /\ s = setKeyPool \cup new
      /\ new \in SUBSET (Nat \ {0}) /\ \A j \in new : j >= end
      /\ IsFiniteSet(new) /\ IsFiniteSet(s) /\ IsFiniteSet(DOMAIN f)
      /\ Cardinality(new) = Missing
      /\ \A j \in new : f[j] = nextKey + (j - end) /\ f[j] >= nextKey
      /\ \A j \in DOMAIN f : f[j] \in Nat \ {0} /\ f[j] < nextKey + Missing
      /\ \A j \in DOMAIN f : f[j] < nextKey => j \in DOMAIN db /\ f[j] = db[j]
      /\ \A j, k \in DOMAIN f : f[j] = f[k] => j = k
  BY <1>0, WrittenFacts
<1>2. Missing \in Nat /\ nextKey' = nextKey + Missing /\ nextKey' >= nextKey
  BY MissingType DEF TypeOK, GetKeyFromPool, Reserve
<1>3. /\ i \in DOMAIN f /\ kept' = kept \cup {f[i]}
      /\ db' = [j \in DOMAIN f \ {i} |-> f[j]]
      /\ setKeyPool' = s \ {i}
      /\ UNCHANGED <<locked, nIndex, vchPubKey>>
  BY DEF GetKeyFromPool, Reserve, Erase
<1> HIDE DEF f, s, new
<1>4. DOMAIN db' = DOMAIN f \ {i} /\ \A j \in DOMAIN db' : db'[j] = f[j]
  BY <1>3
<1>5. TypeOK'
  <2>1. DOMAIN f \subseteq Nat \ {0} /\ s \subseteq Nat \ {0} BY <1>1 DEF TypeOK
  <2>2. Values' \subseteq Nat \ {0} BY <1>1, <1>4 DEF Values
  <2>3. nextKey' \in Nat \ {0} BY <1>2 DEF TypeOK
  <2>4. setKeyPool' \in SUBSET (Nat \ {0}) /\ DOMAIN db' \subseteq Nat \ {0}
        /\ db' = [j \in DOMAIN db' |-> db'[j]]
    BY <1>3, <1>4, <2>1
  <2>5. locked' \in BOOLEAN /\ kept' \subseteq Nat \ {0} BY <1>1, <1>3 DEF TypeOK
  <2>6. drained' \in BOOLEAN BY DEF GetKeyFromPool, Reserve
  <2> QED BY <1>3, <2>2, <2>3, <2>4, <2>5, <2>6 DEF TypeOK
<1>6. FiniteInv'
  <2>1. IsFiniteSet(s \ {i}) /\ IsFiniteSet(DOMAIN f \ {i}) BY <1>1, FS_Difference
  <2> QED BY <1>3, <1>4, <2>1 DEF FiniteInv
<1>7. FreshInv'
  <2>1. \A j \in DOMAIN db' : db'[j] < nextKey' BY <1>1, <1>2, <1>4
  <2>2. \A k \in kept' : k < nextKey' BY <1>1, <1>2, <1>3 DEF FreshInv, TypeOK
  <2>3. \A h \in Holders : vchPubKey'[h] < nextKey' BY <1>2, <1>3 DEF FreshInv, TypeOK
  <2> QED BY <2>1, <2>2, <2>3 DEF FreshInv
<1>8. InjInv' BY <1>1, <1>4 DEF InjInv
<1>9. EntryInv' BY <1>1, <1>3, <1>4 DEF EntryInv, FreshInv
<1>10. DefaultInv' BY <1>3 DEF DefaultInv
<1>11. KeptKeysStayOut'
  <2> SUFFICES ASSUME NEW j \in DOMAIN db', db'[j] \in kept' PROVE FALSE
    BY DEF KeptKeysStayOut, Values
  <2>1. j \in DOMAIN f /\ j # i /\ db'[j] = f[j] BY <1>4
  <2>2. f[j] # f[i] BY <1>1, <1>3, <2>1
  <2>3. f[j] \in kept BY <1>3, <2>1, <2>2
  <2>4. j \in DOMAIN db /\ f[j] = db[j] BY <1>1, <2>1, <2>3 DEF FreshInv
  <2> QED BY <2>3, <2>4 DEF KeptKeysStayOut, Values
<1> QED
  BY <1>5, <1>6, <1>7, <1>8, <1>9, <1>10, <1>11

LEMMA ReleaseFacts ==
    ASSUME TypeOK, NEW h \in Holders, Release(h)
    PROVE  /\ nIndex' \in [Holders -> Nat \cup {-1}] /\ vchPubKey' \in [Holders -> Nat]
           /\ nIndex'[h] = -1 /\ vchPubKey'[h] = NoKey
           /\ \A g \in Holders : g # h => nIndex'[g] = nIndex[g] /\ vchPubKey'[g] = vchPubKey[g]
BY DEF TypeOK, Release, NoKey

LEMMA GKeep == ASSUME GInv, NEW h \in Holders, KeepKey(h) PROVE GInv'
<1> USE DEF GInv
<1>1. /\ nIndex' \in [Holders -> Nat \cup {-1}] /\ vchPubKey' \in [Holders -> Nat]
      /\ nIndex'[h] = -1 /\ vchPubKey'[h] = NoKey
      /\ \A g \in Holders : g # h => nIndex'[g] = nIndex[g] /\ vchPubKey'[g] = vchPubKey[g]
  BY ReleaseFacts DEF KeepKey
<1>2. /\ DOMAIN db' \subseteq DOMAIN db /\ \A j \in DOMAIN db' : db'[j] = db[j]
      /\ db' = [j \in DOMAIN db' |-> db'[j]]
      /\ nIndex[h] # -1 => nIndex[h] \notin DOMAIN db'
  BY DEF KeepKey, ErasePool, Erase, HasIndex, TypeOK
<1>3. /\ UNCHANGED <<locked, setKeyPool, nextKey, drained>>
      /\ vchPubKey[h] # NoKey /\ kept' = kept \cup {vchPubKey[h]}
  BY DEF KeepKey
<1>4. TypeOK'
  <2>1. Values' \subseteq Values BY <1>2 DEF Values
  <2>2. kept' \subseteq Nat \ {0} BY <1>3 DEF TypeOK, NoKey
  <2> QED BY <1>1, <1>2, <1>3, <2>1, <2>2 DEF TypeOK
<1>5. FiniteInv' BY <1>2, <1>3, FS_Subset DEF FiniteInv
<1>6. FreshInv'
  BY <1>1, <1>2, <1>3 DEF FreshInv, TypeOK, NoKey
<1>7. InjInv' BY <1>2 DEF InjInv
<1>8. EntryInv' BY <1>1, <1>2 DEF EntryInv
<1>9. DefaultInv' BY <1>1, <1>3 DEF DefaultInv
<1>10. KeptKeysStayOut'
  <2>1. CASE nIndex[h] # -1
    BY <1>2, <1>3, <2>1 DEF KeptKeysStayOut, Values, EntryInv
  <2>2. CASE nIndex[h] = -1
    BY <1>2, <1>3, <2>2 DEF KeptKeysStayOut, Values, DefaultInv
  <2> QED BY <2>1, <2>2
<1> QED
  BY <1>4, <1>5, <1>6, <1>7, <1>8, <1>9, <1>10

(* Steps that leave the file, the generated and the kept keys alone.       *)
LEMMA GUnwritten ==
    ASSUME GInv,
           \/ \E h \in Payments : ReturnKey(h)
           \/ \E h \in Forgetful : Forget(h)
           \/ \E h \in Holders : GetDefaultKey(h)
           \/ Lock \/ Restart
    PROVE  GInv'
<1> USE DEF GInv
<1>1. UNCHANGED <<db, nextKey, kept>>
  BY DEF ReturnKey, Forget, GetDefaultKey, Lock, Restart
<1>2. /\ nIndex' \in [Holders -> Nat \cup {-1}] /\ vchPubKey' \in [Holders -> Nat]
      /\ \A h \in Holders :
            \/ nIndex'[h] = nIndex[h] /\ vchPubKey'[h] = vchPubKey[h]
            \/ nIndex'[h] = -1 /\ vchPubKey'[h] \in {NoKey, DefaultKey}
  <2>1. CASE \E h \in Holders : Release(h)
    BY <2>1, ReleaseFacts
  <2>2. CASE \E h \in Holders : GetDefaultKey(h)
    BY <2>2 DEF GetDefaultKey, TypeOK, DefaultKey
  <2>3. CASE Lock BY <2>3 DEF Lock, TypeOK
  <2>4. CASE Restart BY <2>4 DEF Restart, NoKey
  <2> QED BY <2>1, <2>2, <2>3, <2>4 DEF ReturnKey, Forget, Holders
<1>3. IsFiniteSet(setKeyPool') /\ setKeyPool' \in SUBSET (Nat \ {0})
  <2>1. CASE \E h \in Payments : ReturnKey(h)
    <3>1. PICK h \in Holders : ReturnKey(h) BY <2>1 DEF Holders
    <3>2. CASE setKeyPool' = setKeyPool BY <3>2 DEF FiniteInv, TypeOK
    <3>3. CASE nIndex[h] # -1 /\ setKeyPool' = setKeyPool \cup {nIndex[h]}
      BY <3>3, FS_AddElement DEF FiniteInv, TypeOK, DefaultInv
    <3> QED BY <3>1, <3>2, <3>3 DEF ReturnKey, HasIndex
  <2>2. CASE setKeyPool' = setKeyPool BY <2>2 DEF FiniteInv, TypeOK
  <2>3. CASE Restart BY <2>3 DEF Restart, FiniteInv, TypeOK
  <2> QED BY <2>1, <2>2, <2>3 DEF Forget, GetDefaultKey, Lock
<1>4. locked' \in BOOLEAN /\ drained' \in BOOLEAN
  BY DEF ReturnKey, Forget, GetDefaultKey, Lock, Restart, TypeOK
<1>5. Values' = Values BY <1>1 DEF Values
<1>6. TypeOK' BY <1>1, <1>2, <1>3, <1>4, <1>5 DEF TypeOK
<1>7. FiniteInv' BY <1>1, <1>3 DEF FiniteInv
<1>8. FreshInv'
  <2>1. NoKey < nextKey /\ DefaultKey < nextKey
    BY DEF FreshInv, DefaultInv, TypeOK, NoKey
  <2> QED BY <1>1, <1>2, <2>1 DEF FreshInv
<1>9. InjInv' BY <1>1 DEF InjInv
<1>10. EntryInv' BY <1>1, <1>2 DEF EntryInv
<1>11. DefaultInv' BY <1>1, <1>2 DEF DefaultInv
<1>12. KeptKeysStayOut' BY <1>1, <1>5 DEF KeptKeysStayOut
<1> QED
  BY <1>6, <1>7, <1>8, <1>9, <1>10, <1>11, <1>12

LEMMA GNext == GInv /\ [Next]_vars => GInv'
<1> SUFFICES ASSUME GInv, [Next]_vars PROVE GInv' OBVIOUS
<1>1. CASE UNCHANGED vars
  BY <1>1 DEF vars, GInv, TypeOK, FiniteInv, FreshInv, InjInv, EntryInv, DefaultInv,
     KeptKeysStayOut, Values
<1>2. CASE Next
  BY <1>2, GTopUp, GReserved, GReadFails, GNewAddress, GKeep, GUnwritten DEF Next
<1> QED BY <1>1, <1>2

LEMMA GInductive == Spec => []GInv
BY GInit, GNext, PTL DEF Spec

(* TypeCorrect: indices and keys keep their types, whether or not the      *)
(* wallet is locked.                                                       *)
THEOREM TypeCorrect == Spec => []TypeOK
<1>1. GInv => TypeOK BY DEF GInv
<1> QED BY <1>1, GInductive, PTL

(* KeptKeysNeverReturn: a key used in a found block or a payment is never  *)
(* in the wallet file again, for every size of the pool, also when a       *)
(* locked wallet has given out indices twice.                              *)
THEOREM KeptKeysNeverReturn == Spec => []KeptKeysStayOut
<1>1. GInv => KeptKeysStayOut BY DEF GInv
<1> QED BY <1>1, GInductive, PTL

-----------------------------------------------------------------------------
(* The stronger invariant of a pool that has not run empty.  An index that *)
(* is held or forgotten is below the highest index of the pool, so that    *)
(* new indices are new to the file as well.                                *)
LEMMA SInit == ASSUME Init, ~drained PROVE SInv
<1> USE DEF Init
<1>1. DOMAIN db = 2..TargetSize + 1 /\ \A i \in 2..TargetSize + 1 : db[i] = i OBVIOUS
<1>2. setKeyPool # {} /\ PoolHasEntries
  <2>0. TargetSize # 0 OBVIOUS
  <2>1. 2 \in setKeyPool BY <2>0, TargetAssumption
  <2> QED BY <1>1, <2>1 DEF PoolHasEntries
<1>3. \A h \in Holders : nIndex[h] = -1 /\ vchPubKey[h] = NoKey OBVIOUS
<1>4. KeysRemain
  <2> SUFFICES ASSUME NEW k \in 1..nextKey - 1 PROVE k \in kept \cup Values
    BY DEF KeysRemain
  <2>1. CASE k = 1 BY <2>1 DEF DefaultKey
  <2>2. CASE k # 1
    <3>1. k \in 2..TargetSize + 1 BY <2>2, TargetAssumption
    <3> QED BY <1>1, <3>1 DEF Values
  <2> QED BY <2>1, <2>2
<1> QED BY <1>1, <1>2, <1>3, <1>4 DEF SInv

LEMMA ToppedUpFacts ==
    ASSUME GInv, SInv, NEW end \in Nat \ {0}, NEnd(end)
    PROVE  LET f == Written(end, Missing)
               s == ToppedUp(end, Missing)
           IN  /\ s \subseteq DOMAIN f
               /\ s \subseteq Nat \ {0}
               /\ DOMAIN db \subseteq DOMAIN f
               /\ \A x \in DOMAIN db : f[x] = db[x]
               /\ \A x \in DOMAIN db \ setKeyPool : x \notin s
               /\ \A x \in DOMAIN f \ s : \E j \in s : x < j
               /\ \A k \in Nat \ {0} : k < nextKey + Missing => k \in kept \cup {f[x] : x \in DOMAIN f}
<1> DEFINE f == Written(end, Missing)
           s == ToppedUp(end, Missing)
           new == New(end, Missing)
<1>1. Missing \in Nat BY MissingType
<1>2. /\ DOMAIN f = DOMAIN db \cup new
      /\ s = setKeyPool \cup new
      /\ new \in SUBSET (Nat \ {0}) /\ \A i \in new : i >= end
      /\ IsFiniteSet(new) /\ IsFiniteSet(s)
      /\ Cardinality(new) = Missing
      /\ \A i \in new : f[i] = nextKey + (i - end) /\ f[i] >= nextKey
  BY WrittenFacts
<1>3. f = [i \in DOMAIN db \cup new |-> IF i \in new THEN nextKey + (i - end) ELSE db[i]]
  BY DEF Written
<1>4. new = end..end + Missing - 1 BY DEF New
<1> HIDE DEF f, s, new
<1>5. \A x \in DOMAIN db : x < end
  <2>1. \A x \in setKeyPool : x < end BY DEF NEnd, SInv, GInv, TypeOK
  <2>2. \A x \in DOMAIN db : x \in Nat BY DEF GInv, TypeOK
  <2> QED BY <2>1, <2>2 DEF SInv, GInv, TypeOK
<1>6. \A x \in DOMAIN db : x \notin new
  BY <1>2, <1>5 DEF GInv, TypeOK
<1>7. \A x \in DOMAIN db : f[x] = db[x] BY <1>3, <1>6
<1>8. s \subseteq DOMAIN f BY <1>2 DEF SInv, PoolHasEntries
<1>9. \A x \in DOMAIN db \ setKeyPool : x \notin s BY <1>2, <1>6
<1>10. \A x \in DOMAIN f \ s : \E j \in s : x < j BY <1>2 DEF SInv
<1>11. ASSUME NEW k \in Nat \ {0}, k < nextKey + Missing
       PROVE  k \in kept \cup {f[x] : x \in DOMAIN f}
  <2>1. CASE k < nextKey
    <3>1. k \in kept \cup Values
      BY <2>1 DEF SInv, KeysRemain, GInv, TypeOK
    <3> QED BY <1>2, <1>7, <3>1 DEF Values
  <2>2. CASE k >= nextKey
    <3>1. end + (k - nextKey) \in new
      BY <1>1, <1>4, <1>11, <2>2 DEF GInv, TypeOK
    <3>2. f[end + (k - nextKey)] = k
      BY <1>2, <2>2, <3>1 DEF GInv, TypeOK
    <3> QED BY <1>2, <3>1, <3>2
  <2> QED BY <1>1, <2>1, <2>2 DEF GInv, TypeOK
<1>12. s \subseteq Nat \ {0} BY <1>2 DEF GInv, TypeOK
<1> QED
  BY <1>2, <1>7, <1>8, <1>9, <1>10, <1>11, <1>12 DEF f, s

(* What a reservation leaves in the pool and the file. *)
LEMMA ReserveFacts ==
    ASSUME GInv, SInv, NEW i \in 1..MaxKeys + 1, NEW end \in 1..MaxKeys + 1,
           Reserve(i, end), ~drained'
    PROVE  LET f == Written(end, Missing)
           IN  /\ i \in DOMAIN f
               /\ setKeyPool' # {} /\ setKeyPool' \subseteq DOMAIN f
               /\ i \notin setKeyPool'
               /\ i \notin DOMAIN db \ setKeyPool
               /\ DOMAIN db \subseteq DOMAIN f
               /\ \A x \in DOMAIN db : f[x] = db[x]
               /\ \A x \in DOMAIN db \ setKeyPool : x \notin setKeyPool'
               /\ \A x \in DOMAIN f \ setKeyPool' : \E j \in setKeyPool' : x < j
               /\ nextKey' = nextKey + Missing
               /\ \A k \in Nat \ {0} : k < nextKey' => k \in kept \cup {f[x] : x \in DOMAIN f}
<1>0. end \in Nat \ {0} BY MaxKeysAssumption
<1> DEFINE f == Written(end, Missing)
           s == ToppedUp(end, Missing)
<1>1. /\ s \subseteq DOMAIN f
      /\ s \subseteq Nat \ {0}
      /\ DOMAIN db \subseteq DOMAIN f
      /\ \A x \in DOMAIN db : f[x] = db[x]
      /\ \A x \in DOMAIN db \ setKeyPool : x \notin s
      /\ \A x \in DOMAIN f \ s : \E j \in s : x < j
      /\ \A k \in Nat \ {0} : k < nextKey + Missing => k \in kept \cup {f[x] : x \in DOMAIN f}
  BY <1>0, ToppedUpFacts DEF Reserve, Oldest, Room
<1>2. i \in s /\ (\A j \in s : i <= j) /\ setKeyPool' = s \ {i}
      /\ nextKey' = nextKey + Missing /\ setKeyPool' # {}
  BY DEF Reserve, Oldest
<1>3. DOMAIN f \subseteq Nat
  <2>1. DOMAIN f = DOMAIN db \cup New(end, Missing) /\ New(end, Missing) \in SUBSET (Nat \ {0})
    BY <1>0, WrittenFacts
  <2> QED BY <2>1 DEF GInv, TypeOK
<1> HIDE DEF f, s
<1>4. PICK j \in s : j # i BY <1>2
<1>5. j \in setKeyPool' /\ i < j BY <1>1, <1>2, <1>4
<1>6. ASSUME NEW x \in DOMAIN f \ setKeyPool' PROVE \E k \in setKeyPool' : x < k
  <2>1. CASE x = i BY <1>5, <2>1
  <2>2. CASE x # i
    <3>1. PICK k \in s : x < k BY <1>1, <1>2, <2>2
    <3>2. CASE k = i
      <4>1. x \in Nat /\ j \in Nat /\ k \in Nat BY <1>1, <1>3
      <4>2. x < j BY <1>5, <3>1, <3>2, <4>1
      <4> QED BY <1>5, <4>2
    <3>3. CASE k # i BY <1>2, <3>1, <3>3
    <3> QED BY <3>2, <3>3
  <2> QED BY <2>1, <2>2
<1>7. setKeyPool' # {} /\ setKeyPool' \subseteq DOMAIN f /\ i \notin setKeyPool' /\ i \in DOMAIN f
  BY <1>1, <1>2, <1>5
<1>8. i \notin DOMAIN db \ setKeyPool /\ \A x \in DOMAIN db \ setKeyPool : x \notin setKeyPool'
  BY <1>1, <1>2
<1>9. \A k \in Nat \ {0} : k < nextKey' => k \in kept \cup {f[x] : x \in DOMAIN f}
  BY <1>1, <1>2
<1> QED BY <1>1, <1>2, <1>6, <1>7, <1>8, <1>9 DEF f

LEMMA SReserved ==
    ASSUME GInv, SInv, NEW h \in Holders,
           NEW i \in 1..MaxKeys + 1, NEW end \in 1..MaxKeys + 1, GetReservedKey(h, i, end), ~drained'
    PROVE  SInv'
<1> DEFINE f == Written(end, Missing)
<1>1. /\ i \in DOMAIN f
      /\ setKeyPool' # {} /\ setKeyPool' \subseteq DOMAIN f
      /\ i \notin setKeyPool'
      /\ i \notin DOMAIN db \ setKeyPool
      /\ DOMAIN db \subseteq DOMAIN f
      /\ \A x \in DOMAIN db : f[x] = db[x]
      /\ \A x \in DOMAIN db \ setKeyPool : x \notin setKeyPool'
      /\ \A x \in DOMAIN f \ setKeyPool' : \E j \in setKeyPool' : x < j
      /\ nextKey' = nextKey + Missing
      /\ \A k \in Nat \ {0} : k < nextKey' => k \in kept \cup {f[x] : x \in DOMAIN f}
  BY ReserveFacts DEF GetReservedKey
<1>2. db' = f /\ UNCHANGED <<locked, kept>> BY DEF GetReservedKey
<1>3. i # -1 BY MaxKeysAssumption
<1>4. /\ nIndex'[h] = i /\ vchPubKey'[h] = f[i]
      /\ \A g \in Holders : g # h => nIndex'[g] = nIndex[g] /\ vchPubKey'[g] = vchPubKey[g]
  BY <1>2 DEF GetReservedKey, GInv, TypeOK
<1> HIDE DEF f
<1>5. PoolHasEntries' BY <1>1, <1>2 DEF PoolHasEntries
<1>0. nextKey' \in Nat BY <1>1, MissingType DEF GInv, TypeOK
<1>6. KeysRemain' BY <1>0, <1>1, <1>2 DEF KeysRemain, Values
<1>7. ASSUME NEW g \in Holders, nIndex'[g] # -1
      PROVE  nIndex'[g] \in DOMAIN f \ setKeyPool' /\ vchPubKey'[g] = f[nIndex'[g]]
  <2>1. CASE g = h BY <1>1, <1>4, <2>1
  <2>2. CASE g # h BY <1>1, <1>4, <1>7, <2>2 DEF SInv
  <2> QED BY <2>1, <2>2
<1>8. \A g \in Holders : nIndex'[g] = -1 => vchPubKey'[g] = NoKey
  BY <1>3, <1>4 DEF SInv
<1>9. \A g \in Holders : g # h /\ nIndex[g] # -1 => nIndex[g] # i
  BY <1>1 DEF SInv
<1>10. \A g, k \in Holders : nIndex'[g] # -1 /\ nIndex'[g] = nIndex'[k] => g = k
  BY <1>3, <1>4, <1>9 DEF SInv
<1> QED BY <1>1, <1>2, <1>5, <1>6, <1>7, <1>8, <1>10 DEF SInv

LEMMA SNewAddress ==
    ASSUME GInv, SInv,
           NEW i \in 1..MaxKeys + 1, NEW end \in 1..MaxKeys + 1, GetKeyFromPool(i, end), ~drained'
    PROVE  SInv'
<1> DEFINE f == Written(end, Missing)
<1>1. /\ i \in DOMAIN f
      /\ setKeyPool' # {} /\ setKeyPool' \subseteq DOMAIN f
      /\ i \notin setKeyPool'
      /\ i \notin DOMAIN db \ setKeyPool
      /\ DOMAIN db \subseteq DOMAIN f
      /\ \A x \in DOMAIN db : f[x] = db[x]
      /\ \A x \in DOMAIN db \ setKeyPool : x \notin setKeyPool'
      /\ \A x \in DOMAIN f \ setKeyPool' : \E j \in setKeyPool' : x < j
      /\ nextKey' = nextKey + Missing
      /\ \A k \in Nat \ {0} : k < nextKey' => k \in kept \cup {f[x] : x \in DOMAIN f}
  BY ReserveFacts DEF GetKeyFromPool
<1>2. /\ db' = [x \in DOMAIN f \ {i} |-> f[x]] /\ kept' = kept \cup {f[i]}
      /\ UNCHANGED <<locked, nIndex, vchPubKey>>
  BY DEF GetKeyFromPool, Erase
<1> HIDE DEF f
<1>3. DOMAIN db' = DOMAIN f \ {i} /\ \A x \in DOMAIN db' : db'[x] = f[x] BY <1>2
<1>4. PoolHasEntries' BY <1>1, <1>3 DEF PoolHasEntries
<1>0. nextKey' \in Nat BY <1>1, MissingType DEF GInv, TypeOK
<1>5. KeysRemain' BY <1>0, <1>1, <1>2, <1>3 DEF KeysRemain, Values
<1>6. ASSUME NEW g \in Holders, nIndex'[g] # -1
      PROVE  nIndex'[g] \in DOMAIN db' \ setKeyPool' /\ vchPubKey'[g] = db'[nIndex'[g]]
  <2>1. nIndex[g] \in DOMAIN db \ setKeyPool /\ vchPubKey[g] = db[nIndex[g]]
    BY <1>2, <1>6 DEF SInv
  <2> QED BY <1>1, <1>2, <1>3, <2>1
<1>7. \A x \in DOMAIN db' \ setKeyPool' : \E j \in setKeyPool' : x < j BY <1>1, <1>3
<1> QED BY <1>1, <1>2, <1>4, <1>5, <1>6, <1>7 DEF SInv

LEMMA STopUp == ASSUME GInv, SInv, TopUpKeyPool PROVE SInv'
<1>1. PICK end \in 1..MaxKeys + 1 :
        /\ NEnd(end)
        /\ setKeyPool' = ToppedUp(end, Missing)
        /\ db' = Written(end, Missing) /\ nextKey' = nextKey + Missing
        /\ UNCHANGED <<locked, kept, nIndex, vchPubKey>>
  BY DEF TopUpKeyPool, Room
<1>2. end \in Nat \ {0} BY MaxKeysAssumption
<1>3. /\ setKeyPool' \subseteq DOMAIN db'
      /\ DOMAIN db \subseteq DOMAIN db'
      /\ \A x \in DOMAIN db : db'[x] = db[x]
      /\ \A x \in DOMAIN db \ setKeyPool : x \notin setKeyPool'
      /\ \A x \in DOMAIN db' \ setKeyPool' : \E j \in setKeyPool' : x < j
      /\ \A k \in Nat \ {0} : k < nextKey' => k \in kept \cup {db'[x] : x \in DOMAIN db'}
  <2> DEFINE f == Written(end, Missing)
             s == ToppedUp(end, Missing)
  <2>1. /\ s \subseteq DOMAIN f
        /\ DOMAIN db \subseteq DOMAIN f
        /\ \A x \in DOMAIN db : f[x] = db[x]
        /\ \A x \in DOMAIN db \ setKeyPool : x \notin s
        /\ \A x \in DOMAIN f \ s : \E j \in s : x < j
        /\ \A k \in Nat \ {0} : k < nextKey + Missing => k \in kept \cup {f[x] : x \in DOMAIN f}
    BY <1>1, <1>2, ToppedUpFacts
  <2>2. db' = f /\ setKeyPool' = s /\ nextKey' = nextKey + Missing BY <1>1
  <2> HIDE DEF f, s
  <2> QED BY <2>1, <2>2
<1>4. setKeyPool' # {} BY <1>1 DEF ToppedUp, SInv
<1>0. nextKey' \in Nat BY <1>1, MissingType DEF GInv, TypeOK
<1>5. PoolHasEntries' /\ KeysRemain'
  BY <1>0, <1>1, <1>3 DEF PoolHasEntries, KeysRemain, Values
<1>6. ASSUME NEW g \in Holders, nIndex'[g] # -1
      PROVE  nIndex'[g] \in DOMAIN db' \ setKeyPool' /\ vchPubKey'[g] = db'[nIndex'[g]]
  BY <1>1, <1>3, <1>6 DEF SInv
<1> QED BY <1>1, <1>3, <1>4, <1>5, <1>6 DEF SInv

LEMMA SKeep == ASSUME GInv, SInv, NEW h \in Holders, KeepKey(h) PROVE SInv'
<1>1. /\ nIndex'[h] = -1 /\ vchPubKey'[h] = NoKey
      /\ \A g \in Holders : g # h => nIndex'[g] = nIndex[g] /\ vchPubKey'[g] = vchPubKey[g]
  BY ReleaseFacts DEF KeepKey, GInv
<1>2. nIndex[h] # -1 /\ vchPubKey[h] = db[nIndex[h]] /\ nIndex[h] \in DOMAIN db \ setKeyPool
  BY DEF KeepKey, SInv
<1>3. /\ DOMAIN db' = DOMAIN db \ {nIndex[h]} /\ \A x \in DOMAIN db' : db'[x] = db[x]
      /\ kept' = kept \cup {db[nIndex[h]]} /\ UNCHANGED <<locked, setKeyPool, nextKey>>
  BY <1>2 DEF KeepKey, HasIndex, ErasePool, Erase
<1>4. PoolHasEntries' BY <1>2, <1>3 DEF PoolHasEntries, SInv
<1>5. KeysRemain' BY <1>3 DEF KeysRemain, Values, SInv
<1>6. ASSUME NEW g \in Holders, nIndex'[g] # -1
      PROVE  nIndex'[g] \in DOMAIN db' \ setKeyPool' /\ vchPubKey'[g] = db'[nIndex'[g]]
  <2>1. g # h /\ nIndex'[g] = nIndex[g] /\ vchPubKey'[g] = vchPubKey[g] /\ nIndex[g] # nIndex[h]
    BY <1>1, <1>2, <1>6 DEF SInv
  <2> QED BY <1>3, <1>6, <2>1 DEF SInv
<1>7. \A g, k \in Holders : nIndex'[g] # -1 /\ nIndex'[g] = nIndex'[k] => g = k
  BY <1>1 DEF SInv
<1>8. \A g \in Holders : nIndex'[g] = -1 => vchPubKey'[g] = NoKey BY <1>1 DEF SInv
<1> QED BY <1>3, <1>4, <1>5, <1>6, <1>7, <1>8 DEF SInv

LEMMA SReturn == ASSUME GInv, SInv, NEW h \in Payments, ReturnKey(h) PROVE SInv'
<1>0. h \in Holders BY DEF Holders
<1>1. /\ nIndex'[h] = -1 /\ vchPubKey'[h] = NoKey
      /\ \A g \in Holders : g # h => nIndex'[g] = nIndex[g] /\ vchPubKey'[g] = vchPubKey[g]
  BY <1>0, ReleaseFacts DEF ReturnKey, GInv
<1>2. nIndex[h] # -1 /\ nIndex[h] \in DOMAIN db \ setKeyPool
  BY <1>0 DEF ReturnKey, SInv
<1>3. /\ setKeyPool' = setKeyPool \cup {nIndex[h]}
      /\ UNCHANGED <<locked, db, nextKey, kept>>
  BY <1>2 DEF ReturnKey, HasIndex
<1>4. PoolHasEntries' /\ KeysRemain'
  BY <1>2, <1>3 DEF PoolHasEntries, KeysRemain, Values, SInv
<1>6. ASSUME NEW g \in Holders, nIndex'[g] # -1
      PROVE  nIndex'[g] \in DOMAIN db' \ setKeyPool' /\ vchPubKey'[g] = db'[nIndex'[g]]
  <2>1. g # h /\ nIndex'[g] = nIndex[g] /\ vchPubKey'[g] = vchPubKey[g] /\ nIndex[g] # nIndex[h]
    BY <1>0, <1>1, <1>2, <1>6 DEF SInv
  <2> QED BY <1>3, <1>6, <2>1 DEF SInv
<1>7. \A g, k \in Holders : nIndex'[g] # -1 /\ nIndex'[g] = nIndex'[k] => g = k
  BY <1>1 DEF SInv
<1>8. \A g \in Holders : nIndex'[g] = -1 => vchPubKey'[g] = NoKey BY <1>1 DEF SInv
<1>9. setKeyPool' # {} /\ \A x \in DOMAIN db' \ setKeyPool' : \E j \in setKeyPool' : x < j
  BY <1>3 DEF SInv
<1> QED BY <1>3, <1>4, <1>6, <1>7, <1>8, <1>9 DEF SInv

LEMMA SForget == ASSUME GInv, SInv, NEW h \in Forgetful, Forget(h) PROVE SInv'
<1>0. h \in Holders BY DEF Holders
<1>1. /\ nIndex'[h] = -1 /\ vchPubKey'[h] = NoKey
      /\ \A g \in Holders : g # h => nIndex'[g] = nIndex[g] /\ vchPubKey'[g] = vchPubKey[g]
  BY <1>0, ReleaseFacts DEF Forget, GInv
<1>2. UNCHANGED <<locked, setKeyPool, db, nextKey, kept>> BY DEF Forget
<1>3. PoolHasEntries' /\ KeysRemain'
  BY <1>2 DEF PoolHasEntries, KeysRemain, Values, SInv
<1>4. \A g \in Holders : nIndex'[g] # -1 =>
        nIndex'[g] \in DOMAIN db' \ setKeyPool' /\ vchPubKey'[g] = db'[nIndex'[g]]
  BY <1>1, <1>2 DEF SInv
<1>5. \A g, k \in Holders : nIndex'[g] # -1 /\ nIndex'[g] = nIndex'[k] => g = k
  BY <1>1 DEF SInv
<1>6. \A g \in Holders : nIndex'[g] = -1 => vchPubKey'[g] = NoKey BY <1>1 DEF SInv
<1> QED BY <1>2, <1>3, <1>4, <1>5, <1>6 DEF SInv

LEMMA SRestart == ASSUME SInv, Restart PROVE SInv'
<1>1. PoolHasEntries' /\ KeysRemain'
  BY DEF Restart, PoolHasEntries, KeysRemain, Values, SInv
<1>2. setKeyPool' # {} BY DEF Restart, SInv, PoolHasEntries
<1>3. \A h \in Holders : nIndex'[h] = -1 /\ vchPubKey'[h] = NoKey BY DEF Restart
<1> QED BY <1>1, <1>2, <1>3 DEF Restart, SInv

LEMMA SNext == ASSUME GInv, ~drained => SInv, [Next]_vars PROVE ~drained' => SInv'
<1> SUFFICES ASSUME ~drained' PROVE SInv' OBVIOUS
<1>0. SInv
  BY DEF Next, vars, TopUpKeyPool, Lock, Restart, GetKeyFromPool, ReadFails, GetReservedKey,
     Reserve, GetDefaultKey, KeepKey, ReturnKey, Forget
<1>1. CASE UNCHANGED vars
  BY <1>0, <1>1 DEF vars, SInv, PoolHasEntries, KeysRemain, Values
<1>2. ASSUME NEW i \in 1..MaxKeys + 1, NEW end \in 1..MaxKeys + 1, ReadFails(i, end)
      PROVE  FALSE
  <2>1. end \in Nat \ {0} BY MaxKeysAssumption
  <2> QED BY <1>0, <1>2, <2>1, ToppedUpFacts DEF ReadFails, Oldest, Room
<1>3. ASSUME NEW h \in Holders, GetDefaultKey(h) PROVE FALSE
  BY <1>0, <1>3 DEF GetDefaultKey, SInv
<1>4. CASE Lock
  BY <1>0, <1>4 DEF Lock, SInv, PoolHasEntries, KeysRemain, Values
<1>5. CASE Next
  BY <1>0, <1>2, <1>3, <1>4, <1>5, SReserved, SNewAddress, STopUp, SKeep, SReturn, SForget,
     SRestart DEF Next
<1> QED BY <1>1, <1>5

LEMMA SInductive == Spec => [](~drained => SInv)
<1>1. Init => (~drained => SInv) BY SInit
<1>2. GInv /\ (~drained => SInv) /\ [Next]_vars => (~drained => SInv)' BY SNext
<1> QED BY <1>1, <1>2, GInductive, PTL DEF Spec

(* NoReadFailure: "ReserveKeyFromKeyPool() : read failed" is never thrown  *)
(* while the pool has not run empty, however long connections hold their   *)
(* indices, and whether or not the wallet is locked in between.            *)
THEOREM NoReadFailure == Spec => []ReadsSucceed
<1>1. (~drained => SInv) => ReadsSucceed BY DEF SInv, ReadsSucceed
<1> QED BY <1>1, SInductive, PTL

(* KeysAreNotShared: then two connections, templates or payments never     *)
(* have one key, and none has a key that was used before.                  *)
THEOREM KeysAreNotShared == Spec => []OwnKeys
<1>1. GInv /\ (~drained => SInv) => OwnKeys
  <2> SUFFICES ASSUME GInv, SInv PROVE OwnKeys BY DEF OwnKeys
  <2>1. ASSUME NEW g \in Holders, NEW h \in Holders, g # h,
               vchPubKey[g] = vchPubKey[h], vchPubKey[g] # NoKey
        PROVE  FALSE
    <3>1. /\ nIndex[g] \in DOMAIN db /\ vchPubKey[g] = db[nIndex[g]] /\ nIndex[g] # -1
          /\ nIndex[h] \in DOMAIN db /\ vchPubKey[h] = db[nIndex[h]]
      BY <2>1 DEF SInv
    <3>2. nIndex[g] = nIndex[h] BY <2>1, <3>1 DEF GInv, InjInv
    <3> QED BY <2>1, <3>1, <3>2 DEF SInv
  <2>2. ASSUME NEW h \in Holders PROVE vchPubKey[h] \notin kept
    <3>1. CASE nIndex[h] = -1 BY <3>1 DEF SInv, GInv, TypeOK, NoKey
    <3>2. CASE nIndex[h] # -1 BY <3>2 DEF SInv, GInv, KeptKeysStayOut, Values
    <3> QED BY <3>1, <3>2
  <2> QED BY <2>1, <2>2 DEF OwnKeys
<1> QED BY <1>1, GInductive, SInductive, PTL

(* NoKeyIsLost: then every key of a closed connection or an old template   *)
(* is in the wallet file until it is used.                                 *)
THEOREM NoKeyIsLost == Spec => []ForgottenKeysRemain
<1>1. (~drained => SInv) => ForgottenKeysRemain BY DEF SInv, ForgottenKeysRemain
<1> QED BY <1>1, SInductive, PTL
=============================================================================
