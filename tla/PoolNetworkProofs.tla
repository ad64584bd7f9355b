------------------------- MODULE PoolNetworkProofs -------------------------
(***************************************************************************)
(* Machine-checked properties of the mempool, for every set of transactions, *)
(* capacity, fee range and load, and of the network manager, for every set   *)
(* of connections and addresses and any number of starts.                   *)
(***************************************************************************)
EXTENDS TransactionPool, Network, FiniteSetTheorems, TLAPS

(* The inductive invariant.  NoNonceConflict is not inductive alone: a new  *)
(* transaction is known not to collide with the pooled ones only because    *)
(* accountNonces bounds all of them (NoncesBounded), and the removals keep  *)
(* that only if they take the same items from the heap and from txMap       *)
(* (IndexesAgree).                                                          *)
PoolInv ==
    /\ TypeOK
    /\ IndexesAgree
    /\ NoncesBounded
    /\ NoNonceConflict
    /\ WithinCapacity
    /\ MinFeeBelowMax

----------------------------------------------------------------------------
(* Facts about the helpers                                                  *)

(* calculatePriority stays in the range the priority bands assume.          *)
LEMMA PriorityType ==
    ASSUME NEW tx \in Tx, now \in Nat
    PROVE  calculatePriority(tx) \in 0..100
<1> DEFINE size == 1024 + tx.dataLen
<1> DEFINE age == IF now - tx.timestamp > 10 THEN 10 ELSE now - tx.timestamp
<1> DEFINE num == 50 * 1024 * tx.fee + 5 * age * size * FeeUnit
<1> DEFINE den == size * FeeUnit
<1>1. /\ tx.dataLen \in Nat /\ tx.timestamp \in Nat /\ tx.fee \in Nat
      /\ FeeUnit \in Nat \ {0}
  BY PoolAssumption DEF Transaction
<1>2. size \in Nat \ {0} /\ age \in Int
  BY <1>1
<1>3. den \in Nat \ {0}
  BY <1>1, <1>2
<1>4. num \in Int
  <2> HIDE DEF size, age
  <2>1. 5 * age * size * FeeUnit \in Int
    BY <1>1, <1>2
  <2>2. 50 * 1024 * tx.fee \in Int
    BY <1>1
  <2> QED BY <2>1, <2>2
<1>5. num \div den \in Int
  <2> HIDE DEF num, den
  <2> QED BY <1>3, <1>4
<1>6. calculatePriority(tx) = Clamp(0, num \div den, 100)
  BY DEF calculatePriority
<1> HIDE DEF num, den
<1> QED BY <1>5, <1>6 DEF Clamp

(* optimizePool prices within 0..maxFee.                                    *)
LEMMA AdjustedFee ==
    ASSUME NEW load \in Loads, minFee \in Nat
    PROVE  adjustFeesBasedOnLoad(load) \in Nat /\ adjustFeesBasedOnLoad(load) <= MaxFee
<1>1. load \in Nat /\ MaxFee \in Nat
  BY PoolAssumption
<1>2. /\ (minFee * (100 + load)) \in Nat
      /\ (minFee * (400 + load)) \in Nat
      /\ (minFee * (450 + load)) \in Nat
  BY <1>1
<1>3. ASSUME NEW n \in Nat PROVE n \div 100 \in Nat /\ n \div 500 \in Nat /\ n \div 2 \in Nat
  OBVIOUS
<1> DEFINE adjusted == IF load > 75 THEN (minFee * (100 + load)) \div 100
                       ELSE IF load < 25 THEN (minFee * (400 + load)) \div 500
                       ELSE (minFee * (450 + load)) \div 500
<1>4. adjusted \in Nat
  BY <1>1, <1>2, <1>3
<1>5. minFee \div 2 \in Nat
  BY <1>3
<1> DEFINE floored == IF 2 * adjusted < minFee THEN minFee \div 2 ELSE adjusted
<1>6. floored \in Nat
  <2> HIDE DEF adjusted
  <2> QED BY <1>4, <1>5
<1>7. adjustFeesBasedOnLoad(load) = IF floored > MaxFee THEN MaxFee ELSE floored
  BY DEF adjustFeesBasedOnLoad
<1> HIDE DEF floored
<1> QED BY <1>1, <1>6, <1>7

(* Evicting a fixed share always makes room: ErrPoolFull is unreachable.    *)
LEMMA TargetBelowMax == TargetSize \in Nat /\ TargetSize < MaxPoolSize
BY PoolAssumption DEF TargetSize

(* Taking the ids out of txMap and their items out of the heap keeps the    *)
(* two in agreement and keeps the nonce facts.                              *)
LEMMA RemovalKeepsIndexes ==
    ASSUME TypeOK, IndexesAgree, NoncesBounded, NoNonceConflict, NEW ids,
           pendingTxs' = HeapWithout(ids), txMap' = MapWithout(ids),
           accountNonces' = accountNonces
    PROVE  /\ IndexesAgree' /\ NoncesBounded' /\ NoNonceConflict'
           /\ pendingTxs' \subseteq pendingTxs
           /\ DOMAIN txMap' \subseteq DOMAIN txMap
           /\ txMap' = [id \in DOMAIN txMap' |-> txMap'[id]]
<1>1. /\ DOMAIN txMap' = DOMAIN txMap \ ids
      /\ \A id \in DOMAIN txMap' : txMap'[id] = txMap[id]
      /\ txMap' = [id \in DOMAIN txMap' |-> txMap'[id]]
  BY DEF MapWithout
<1>2. \A i : i \in pendingTxs' <=> i \in pendingTxs /\ i.tx.id \notin ids
  BY DEF HeapWithout
<1>3. IndexesAgree'
  BY <1>1, <1>2 DEF IndexesAgree
<1>4. NoncesBounded' /\ NoNonceConflict'
  BY <1>2 DEF NoncesBounded, NoNonceConflict
<1> QED BY <1>1, <1>2, <1>3, <1>4

(* An evicted set is taken out of the heap and of txMap by identifier.      *)
LEMMA EvictedByID ==
    ASSUME IndexesAgree, NEW E \in SUBSET pendingTxs
    PROVE  HeapWithout({e.tx.id : e \in E}) = pendingTxs \ E
BY DEF IndexesAgree, HeapWithout

----------------------------------------------------------------------------
(* The actions                                                              *)

(* AddTransaction with the set E evicted: the admitted transaction's nonce  *)
(* exceeds every pooled nonce of its sender.                                *)
LEMMA AdmitKeeps ==
    ASSUME PoolInv, NEW tx \in Tx, NEW E \in SUBSET pendingTxs,
           NEW fee \in Nat, fee <= MaxFee,
           tx.id \notin DOMAIN txMap,
           Admit(tx, E, fee), AddAfterEvicting(tx, E, fee)
    PROVE  PoolInv'
<1> DEFINE item == [tx |-> tx, priority |-> calculatePriority(tx)]
<1> DEFINE gone == {e.tx.id : e \in E}
<1> USE DEF PoolInv
<1>1. /\ tx \in Transaction /\ tx.id \in TxID /\ tx.sender \in Account /\ tx.nonce \in Nat
      /\ now \in Nat
  BY PoolAssumption DEF Transaction, TypeOK
<1>2. item \in Item
  BY <1>1, PriorityType DEF Item
<1>3. item.tx = tx
  OBVIOUS
<1> HIDE DEF item
<1>4. /\ pendingTxs' = (pendingTxs \ E) \cup {item}
      /\ DOMAIN txMap' = (DOMAIN txMap \ gone) \cup {tx.id}
      /\ txMap' = [id \in DOMAIN txMap' |-> txMap'[id]]
      /\ txMap'[tx.id] = item
      /\ \A id \in DOMAIN txMap \ gone : id # tx.id /\ txMap'[id] = txMap[id]
  BY DEF Admit, MapWithout, item
<1>5. /\ IsFiniteSet(pendingTxs \ E) /\ IsFiniteSet(pendingTxs')
      /\ Cardinality(pendingTxs \ E) \in Nat /\ Cardinality(pendingTxs') \in Nat
      /\ Cardinality(pendingTxs') <= Cardinality(pendingTxs \ E) + 1
  <2>1. IsFiniteSet(pendingTxs \ E)
    BY FS_Difference DEF TypeOK
  <2>2. Cardinality(pendingTxs \ E) \in Nat
    BY <2>1, FS_CardinalityType
  <2> HIDE DEF PoolInv
  <2> DEFINE rest == pendingTxs \ E
  <2>3. /\ IsFiniteSet(rest \cup {item})
        /\ Cardinality(rest \cup {item}) = IF item \in rest THEN Cardinality(rest)
                                           ELSE Cardinality(rest) + 1
    <3> HIDE DEF rest
    <3> QED BY <2>1, FS_AddElement DEF rest
  <2> QED BY <1>4, <2>1, <2>2, <2>3
<1>6. /\ tx.nonce > accountNonces[tx.sender]
      /\ accountNonces' = [accountNonces EXCEPT ![tx.sender] = tx.nonce]
      /\ accountNonces \in [Account -> Nat \cup {NoNonce}]
  BY DEF Admit, validateTransaction, RecordNonce, TypeOK
<1>7. \A a \in Account : /\ accountNonces[a] \in Int
                         /\ accountNonces'[a] = IF a = tx.sender THEN tx.nonce ELSE accountNonces[a]
  BY <1>6 DEF NoNonce
<1>8. \A i \in pendingTxs \ E : i \in Item /\ i.tx.sender \in Account /\ i.tx.nonce \in Nat
  BY DEF TypeOK, Item, Transaction
<1>9. IndexesAgree'
  <2>1. ASSUME NEW id \in DOMAIN txMap \ gone
        PROVE  txMap[id] \in pendingTxs \ E /\ txMap[id].tx.id = id
    BY DEF IndexesAgree
  <2>2. ASSUME NEW i \in pendingTxs \ E
        PROVE  i.tx.id \in DOMAIN txMap \ gone /\ txMap[i.tx.id] = i
    BY DEF IndexesAgree
  <2> QED BY <1>3, <1>4, <2>1, <2>2 DEF IndexesAgree
<1>10. NoncesBounded'
  <2>1. ASSUME NEW i \in pendingTxs \ E
        PROVE  i.tx.nonce <= accountNonces'[i.tx.sender]
    BY <1>1, <1>6, <1>7, <1>8 DEF NoncesBounded
  <2>2. item.tx.nonce <= accountNonces'[item.tx.sender]
    BY <1>1, <1>3, <1>7
  <2> QED BY <1>4, <2>1, <2>2 DEF NoncesBounded
<1>11. NoNonceConflict'
  <2>1. ASSUME NEW i \in pendingTxs \ E, i.tx.sender = tx.sender
        PROVE  i.tx.nonce # tx.nonce
    BY <2>1, <1>1, <1>6, <1>7, <1>8 DEF NoncesBounded
  <2> QED BY <1>3, <1>4, <2>1 DEF NoNonceConflict
<1>12. WithinCapacity'
  BY <1>5, PoolAssumption DEF WithinCapacity, Admit, PoolFull
<1>13. MinFeeBelowMax' /\ minFee' \in Nat
  BY DEF AddAfterEvicting, MinFeeBelowMax
<1>14. totalTxs' \in Int /\ totalAdded' \in Nat /\ totalEvicted' \in Nat
  <2>1. IsFiniteSet(E) /\ Cardinality(E) \in Nat
    BY FS_Subset, FS_CardinalityType DEF TypeOK
  <2> QED BY <1>5, <2>1 DEF Admit, AddAfterEvicting, TotalAfterEvicting, TypeOK
<1>15. accountTxs' \in [Account -> SUBSET TxID]
  BY <1>1 DEF Admit, IndexTransaction, DropSenderEntries, TypeOK
<1>16. accountNonces' \in [Account -> Nat \cup {NoNonce}]
  BY <1>1, <1>6
<1>17. totalRemoved' \in Nat /\ totalExpired' \in Nat /\ now' \in Nat
  BY DEF AddAfterEvicting, TypeOK
<1>18. pendingTxs' \in SUBSET Item /\ DOMAIN txMap' \subseteq TxID
  BY <1>1, <1>2, <1>4 DEF TypeOK
<1> QED BY <1>4, <1>5, <1>9, <1>10, <1>11, <1>12, <1>13, <1>14, <1>15, <1>16, <1>17, <1>18
        DEF TypeOK

(* AddTransaction returning an error: only the evictions change the pool.   *)
LEMMA RejectKeeps ==
    ASSUME PoolInv, NEW tx \in Tx, NEW E \in SUBSET pendingTxs,
           NEW fee \in Nat, fee <= MaxFee,
           Reject(tx, E, fee), AddAfterEvicting(tx, E, fee)
    PROVE  PoolInv'
<1> DEFINE gone == {e.tx.id : e \in E}
<1> USE DEF PoolInv
<1>1. pendingTxs' = HeapWithout(gone) /\ txMap' = MapWithout(gone)
      /\ accountNonces' = accountNonces
  BY EvictedByID DEF Reject
<1>2. /\ IndexesAgree' /\ NoncesBounded' /\ NoNonceConflict'
      /\ pendingTxs' \subseteq pendingTxs /\ DOMAIN txMap' \subseteq DOMAIN txMap
      /\ txMap' = [id \in DOMAIN txMap' |-> txMap'[id]]
  <2> HIDE DEF gone
  <2> QED BY <1>1, RemovalKeepsIndexes
<1>3. /\ IsFiniteSet(pendingTxs') /\ Cardinality(pendingTxs') \in Nat
      /\ Cardinality(pendingTxs') <= Cardinality(pendingTxs)
      /\ Cardinality(pendingTxs) \in Nat
      /\ Cardinality(E) \in Nat
  BY <1>2, FS_Subset, FS_CardinalityType DEF TypeOK
<1>4. WithinCapacity'
  BY <1>3, PoolAssumption DEF WithinCapacity
<1>5. MinFeeBelowMax' /\ minFee' \in Nat
  BY DEF AddAfterEvicting, MinFeeBelowMax
<1>6. totalTxs' \in Int /\ totalAdded' \in Nat /\ totalEvicted' \in Nat
  BY <1>3 DEF Reject, AddAfterEvicting, TotalAfterEvicting, TypeOK
<1>7. accountTxs' \in [Account -> SUBSET TxID]
  BY DEF Reject, DropSenderEntries, TypeOK
<1>8. totalRemoved' \in Nat /\ totalExpired' \in Nat /\ now' \in Nat
  BY DEF AddAfterEvicting, TypeOK
<1> QED BY <1>1, <1>2, <1>3, <1>4, <1>5, <1>6, <1>7, <1>8 DEF TypeOK

LEMMA AddKeeps ==
    ASSUME PoolInv, NEW tx \in Tx, AddTransaction(tx)
    PROVE  PoolInv'
<1>1. minFee \in Nat /\ minFee <= MaxFee
  BY DEF PoolInv, TypeOK, MinFeeBelowMax
<1>2. CASE AddAfterEvicting(tx, {}, minFee)
  BY <1>1, <1>2, AdmitKeeps, RejectKeeps DEF AddTransaction, AddAfterEvicting
<1>3. CASE \E load \in Loads, E \in EvictionSets :
              AddAfterEvicting(tx, E, adjustFeesBasedOnLoad(load))
  <2> PICK load \in Loads, E \in EvictionSets :
              AddAfterEvicting(tx, E, adjustFeesBasedOnLoad(load))
    BY <1>3
  <2>1. E \in SUBSET pendingTxs
    BY DEF EvictionSets
  <2> QED BY <1>1, <2>1, AdjustedFee, AdmitKeeps, RejectKeeps
          DEF AddTransaction, AddAfterEvicting
<1> QED BY <1>2, <1>3 DEF AddTransaction

(* RemoveTransaction, RemoveExpiredTransactions and HandleConflicts all     *)
(* shrink the pool by a set of identifiers.                                 *)
LEMMA ShrinkKeeps ==
    ASSUME PoolInv, NEW ids,
           pendingTxs' = HeapWithout(ids), txMap' = MapWithout(ids),
           accountNonces' = accountNonces, minFee' = minFee
    PROVE  /\ IndexesAgree' /\ NoncesBounded' /\ NoNonceConflict'
           /\ WithinCapacity' /\ MinFeeBelowMax'
           /\ pendingTxs' \in SUBSET Item /\ IsFiniteSet(pendingTxs')
           /\ DOMAIN txMap' \subseteq TxID
           /\ txMap' = [id \in DOMAIN txMap' |-> txMap'[id]]
           /\ accountNonces' \in [Account -> Nat \cup {NoNonce}]
           /\ minFee' \in Nat
<1> USE DEF PoolInv
<1>1. /\ IndexesAgree' /\ NoncesBounded' /\ NoNonceConflict'
      /\ pendingTxs' \subseteq pendingTxs
      /\ DOMAIN txMap' \subseteq DOMAIN txMap
      /\ txMap' = [id \in DOMAIN txMap' |-> txMap'[id]]
  BY RemovalKeepsIndexes
<1>2. IsFiniteSet(pendingTxs') /\ Cardinality(pendingTxs') <= Cardinality(pendingTxs)
      /\ Cardinality(pendingTxs') \in Nat /\ Cardinality(pendingTxs) \in Nat
  BY <1>1, FS_Subset, FS_CardinalityType DEF TypeOK
<1>3. WithinCapacity' /\ MinFeeBelowMax'
  BY <1>2, PoolAssumption DEF WithinCapacity, MinFeeBelowMax
<1> QED BY <1>1, <1>2, <1>3 DEF TypeOK

LEMMA RemoveKeeps ==
    ASSUME PoolInv, NEW id \in TxID, RemoveTransaction(id)
    PROVE  PoolInv'
<1>1. /\ pendingTxs' = HeapWithout({id}) /\ txMap' = MapWithout({id})
      /\ accountNonces' = accountNonces /\ minFee' = minFee
  BY DEF RemoveTransaction
<1>2. accountTxs' \in [Account -> SUBSET TxID]
  BY DEF RemoveTransaction, DropSenderEntries, DropContractEntries, PoolInv, TypeOK
<1>3. /\ totalTxs' \in Int /\ totalAdded' \in Nat /\ totalRemoved' \in Nat
      /\ totalExpired' \in Nat /\ totalEvicted' \in Nat /\ now' \in Nat
  BY DEF RemoveTransaction, PoolInv, TypeOK
<1> QED BY <1>1, <1>2, <1>3, ShrinkKeeps DEF PoolInv, TypeOK

(* txMap is injective, so the expired identifiers are finitely many.        *)
LEMMA FiniteExpired ==
    ASSUME TypeOK, IndexesAgree
    PROVE  IsFiniteSet(ExpiredIDs) /\ Cardinality(ExpiredIDs) \in Nat
<1> DEFINE f == [id \in ExpiredIDs |-> txMap[id]]
<1>1. f \in Injection(ExpiredIDs, pendingTxs)
  BY DEF Injection, IsInjective, ExpiredIDs, IndexesAgree
<1>2. IsFiniteSet(ExpiredIDs)
  BY <1>1, FS_Injection DEF TypeOK
<1> QED BY <1>2, FS_CardinalityType

LEMMA ExpireKeeps ==
    ASSUME PoolInv, RemoveExpiredTransactions
    PROVE  PoolInv'
<1>1. /\ pendingTxs' = HeapWithout(ExpiredIDs) /\ txMap' = MapWithout(ExpiredIDs)
      /\ accountNonces' = accountNonces /\ minFee' = minFee
  BY DEF RemoveExpiredTransactions
<1>2. accountTxs' \in [Account -> SUBSET TxID]
  BY DEF RemoveExpiredTransactions, DropSenderEntries, PoolInv, TypeOK
<1>3. /\ totalTxs' \in Int /\ totalAdded' \in Nat /\ totalRemoved' \in Nat
      /\ totalExpired' \in Nat /\ totalEvicted' \in Nat /\ now' \in Nat
  BY FiniteExpired DEF RemoveExpiredTransactions, PoolInv, TypeOK
<1> QED BY <1>1, <1>2, <1>3, ShrinkKeeps DEF PoolInv, TypeOK

LEMMA ConflictsKeep ==
    ASSUME PoolInv, HandleConflicts
    PROVE  PoolInv'
<1> PICK K \in SurvivorSets :
        pendingTxs' = K /\ txMap' = MapWithout({i.tx.id : i \in pendingTxs \ K})
  BY DEF HandleConflicts
<1> DEFINE gone == {i.tx.id : i \in pendingTxs \ K}
<1>1. pendingTxs' = HeapWithout(gone)
  <2>1. K = pendingTxs \ (pendingTxs \ K)
    BY DEF SurvivorSets
  <2> QED BY <2>1, EvictedByID DEF PoolInv
<1>2. txMap' = MapWithout(gone)
  OBVIOUS
<1>3. UNCHANGED <<accountNonces, accountTxs, minFee, totalTxs, totalAdded,
                  totalRemoved, totalExpired, totalEvicted, now>>
  BY DEF HandleConflicts
<1> HIDE DEF gone
<1> QED BY <1>1, <1>2, <1>3, ShrinkKeeps DEF PoolInv, TypeOK

----------------------------------------------------------------------------

(* Every reachable state of the mempool satisfies the inductive invariant.  *)
THEOREM PoolInvariant == Spec => []PoolInv
<1>1. Init => PoolInv
  <2> SUFFICES ASSUME Init PROVE PoolInv
    OBVIOUS
  <2> USE DEF Init
  <2>1. Cardinality(pendingTxs) = 0 /\ IsFiniteSet(pendingTxs)
    BY FS_EmptySet
  <2>2. TypeOK
    BY <2>1, PoolAssumption DEF TypeOK, NoNonce
  <2>3. IndexesAgree /\ NoncesBounded /\ NoNonceConflict
    BY DEF IndexesAgree, NoncesBounded, NoNonceConflict
  <2>4. WithinCapacity /\ MinFeeBelowMax
    BY <2>1, PoolAssumption DEF WithinCapacity, MinFeeBelowMax
  <2> QED BY <2>2, <2>3, <2>4 DEF PoolInv
<1>2. PoolInv /\ [Next]_vars => PoolInv'
  <2> SUFFICES ASSUME PoolInv, [Next]_vars PROVE PoolInv'
    OBVIOUS
  <2>1. CASE \E tx \in Tx : AddTransaction(tx)
    BY <2>1, AddKeeps
  <2>2. CASE \E id \in TxID : RemoveTransaction(id)
    BY <2>2, RemoveKeeps
  <2>3. CASE RemoveExpiredTransactions
    BY <2>3, ExpireKeeps
  <2>4. CASE HandleConflicts
    BY <2>4, ConflictsKeep
  <2>5. CASE Tick
    BY <2>5 DEF Tick, PoolInv, TypeOK, IndexesAgree, NoncesBounded, NoNonceConflict,
                WithinCapacity, MinFeeBelowMax
  <2>6. CASE UNCHANGED vars
    BY <2>6 DEF vars, PoolInv, TypeOK, IndexesAgree, NoncesBounded, NoNonceConflict,
                WithinCapacity, MinFeeBelowMax
  <2> QED BY <2>1, <2>2, <2>3, <2>4, <2>5, <2>6 DEF Next
<1> QED BY <1>1, <1>2, PTL DEF Spec

(* The variables keep their types.                                          *)
THEOREM TypeCorrect == Spec => []TypeOK
BY PoolInvariant, PTL DEF PoolInv

(* Two pooled transactions never compete for one nonce of one sender, so    *)
(* HandleConflicts has nothing to resolve, whatever is submitted.           *)
THEOREM NoConflicts == Spec => []NoNonceConflict
BY PoolInvariant, PTL DEF PoolInv

(* The heap and the identifier map describe the same pool at all times.     *)
THEOREM HeapMatchesMap == Spec => []IndexesAgree
BY PoolInvariant, PTL DEF PoolInv

(* The pool never outgrows maxPoolSize.                                     *)
THEOREM CapacityRespected == Spec => []WithinCapacity
BY PoolInvariant, PTL DEF PoolInv

(* The dynamic minimum fee never rises above maxFee.                        *)
THEOREM FeeCapRespected == Spec => []MinFeeBelowMax
BY PoolInvariant, PTL DEF PoolInv

----------------------------------------------------------------------------
(* The refinement                                                           *)

(* As the map holds each item under its own id, the items and their         *)
(* transactions are equally many.                                           *)
LEMMA ItemsAndTxs ==
    ASSUME NEW heap, NEW map, IsFiniteSet(heap), \A i \in heap : map[i.tx.id] = i
    PROVE  Cardinality({i.tx : i \in heap}) = Cardinality(heap)
<1> DEFINE txs == {i.tx : i \in heap}
           f == [i \in heap |-> i.tx]
<1>1. \A i, j \in heap : i.tx = j.tx => i = j
  <2> SUFFICES ASSUME NEW i \in heap, NEW j \in heap, i.tx = j.tx PROVE i = j
    OBVIOUS
  <2>1. map[i.tx.id] = i /\ map[j.tx.id] = j
    OBVIOUS
  <2> QED BY <2>1
<1>2. f \in Bijection(heap, txs)
  BY <1>1 DEF Bijection, Injection, IsInjective, Surjection
<1> HIDE DEF txs, f
<1>3. Cardinality(txs) = Cardinality(heap)
  BY <1>2, FS_Bijection DEF ExistsBijection
<1> QED BY <1>3 DEF txs

(* AddTransaction: an admission uses up the nonce, a refusal only drops     *)
(* what was evicted.                                                        *)
LEMMA AddIsSubmitOrDrop ==
    ASSUME PoolInv, PoolInv', NEW tx \in Tx, AddTransaction(tx)
    PROVE  Abstract!Next
<1>1. /\ Cardinality(PooledTxs) = Cardinality(pendingTxs)
      /\ Cardinality(PooledTxs') = Cardinality(pendingTxs')
  BY ItemsAndTxs DEF PoolInv, TypeOK, IndexesAgree, PooledTxs
<1>2. Cardinality(pendingTxs) \in Nat /\ MaxPoolSize \in Nat
  BY FS_CardinalityType, PoolAssumption DEF PoolInv, TypeOK
<1>3. PICK E, fee :
         /\ E \in SUBSET pendingTxs
         /\ AddAfterEvicting(tx, E, fee)
         /\ E # {} => PoolFull(Cardinality(pendingTxs))
  BY DEF AddTransaction, EvictionSets
<1>4. {i.tx : i \in pendingTxs \ E} = PooledTxs \ {i.tx : i \in E}
  <2>1. \A i, j \in pendingTxs : i.tx = j.tx => i = j
    BY DEF PoolInv, IndexesAgree
  <2> QED BY <1>3, <2>1 DEF PooledTxs
<1>5. CASE Admit(tx, E, fee)
  <2> DEFINE gone == {i.tx : i \in E}
  <2>1. /\ tx.nonce > accountNonces[tx.sender]
        /\ accountNonces' = [accountNonces EXCEPT ![tx.sender] = tx.nonce]
    BY <1>5 DEF Admit, validateTransaction, RecordNonce
  <2>2. PooledTxs' = (PooledTxs \ gone) \cup {tx}
    <3> DEFINE item == [tx |-> tx, priority |-> calculatePriority(tx)]
    <3>1. pendingTxs' = (pendingTxs \ E) \cup {item} /\ item.tx = tx
      BY <1>5 DEF Admit
    <3> HIDE DEF item
    <3>2. PooledTxs' = {i.tx : i \in pendingTxs \ E} \cup {tx}
      BY <3>1 DEF PooledTxs
    <3> QED BY <1>4, <3>2
  <2>3. gone # {} => Cardinality(PooledTxs) = MaxPoolSize
    BY <1>1, <1>2, <1>3 DEF PoolInv, WithinCapacity, PoolFull
  <2>4. Cardinality(PooledTxs') <= MaxPoolSize
    BY <1>1 DEF PoolInv, WithinCapacity
  <2>5. gone \in SUBSET PooledTxs
    BY <1>3 DEF PooledTxs
  <2> HIDE DEF gone
  <2>6. Abstract!Submit(tx, gone)
    <3>1. \A S : Abstract!Cardinality(S) = Cardinality(S)
      BY DEF Abstract!Cardinality, Cardinality
    <3> QED BY <2>1, <2>2, <2>3, <2>4, <3>1 DEF Abstract!Submit
  <2> QED BY <2>5, <2>6 DEF Abstract!Next
<1>6. CASE Reject(tx, E, fee)
  <2>1. PooledTxs' \subseteq PooledTxs /\ accountNonces' = accountNonces
    BY <1>6 DEF Reject, PooledTxs
  <2> QED BY <2>1 DEF Abstract!Next, Abstract!Drop
<1> QED BY <1>3, <1>5, <1>6 DEF AddAfterEvicting

(* The mempool implements its abstract specification: a nonce that was      *)
(* admitted once is never admitted again, also after its transaction was    *)
(* removed, expired or evicted, and only a full pool evicts.                *)
THEOREM PoolImplementsMempool == Spec => ImplementsMempool
<1>1. Init => Abstract!Init
  BY DEF Init, Abstract!Init, PooledTxs, NoNonce
<1>2. PoolInv /\ PoolInv' /\ [Next]_vars => [Abstract!Next]_(Abstract!mempoolVars)
  <2> SUFFICES ASSUME PoolInv, PoolInv', [Next]_vars
               PROVE  Abstract!Next \/ UNCHANGED Abstract!mempoolVars
    OBVIOUS
  <2>1. ASSUME NEW tx \in Tx, AddTransaction(tx) PROVE Abstract!Next
    BY <2>1, AddIsSubmitOrDrop
  <2>2. ASSUME pendingTxs' \subseteq pendingTxs, accountNonces' = accountNonces
        PROVE  Abstract!Next
    BY <2>2 DEF Abstract!Next, Abstract!Drop, PooledTxs
  <2>3. ASSUME NEW id \in TxID, RemoveTransaction(id) PROVE Abstract!Next
    BY <2>2, <2>3 DEF RemoveTransaction, HeapWithout
  <2>4. CASE RemoveExpiredTransactions
    BY <2>2, <2>4 DEF RemoveExpiredTransactions, HeapWithout
  <2>5. CASE HandleConflicts
    BY <2>2, <2>5 DEF HandleConflicts, SurvivorSets
  <2>6. CASE Tick
    BY <2>2, <2>6 DEF Tick
  <2>7. CASE UNCHANGED vars
    BY <2>2, <2>7 DEF vars
  <2> QED BY <2>1, <2>3, <2>4, <2>5, <2>6, <2>7 DEF Next
<1> QED BY <1>1, <1>2, PoolInvariant, PTL DEF Spec, ImplementsMempool, Abstract!Spec

(***************************************************************************)
(* The network manager.                                                     *)
(***************************************************************************)
PeerType ==
  [phase : {"unused", "dialing", "add", "run"}, addr : Addresses \cup {NoPeer},
   gone : BOOLEAN, quit : BOOLEAN, closing : BOOLEAN, reader : {"off", "read", "remove"}]

NetTypeOK ==
  /\ nmRunning \in BOOLEAN /\ stopClosed \in BOOLEAN /\ nmStarts \in Nat
  /\ netPeers \in [Addresses -> Objects \cup {NoPeer}]
  /\ conn \in [Objects -> PeerType]
  /\ late \in Nat

\* A connection that is up or about to be added has an address; before it runs it is
\* neither closed nor read from; readLoop removes only what it has closed.
PeerStates ==
  \A p \in Objects :
    /\ conn[p].phase # "unused" => conn[p].addr \in Addresses
    /\ conn[p].phase # "run" => ~conn[p].quit /\ conn[p].reader = "off"
    /\ conn[p].reader = "remove" => conn[p].quit

\* The map has a connection under its own address only, once it runs.
ListedUnderAddress ==
  \A a \in Addresses : netPeers[a] # NoPeer =>
    conn[netPeers[a]].phase = "run" /\ conn[netPeers[a]].addr = a

\* RegistrySound is not inductive: RemovePeer takes whoever has the address, so what it
\* leaves in the map is open only because nobody is listed under a second address.
RegistryInv == NetTypeOK /\ PeerStates /\ ListedUnderAddress /\ RegistrySound

\* What the listener can still do: stopChan is never made again, and a second Start
\* makes no second listener.
ListenerInv ==
  /\ nmStarts \in Nat /\ late \in Nat
  /\ nmRunning \/ stopClosed => nmStarts # 0
  /\ nmStarts = 0 => listener = "off"
  /\ ~stopClosed => late = 0
  /\ late # 0 => late = 1 /\ listener \in {"top", "exited"}

-----------------------------------------------------------------------------
(* The listener                                                              *)

\* Whatever happens after Stop, one more connection is let in at most.
THEOREM LateConnectionBound == NetSpec => []OneLateConnection
<1>1. NetInit => ListenerInv
  BY DEF NetInit, ListenerInv
<1>2. ListenerInv /\ [NetNext]_netVars => ListenerInv'
  <2> SUFFICES ASSUME ListenerInv, [NetNext]_netVars PROVE ListenerInv'
    OBVIOUS
  <2> USE DEF ListenerInv, nmVars
  <2>1. CASE StartNetwork
    BY <2>1 DEF StartNetwork
  <2>2. CASE StopNetwork
    BY <2>2 DEF StopNetwork
  <2>3. CASE ListenTop
    BY <2>3 DEF ListenTop
  <2>4. ASSUME NEW p \in Accepted, Accept(p) PROVE ListenerInv'
    BY <2>4 DEF Accept
  <2>5. ASSUME NEW p \in Dialed, DialReturns(p) \/ \E a \in Seeds : DialPeer(p, a)
        PROVE  ListenerInv'
    BY <2>5 DEF DialReturns, DialPeer
  <2>6. ASSUME NEW p \in Objects,
               AddConnection(p) \/ Break(p) \/ ReadFails(p) \/ RemovePeer(p)
        PROVE  ListenerInv'
    BY <2>6 DEF AddConnection, Break, ReadFails, RemovePeer
  <2>7. CASE UNCHANGED netVars
    BY <2>7 DEF netVars
  <2> QED BY <2>1, <2>2, <2>3, <2>4, <2>5, <2>6, <2>7 DEF NetNext
<1>3. ListenerInv => OneLateConnection
  BY DEF ListenerInv, OneLateConnection
<1> QED BY <1>1, <1>2, <1>3, PTL DEF NetSpec

-----------------------------------------------------------------------------
(* The registry                                                              *)

\* A step that changes one connection and leaves the map alone.
LEMMA ConnectionStep ==
  ASSUME RegistryInv, NEW p \in Objects, NEW rec \in PeerType,
         conn' = [conn EXCEPT ![p] = rec], netPeers' = netPeers,
         nmRunning' \in BOOLEAN, stopClosed' \in BOOLEAN, nmStarts' \in Nat, late' \in Nat,
         rec.phase # "unused" => rec.addr \in Addresses,
         rec.phase # "run" => ~rec.quit /\ rec.reader = "off",
         rec.reader = "remove" => rec.quit,
         rec.phase = "run" <=> conn[p].phase = "run",
         rec.phase = "run" => rec.addr = conn[p].addr,
         conn[p].quit => rec.quit,
         rec.quit => rec.closing \/ (conn[p].quit /\ ~conn[p].closing)
  PROVE  RegistryInv'
<1>1. /\ conn' \in [Objects -> PeerType] /\ conn'[p] = rec
      /\ \A q \in Objects \ {p} : conn'[q] = conn[q]
  BY DEF RegistryInv, NetTypeOK
<1>2. NetTypeOK'
  BY <1>1 DEF RegistryInv, NetTypeOK
<1>3. PeerStates'
  BY <1>1 DEF RegistryInv, PeerStates
<1>4. \A a \in Addresses : netPeers[a] \in Objects \cup {NoPeer}
  BY DEF RegistryInv, NetTypeOK
<1>5. ListedUnderAddress'
  BY <1>1, <1>4 DEF RegistryInv, ListedUnderAddress
<1>6. Listed' = Listed /\ Listed \subseteq Objects
  BY <1>4 DEF Listed
<1>7. ListedIsOpen'
  BY <1>1, <1>6 DEF RegistryInv, RegistrySound, ListedIsOpen
<1>8. OpenIsListed'
  <2>1. \A q \in Objects : /\ conn'[q].phase = "run" <=> conn[q].phase = "run"
                           /\ conn'[q].phase = "run" => conn'[q].addr = conn[q].addr
                           /\ conn[q].quit => conn'[q].quit
    BY <1>1
  <2> QED BY <1>6, <2>1 DEF RegistryInv, RegistrySound, OpenIsListed
<1> QED BY <1>2, <1>3, <1>5, <1>7, <1>8 DEF RegistryInv, RegistrySound

\* addPeer: the connection takes its address from the one that had it.
LEMMA PeerAddKeeps ==
  ASSUME RegistryInv, NEW p \in Objects, AddConnection(p)
  PROVE  RegistryInv'
<1> DEFINE rec == [conn[p] EXCEPT !.phase = "run", !.reader = "read"]
           a == conn[p].addr
<1>1. /\ conn[p].phase = "add" /\ netPeers' = [netPeers EXCEPT ![a] = p]
      /\ conn' = [conn EXCEPT ![p] = rec]
      /\ UNCHANGED <<nmRunning, nmStarts, stopClosed, late>>
  BY DEF AddConnection, nmVars
<1>2. conn[p] \in PeerType /\ a \in Addresses /\ ~conn[p].quit
  BY <1>1 DEF RegistryInv, NetTypeOK, PeerStates
<1>3. /\ rec \in PeerType /\ rec.phase = "run" /\ rec.addr = a /\ ~rec.quit
      /\ rec.reader = "read"
  BY <1>2 DEF PeerType
<1> HIDE DEF rec, a
<1>4. /\ conn' \in [Objects -> PeerType] /\ conn'[p] = rec
      /\ \A q \in Objects \ {p} : conn'[q] = conn[q]
  BY <1>1, <1>3 DEF RegistryInv, NetTypeOK
<1>5. /\ netPeers' \in [Addresses -> Objects \cup {NoPeer}] /\ netPeers'[a] = p
      /\ \A b \in Addresses \ {a} : netPeers'[b] = netPeers[b] /\ netPeers[b] # p
  BY <1>1, <1>2, NetworkAssumption DEF RegistryInv, NetTypeOK, ListedUnderAddress
<1>6. \A b \in Addresses : netPeers[b] \in Objects \cup {NoPeer}
  BY DEF RegistryInv, NetTypeOK
<1>7. NetTypeOK' /\ PeerStates'
  BY <1>1, <1>2, <1>3, <1>4, <1>5 DEF RegistryInv, NetTypeOK, PeerStates
<1>8. ListedUnderAddress'
  BY <1>3, <1>4, <1>5, <1>6 DEF RegistryInv, ListedUnderAddress
<1>9. ListedIsOpen'
  <2>1. \A q \in Listed' : q = p \/ (q \in Listed /\ q \in Objects)
    BY <1>5, <1>6 DEF Listed
  <2> QED BY <1>3, <1>4, <2>1 DEF RegistryInv, RegistrySound, ListedIsOpen
<1>10. OpenIsListed'
  <2> SUFFICES ASSUME NEW q \in Objects, conn'[q].phase = "run", ~conn'[q].quit
               PROVE  \/ q \in Listed'
                      \/ \E r \in Objects \ {q} : /\ conn'[r].phase = "run"
                                                  /\ conn'[r].addr = conn'[q].addr
    BY DEF OpenIsListed
  <2>1. CASE q = p
    <3>1. p \in Listed'
      BY <1>2, <1>5, NetworkAssumption DEF Listed
    <3> QED BY <2>1, <3>1
  <2>2. CASE q # p /\ conn[q].addr = a
    BY <1>3, <1>4, <2>2
  <2>3. CASE q # p /\ conn[q].addr # a
    <3>1. conn[q].phase = "run" /\ ~conn[q].quit
      BY <1>4, <2>3
    <3>2. CASE q \in Listed
      <4>1. PICK b \in Addresses : netPeers[b] = q /\ q # NoPeer
        BY <3>2 DEF Listed
      <4>2. b # a
        BY <2>3, <4>1 DEF RegistryInv, ListedUnderAddress
      <4> QED BY <1>5, <4>1, <4>2 DEF Listed
    <3>3. CASE \E r \in Objects \ {q} : conn[r].phase = "run" /\ conn[r].addr = conn[q].addr
      BY <1>1, <1>4, <2>3, <3>3
    <3> QED BY <3>1, <3>2, <3>3 DEF RegistryInv, RegistrySound, OpenIsListed
  <2> QED BY <2>1, <2>2, <2>3
<1> QED BY <1>7, <1>8, <1>9, <1>10 DEF RegistryInv, RegistrySound

\* Close removes whoever has the address; whoever that is, the closed connection
\* had it too.
LEMMA PeerRemoveKeeps ==
  ASSUME RegistryInv, NEW p \in Objects, RemovePeer(p)
  PROVE  RegistryInv'
<1> DEFINE rec == [conn[p] EXCEPT !.reader = "off", !.closing = FALSE]
           a == conn[p].addr
<1>1. /\ conn[p].reader = "remove" /\ netPeers' = [netPeers EXCEPT ![a] = NoPeer]
      /\ UNCHANGED <<nmRunning, nmStarts, stopClosed, late>>
  BY DEF RemovePeer, nmVars
<1>2. /\ conn[p] \in PeerType /\ a \in Addresses /\ conn[p].phase = "run" /\ conn[p].quit
  BY <1>1 DEF RegistryInv, NetTypeOK, PeerStates
<1>3. conn' = [conn EXCEPT ![p] = rec]
  BY <1>2 DEF RemovePeer, RegistryInv, NetTypeOK, PeerType
<1>4. /\ rec \in PeerType /\ rec.phase = "run" /\ rec.addr = a /\ rec.quit
      /\ rec.reader = "off"
  BY <1>2 DEF PeerType
<1> HIDE DEF rec, a
<1>5. /\ conn' \in [Objects -> PeerType] /\ conn'[p] = rec
      /\ \A q \in Objects \ {p} : conn'[q] = conn[q]
  BY <1>3, <1>4 DEF RegistryInv, NetTypeOK
<1>6. /\ netPeers' \in [Addresses -> Objects \cup {NoPeer}] /\ netPeers'[a] = NoPeer
      /\ \A b \in Addresses \ {a} : netPeers'[b] = netPeers[b]
  BY <1>1, <1>2 DEF RegistryInv, NetTypeOK
<1>7. \A b \in Addresses : netPeers[b] \in Objects \cup {NoPeer}
  BY DEF RegistryInv, NetTypeOK
<1>8. NetTypeOK' /\ PeerStates'
  BY <1>1, <1>2, <1>4, <1>5, <1>6 DEF RegistryInv, NetTypeOK, PeerStates
<1>9. \A b \in Addresses \ {a} : netPeers[b] # p
  BY NetworkAssumption DEF RegistryInv, ListedUnderAddress, a
<1>10. ListedUnderAddress'
  BY <1>5, <1>6, <1>7, <1>9 DEF RegistryInv, ListedUnderAddress
<1>11. ListedIsOpen'
  <2>1. \A q \in Listed' : q # p /\ q \in Listed /\ q \in Objects
    BY <1>6, <1>7, <1>9 DEF Listed
  <2> QED BY <1>5, <2>1 DEF RegistryInv, RegistrySound, ListedIsOpen
<1>12. OpenIsListed'
  <2> SUFFICES ASSUME NEW q \in Objects, conn'[q].phase = "run", ~conn'[q].quit
               PROVE  \/ q \in Listed'
                      \/ \E r \in Objects \ {q} : /\ conn'[r].phase = "run"
                                                  /\ conn'[r].addr = conn'[q].addr
    BY DEF OpenIsListed
  <2>1. q # p /\ conn'[q] = conn[q]
    BY <1>4, <1>5
  <2>2. CASE conn[q].addr = a
    BY <1>4, <1>5, <2>1, <2>2
  <2>3. CASE conn[q].addr # a
    <3>1. CASE q \in Listed
      <4>1. PICK b \in Addresses : netPeers[b] = q /\ q # NoPeer
        BY <3>1 DEF Listed
      <4>2. b # a
        BY <2>3, <4>1 DEF RegistryInv, ListedUnderAddress
      <4> QED BY <1>6, <4>1, <4>2 DEF Listed
    <3>2. CASE \E r \in Objects \ {q} : conn[r].phase = "run" /\ conn[r].addr = conn[q].addr
      BY <1>4, <1>5, <2>1, <2>3, <3>2 DEF a
    <3> QED BY <2>1, <3>1, <3>2 DEF RegistryInv, RegistrySound, OpenIsListed
  <2> QED BY <2>2, <2>3
<1> QED BY <1>8, <1>10, <1>11, <1>12 DEF RegistryInv, RegistrySound

\* The map of peers and the open connections belong together in every reachable state.
THEOREM RegistryInvariant == NetSpec => []RegistryInv
<1>1. NetInit => RegistryInv
  <2> SUFFICES ASSUME NetInit PROVE RegistryInv
    OBVIOUS
  <2>1. Unused \in PeerType /\ Unused.phase = "unused" /\ ~Unused.quit /\ Unused.reader = "off"
    BY DEF Unused, NewPeer, PeerType
  <2>2. \A p \in Objects : conn[p] = Unused
    BY DEF NetInit
  <2>3. Listed = {}
    BY DEF NetInit, Listed
  <2>4. NetTypeOK
    BY <2>1 DEF NetInit, NetTypeOK
  <2> QED BY <2>1, <2>2, <2>3, <2>4 DEF NetInit, RegistryInv, PeerStates, ListedUnderAddress,
             RegistrySound, ListedIsOpen, OpenIsListed
<1>2. RegistryInv /\ [NetNext]_netVars => RegistryInv'
  <2> SUFFICES ASSUME RegistryInv, [NetNext]_netVars PROVE RegistryInv'
    OBVIOUS
  <2> USE DEF nmVars
  <2>0. /\ nmRunning \in BOOLEAN /\ stopClosed \in BOOLEAN /\ nmStarts \in Nat /\ late \in Nat
        /\ \A p \in Objects : conn[p] \in PeerType
    BY DEF RegistryInv, NetTypeOK
  <2>1. ASSUME UNCHANGED <<netPeers, conn>>, nmRunning' \in BOOLEAN, stopClosed' \in BOOLEAN,
               nmStarts' \in Nat, late' \in Nat
        PROVE  RegistryInv'
    BY <2>1 DEF RegistryInv, NetTypeOK, PeerStates, ListedUnderAddress, RegistrySound,
       ListedIsOpen, OpenIsListed, Listed
  <2>2. CASE StartNetwork
    BY <2>0, <2>1, <2>2 DEF StartNetwork
  <2>3. CASE StopNetwork
    <3>1. CASE UNCHANGED conn
      BY <2>0, <2>1, <2>3, <3>1 DEF StopNetwork
    <3>2. ASSUME NEW p \in Listed,
                 conn' = [conn EXCEPT ![p].quit = TRUE, ![p].closing = TRUE]
          PROVE  RegistryInv'
      <4> DEFINE rec == [conn[p] EXCEPT !.quit = TRUE, !.closing = TRUE]
      <4>1. p \in Objects /\ conn[p].phase = "run"
        BY DEF Listed, RegistryInv, NetTypeOK, ListedUnderAddress
      <4>2. conn[p] \in PeerType
        BY <2>0, <4>1
      <4>3. conn' = [conn EXCEPT ![p] = rec]
        BY <3>2, <4>1, <4>2 DEF RegistryInv, NetTypeOK, PeerType
      <4>4. /\ rec \in PeerType /\ rec.phase = "run" /\ rec.addr = conn[p].addr /\ rec.quit
            /\ rec.closing
        BY <4>1, <4>2 DEF PeerType
      <4> HIDE DEF rec
      <4>5. conn[p].addr \in Addresses
        BY <4>1 DEF RegistryInv, PeerStates
      <4>6. /\ netPeers' = netPeers /\ nmRunning' \in BOOLEAN /\ stopClosed' \in BOOLEAN
            /\ nmStarts' \in Nat /\ late' \in Nat
        BY <2>0, <2>3 DEF StopNetwork
      <4> QED BY <4>1, <4>3, <4>4, <4>5, <4>6, ConnectionStep
    <3> QED BY <2>3, <3>1, <3>2 DEF StopNetwork
  <2>4. CASE ListenTop
    BY <2>0, <2>1, <2>4 DEF ListenTop
  <2>5. ASSUME NEW a \in Addresses
        PROVE  /\ NewPeer(a) \in PeerType /\ NewPeer(a).phase = "add" /\ NewPeer(a).addr = a
               /\ ~NewPeer(a).quit /\ NewPeer(a).reader = "off"
               /\ [NewPeer(a) EXCEPT !.phase = "dialing"] \in PeerType
               /\ [NewPeer(a) EXCEPT !.phase = "dialing"].phase = "dialing"
               /\ [NewPeer(a) EXCEPT !.phase = "dialing"].addr = a
               /\ ~[NewPeer(a) EXCEPT !.phase = "dialing"].quit
               /\ [NewPeer(a) EXCEPT !.phase = "dialing"].reader = "off"
    BY DEF NewPeer, PeerType
  <2>6. Unused \in PeerType /\ Unused.phase = "unused" /\ ~Unused.quit /\ Unused.reader = "off"
    BY DEF Unused, NewPeer, PeerType
  <2>7. ASSUME NEW p \in Accepted, Accept(p) PROVE RegistryInv'
    <3>1. p \in Objects /\ p \in Addresses
      BY DEF Objects, Addresses
    <3>2. /\ conn[p] = Unused /\ conn' = [conn EXCEPT ![p] = NewPeer(p)]
          /\ netPeers' = netPeers /\ late' \in Nat /\ UNCHANGED nmVars
      BY <2>0, <2>7 DEF Accept
    <3> QED BY <2>0, <2>5, <2>6, <3>1, <3>2, ConnectionStep
  <2>8. ASSUME NEW p \in Dialed, NEW a \in Seeds, DialPeer(p, a) PROVE RegistryInv'
    <3>1. p \in Objects /\ a \in Addresses
      BY DEF Objects, Addresses
    <3> DEFINE rec == [NewPeer(a) EXCEPT !.phase = "dialing"]
    <3>2. /\ conn[p] = Unused /\ conn' = [conn EXCEPT ![p] = rec]
          /\ UNCHANGED <<nmVars, netPeers, late>>
      BY <2>8 DEF DialPeer
    <3>3. /\ rec \in PeerType /\ rec.phase = "dialing" /\ rec.addr = a /\ ~rec.quit
          /\ rec.reader = "off"
      BY <2>5, <3>1
    <3> HIDE DEF rec
    <3> QED BY <2>0, <2>6, <3>1, <3>2, <3>3, ConnectionStep
  <2>9. ASSUME NEW p \in Dialed, DialReturns(p) PROVE RegistryInv'
    <3>1. p \in Objects
      BY DEF Objects
    <3>2. /\ conn[p].phase = "dialing" /\ UNCHANGED <<nmVars, netPeers, late>>
          /\ \/ conn' = [conn EXCEPT ![p] = NewPeer(conn[p].addr)]
             \/ conn' = [conn EXCEPT ![p] = Unused]
      BY <2>9 DEF DialReturns
    <3>3. conn[p].addr \in Addresses /\ ~conn[p].quit
      BY <3>1, <3>2 DEF RegistryInv, PeerStates
    <3>4. CASE conn' = [conn EXCEPT ![p] = NewPeer(conn[p].addr)]
      <4> DEFINE rec == NewPeer(conn[p].addr)
      <4>1. /\ rec \in PeerType /\ rec.phase = "add" /\ rec.addr = conn[p].addr
            /\ ~rec.quit /\ rec.reader = "off"
        BY <2>5, <3>3
      <4> HIDE DEF rec
      <4>2. conn' = [conn EXCEPT ![p] = rec]
        BY <3>4 DEF rec
      <4> QED BY <2>0, <3>1, <3>2, <3>3, <4>1, <4>2, ConnectionStep
    <3>5. CASE conn' = [conn EXCEPT ![p] = Unused]
      BY <2>0, <2>6, <3>1, <3>2, <3>3, <3>5, ConnectionStep
    <3> QED BY <3>2, <3>4, <3>5
  <2>10. ASSUME NEW p \in Objects, Break(p) PROVE RegistryInv'
    <3> DEFINE rec == [conn[p] EXCEPT !.gone = TRUE]
    <3>1. conn' = [conn EXCEPT ![p] = rec]
      BY <2>0, <2>10 DEF Break, RegistryInv, NetTypeOK, PeerType
    <3>2. conn[p].phase = "run" /\ ~conn[p].quit /\ UNCHANGED <<nmVars, netPeers, late>>
      BY <2>10 DEF Break
    <3>3. /\ rec \in PeerType /\ rec.phase = conn[p].phase /\ rec.addr = conn[p].addr
          /\ rec.quit = conn[p].quit /\ rec.closing = conn[p].closing
          /\ rec.reader = conn[p].reader
      BY <2>0 DEF PeerType
    <3> HIDE DEF rec
    <3>4. conn[p].addr \in Addresses /\ (conn[p].reader = "remove" => conn[p].quit)
      BY <3>2 DEF RegistryInv, PeerStates
    <3> QED BY <2>0, <3>1, <3>2, <3>3, <3>4, ConnectionStep
  <2>11. ASSUME NEW p \in Objects, ReadFails(p) PROVE RegistryInv'
    <3> DEFINE off == [conn[p] EXCEPT !.reader = "off"]
               shut == [conn[p] EXCEPT !.quit = TRUE, !.closing = TRUE, !.reader = "remove"]
    <3>1. /\ conn[p].reader = "read" /\ ~conn[p].closing /\ UNCHANGED <<nmVars, netPeers, late>>
          /\ conn' = [conn EXCEPT ![p] = IF conn[p].quit THEN off ELSE shut]
      BY <2>0, <2>11 DEF ReadFails, RegistryInv, NetTypeOK
    <3>2. conn[p].phase = "run" /\ conn[p].addr \in Addresses
      BY <3>1 DEF RegistryInv, PeerStates
    <3>3. /\ off \in PeerType /\ off.phase = conn[p].phase /\ off.addr = conn[p].addr
          /\ off.quit = conn[p].quit /\ off.closing = conn[p].closing /\ off.reader = "off"
      BY <2>0 DEF PeerType
    <3>4. /\ shut \in PeerType /\ shut.phase = conn[p].phase /\ shut.addr = conn[p].addr
          /\ shut.quit /\ shut.closing /\ shut.reader = "remove"
      BY <2>0 DEF PeerType
    <3> HIDE DEF off, shut
    <3>5. CASE conn[p].quit
      BY <2>0, <3>1, <3>2, <3>3, <3>5, ConnectionStep
    <3>6. CASE ~conn[p].quit
      BY <2>0, <3>1, <3>2, <3>4, <3>6, ConnectionStep
    <3> QED BY <3>5, <3>6
  <2>12. CASE UNCHANGED netVars
    BY <2>0, <2>1, <2>12 DEF netVars
  <2> QED
    BY <2>2, <2>3, <2>4, <2>7, <2>8, <2>9, <2>10, <2>11, <2>12, PeerAddKeeps, PeerRemoveKeeps
    DEF NetNext
<1> QED BY <1>1, <1>2, PTL DEF NetSpec

\* A listed peer is open or about to be removed, and an open connection is listed unless
\* another one to its address came or went.
THEOREM RegistryIsSound == NetSpec => []RegistrySound
BY RegistryInvariant, PTL DEF RegistryInv
=============================================================================
