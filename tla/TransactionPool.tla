-------------------------- MODULE TransactionPool --------------------------
(***************************************************************************)
(* The mempool of transaction/transaction_pool.go.  Every public method     *)
(* runs under tp.mu, so each is one atomic action.                          *)
(*                                                                          *)
(* Time is counted in hours; fees are counted in 1/FeeUnit of a coin.       *)
(***************************************************************************)
EXTENDS Integers, FiniteSets, Functions

CONSTANTS
    Tx,                 \* the transactions clients submit (records of Transaction)
    TxID,               \* transaction identifiers
    Account,            \* senders and smart contracts
    NoContract,         \* SmartContractID = ""
    MaxPoolSize,        \* maxPoolSize
    InitMinFee,         \* minFee given to NewTransactionPool
    MaxFee,             \* maxFee given to NewTransactionPool
    FeeUnit,            \* fee units per coin
    ExpirationDuration, \* expirationDuration, checked on admission
    MaxTxAge,           \* the age the manager passes to RemoveExpiredTransactions
    Loads,              \* values networkHealthFn may return
    ConflictResolutionEnabled,
    MaxAdds,            \* bound on totalAdded (model checking only)
    MaxTime             \* bound on the clock (model checking only)

VARIABLES
    pendingTxs,         \* the heap, as the set of its TransactionItems
    txMap,              \* txID -> TransactionItem
    accountNonces,      \* account -> highest admitted nonce, NoNonce if none
    accountTxs,         \* account -> txIDs; {} stands for no entry
    minFee,
    totalTxs,           \* poolMetrics.TotalTxs, the divisor of AvgTxSize
    totalAdded, totalRemoved, totalExpired, totalEvicted,
    now

vars == <<pendingTxs, txMap, accountNonces, accountTxs, minFee, totalTxs,
          totalAdded, totalRemoved, totalExpired, totalEvicted, now>>

NoNonce == -1

(* common.Transaction, reduced to what the pool looks at.  "sound" stands   *)
(* for the checks that depend on the transaction alone: amount, sender,     *)
(* receiver and signature.  expiry = 0 means no ExpiryTime.                 *)
Transaction ==
    [id : TxID, sender : Account, nonce : Nat, fee : Nat,
     contract : Account \cup {NoContract}, dataLen : Nat,
     timestamp : Nat, expiry : Nat, sound : BOOLEAN]

Item == [tx : Transaction, priority : 0..100]

ASSUME PoolAssumption ==
    /\ Tx \subseteq Transaction
    /\ NoContract \notin Account
    /\ MaxPoolSize \in Nat \ {0}
    /\ FeeUnit \in Nat \ {0}
    /\ InitMinFee \in Nat /\ MaxFee \in Nat /\ InitMinFee <= MaxFee
    /\ ExpirationDuration \in Nat /\ MaxTxAge \in Nat
    /\ Loads \subseteq 0..100
    /\ ConflictResolutionEnabled \in BOOLEAN
    /\ MaxAdds \in Nat /\ MaxTime \in Nat

----------------------------------------------------------------------------

Init ==
    /\ pendingTxs = {}
    /\ txMap = [id \in {} |-> {}]
    /\ accountNonces = [a \in Account |-> NoNonce]
    /\ accountTxs = [a \in Account |-> {}]
    /\ minFee = InitMinFee
    /\ totalTxs = 0
    /\ totalAdded = 0 /\ totalRemoved = 0 /\ totalExpired = 0 /\ totalEvicted = 0
    /\ now = 0

----------------------------------------------------------------------------
(* Helpers.  An operator Op_Slip is Op with a plausible coding slip; no      *)
(* action uses it, the runs substitute it to show which property would fail. *)

Clamp(lo, x, hi) == IF x < lo THEN lo ELSE IF x > hi THEN hi ELSE x

(* Fee per kilobyte times 10, plus the age in hours up to 10, times 5.      *)
calculatePriority_NotClamped(tx) ==
    LET size == 1024 + tx.dataLen
    IN (50 * 1024 * tx.fee + 5 * (now - tx.timestamp) * size * FeeUnit) \div (size * FeeUnit)

calculatePriority(tx) ==
    LET size == 1024 + tx.dataLen
        age  == IF now - tx.timestamp > 10 THEN 10 ELSE now - tx.timestamp
        raw  == (50 * 1024 * tx.fee + 5 * age * size * FeeUnit) \div (size * FeeUnit)
    IN Clamp(0, raw, 100)

validateTransaction_NonceNotStrict(tx, fee) ==
    /\ tx.sound
    /\ tx.fee >= fee
    /\ ~(tx.expiry > 0 /\ tx.expiry <= now)
    /\ now - tx.timestamp <= ExpirationDuration
    /\ tx.nonce >= accountNonces[tx.sender]

validateTransaction(tx, fee) ==
    /\ tx.sound
    /\ tx.fee >= fee
    /\ ~(tx.expiry > 0 /\ tx.expiry <= now)
    /\ now - tx.timestamp <= ExpirationDuration
    /\ tx.nonce > accountNonces[tx.sender]

(* The ids leave txMap; heap.Remove takes the matching items.               *)
MapWithout_NotDeleted(ids) == txMap
MapWithout(ids) == [id \in DOMAIN txMap \ ids |-> txMap[id]]
HeapWithout(ids) == {i \in pendingTxs : i.tx.id \notin ids}

(* The entries that optimizePool and RemoveExpiredTransactions delete: only *)
(* the sender's.  RemoveTransaction deletes the contract's as well.         *)
DropSenderEntries(index, items) ==
    [a \in Account |-> index[a] \ {i.tx.id : i \in {j \in items : j.tx.sender = a}}]
DropContractEntries(index, items) ==
    [a \in Account |-> index[a] \ {i.tx.id : i \in {j \in items : j.tx.contract = a}}]

(* AddTransaction, steps 8 and 9.                                           *)
IndexTransaction(index, tx) ==
    [a \in Account |-> IF a \in {tx.sender, tx.contract}
                       THEN index[a] \cup {tx.id} ELSE index[a]]

(* AddTransaction, step 7.                                                  *)
RecordNonce(tx) ==
    IF tx.nonce > accountNonces[tx.sender]
    THEN [accountNonces EXCEPT ![tx.sender] = tx.nonce] ELSE accountNonces

PoolFull(size) == size >= MaxPoolSize

TargetSize == (4 * MaxPoolSize) \div 5

(* adjustFeesBasedOnLoad: the factor is applied to the current minFee.      *)
adjustFeesBasedOnLoad(load) ==
    LET adjusted == IF load > 75 THEN (minFee * (100 + load)) \div 100
                    ELSE IF load < 25 THEN (minFee * (400 + load)) \div 500
                    ELSE (minFee * (450 + load)) \div 500
        floored  == IF 2 * adjusted < minFee THEN minFee \div 2 ELSE adjusted
    IN IF floored > MaxFee THEN MaxFee ELSE floored

(* heap.Pop, repeated Cardinality(S) - TargetSize times on a max-heap.      *)
(* The heap's order among equal priorities is left open.                    *)
EvictionSets ==
    {E \in SUBSET pendingTxs :
        /\ Cardinality(E) = Cardinality(pendingTxs) - TargetSize
        /\ \A e \in E : \A k \in pendingTxs \ E : e.priority >= k.priority}

----------------------------------------------------------------------------
(* AddTransaction.  E is what optimizePool evicted before the transaction   *)
(* was validated ({} when the pool was below capacity) and fee the minimum  *)
(* fee in force after it.                                                   *)

TotalAfterEvicting(E) == IF E = {} THEN totalTxs ELSE Cardinality(pendingTxs \ E)

Admit(tx, E, fee) ==
    LET item == [tx |-> tx, priority |-> calculatePriority(tx)]
        kept == MapWithout({e.tx.id : e \in E})
    IN
    /\ ~PoolFull(Cardinality(pendingTxs \ E))
    /\ validateTransaction(tx, fee)
    /\ pendingTxs' = (pendingTxs \ E) \cup {item}
    /\ txMap' = [id \in DOMAIN kept \cup {tx.id} |-> IF id = tx.id THEN item ELSE kept[id]]
    /\ accountNonces' = RecordNonce(tx)
    /\ accountTxs' = IndexTransaction(DropSenderEntries(accountTxs, E), tx)
    /\ totalTxs' = TotalAfterEvicting(E) + 1
    /\ totalAdded' = totalAdded + 1

(* ErrPoolFull or ErrInvalidTx: the evictions stand.                        *)
Reject(tx, E, fee) ==
    /\ PoolFull(Cardinality(pendingTxs \ E)) \/ ~validateTransaction(tx, fee)
    /\ pendingTxs' = pendingTxs \ E
    /\ txMap' = MapWithout({e.tx.id : e \in E})
    /\ accountTxs' = DropSenderEntries(accountTxs, E)
    /\ totalTxs' = TotalAfterEvicting(E)
    /\ UNCHANGED <<accountNonces, totalAdded>>

AddAfterEvicting(tx, E, fee) ==
    /\ Admit(tx, E, fee) \/ Reject(tx, E, fee)
    /\ minFee' = fee
    /\ totalEvicted' = totalEvicted + Cardinality(E)
    /\ UNCHANGED <<totalRemoved, totalExpired, now>>

AddTransaction(tx) ==
    /\ totalAdded < MaxAdds
    /\ tx.id \notin DOMAIN txMap
    /\ \/ /\ ~PoolFull(Cardinality(pendingTxs))
          /\ AddAfterEvicting(tx, {}, minFee)
       \/ /\ PoolFull(Cardinality(pendingTxs))
          /\ \E load \in Loads, E \in EvictionSets :
                AddAfterEvicting(tx, E, adjustFeesBasedOnLoad(load))

----------------------------------------------------------------------------

RemoveTransaction_FreesNonce(id) ==
    /\ id \in DOMAIN txMap
    /\ pendingTxs' = HeapWithout({id})
    /\ txMap' = MapWithout({id})
    /\ accountNonces' = [accountNonces EXCEPT ![txMap[id].tx.sender] = @ - 1]
    /\ UNCHANGED <<accountTxs, minFee, totalTxs, totalAdded, totalRemoved,
                   totalExpired, totalEvicted, now>>

RemoveTransaction(id) ==
    /\ id \in DOMAIN txMap
    /\ pendingTxs' = HeapWithout({id})
    /\ txMap' = MapWithout({id})
    /\ accountTxs' = DropContractEntries(DropSenderEntries(accountTxs, {txMap[id]}),
                                         {txMap[id]})
    /\ totalTxs' = totalTxs - 1
    /\ totalRemoved' = totalRemoved + 1
    /\ UNCHANGED <<accountNonces, minFee, totalAdded, totalExpired, totalEvicted, now>>

ExpiredIDs ==
    {id \in DOMAIN txMap :
        \/ txMap[id].tx.expiry > 0 /\ now > txMap[id].tx.expiry
        \/ txMap[id].tx.timestamp < now - MaxTxAge}

RemoveExpiredTransactions ==
    /\ pendingTxs' = HeapWithout(ExpiredIDs)
    /\ txMap' = MapWithout(ExpiredIDs)
    /\ accountTxs' = DropSenderEntries(accountTxs, {txMap[id] : id \in ExpiredIDs})
    /\ totalExpired' = totalExpired + Cardinality(ExpiredIDs)
    /\ UNCHANGED <<accountNonces, minFee, totalTxs, totalAdded, totalRemoved,
                   totalEvicted, now>>

(* The items with the sender and nonce of i.                                *)
ConflictSet(i) ==
    {j \in pendingTxs : j.tx.sender = i.tx.sender /\ j.tx.nonce = i.tx.nonce}

(* The ids HandleConflicts may leave: of each conflict set one item with    *)
(* the highest fee, or none when every fee in it is zero.                   *)
SurvivorSets ==
    {K \in SUBSET pendingTxs : \A i \in pendingTxs :
        LET C    == ConflictSet(i)
            best == {j \in C : j.tx.fee > 0 /\ \A k \in C : k.tx.fee <= j.tx.fee}
        IN IF Cardinality(C) <= 1 THEN i \in K
           ELSE IF best = {} THEN K \cap C = {}
           ELSE \E b \in best : K \cap C = {b}}

(* Only the heap and txMap are updated; no counter is.                      *)
HandleConflicts ==
    /\ ConflictResolutionEnabled
    /\ \E K \in SurvivorSets :
        /\ pendingTxs' = K
        /\ txMap' = MapWithout({i.tx.id : i \in pendingTxs \ K})
    /\ UNCHANGED <<accountNonces, accountTxs, minFee, totalTxs, totalAdded,
                   totalRemoved, totalExpired, totalEvicted, now>>

Tick ==
    /\ now < MaxTime
    /\ now' = now + 1
    /\ UNCHANGED <<pendingTxs, txMap, accountNonces, accountTxs, minFee, totalTxs,
                   totalAdded, totalRemoved, totalExpired, totalEvicted>>

Next ==
    \/ \E tx \in Tx : AddTransaction(tx)
    \/ \E id \in TxID : RemoveTransaction(id)
    \/ RemoveExpiredTransactions
    \/ HandleConflicts
    \/ Tick

Spec == Init /\ [][Next]_vars

----------------------------------------------------------------------------
(* Properties                                                               *)

TypeOK ==
    /\ pendingTxs \in SUBSET Item
    /\ IsFiniteSet(pendingTxs)
    /\ DOMAIN txMap \subseteq TxID
    /\ txMap = [id \in DOMAIN txMap |-> txMap[id]]
    /\ accountNonces \in [Account -> Nat \cup {NoNonce}]
    /\ accountTxs \in [Account -> SUBSET TxID]
    /\ minFee \in Nat
    /\ totalTxs \in Int
    /\ totalAdded \in Nat /\ totalRemoved \in Nat
    /\ totalExpired \in Nat /\ totalEvicted \in Nat
    /\ now \in Nat

(* The heap and the id map hold the same items, each item under its own id: *)
(* heap.Remove(item.index) in RemoveTransaction never meets an item that    *)
(* has already left the heap, whatever path removed it.                     *)
IndexesAgree ==
    /\ \A id \in DOMAIN txMap : txMap[id] \in pendingTxs /\ txMap[id].tx.id = id
    /\ \A i \in pendingTxs : i.tx.id \in DOMAIN txMap /\ txMap[i.tx.id] = i

(* The pool never holds more than maxPoolSize transactions, although        *)
(* capacity is restored by evicting a fixed share rather than one item.     *)
WithinCapacity == Cardinality(pendingTxs) <= MaxPoolSize

(* No two pooled transactions share a sender and a nonce, so the conflict   *)
(* sets that HandleConflicts resolves always have one element.              *)
NoNonceConflict ==
    \A i, j \in pendingTxs :
        i.tx.sender = j.tx.sender /\ i.tx.nonce = j.tx.nonce => i = j

(* accountNonces bounds the nonce of every pooled transaction from above,   *)
(* also after evictions, expiry and re-use of identifiers.                  *)
NoncesBounded ==
    \A i \in pendingTxs : i.tx.nonce <= accountNonces[i.tx.sender]

(* The fee adjustment never prices out a transaction that pays maxFee.      *)
MinFeeBelowMax == minFee <= MaxFee

(* The pool seen from outside: its transactions, without their priorities.   *)
PooledTxs == {i.tx : i \in pendingTxs}

Abstract == INSTANCE Mempool WITH
    pool <- PooledTxs, high <- accountNonces, Capacity <- MaxPoolSize

(* The heap, the id map and the fee machinery together behave as a bounded   *)
(* set of transactions in which each admission uses up a nonce for good: no  *)
(* removal, expiry, eviction or conflict gives a nonce back, no transaction  *)
(* appears or changes otherwise, and one call evicts only from a full pool.  *)
ImplementsMempool == Abstract!Spec

(* "Evict lowest priority transactions" (transaction_pool.go:554): while    *)
(* AddTransaction makes room, nothing that leaves the pool outranks         *)
(* something that stays.                                                    *)
EvictsLowestPriority ==
    [][totalEvicted' > totalEvicted =>
        \A e \in pendingTxs \ pendingTxs', k \in pendingTxs \cap pendingTxs' :
            e.priority <= k.priority]_vars
=============================================================================
