------------------------- MODULE TransactionManager -------------------------
(***************************************************************************)
(* transaction/transaction_manager.go over the mempool, the nonce tracker   *)
(* of transaction_utils.go and the ledger of storage/mongo_ledger.go.       *)
(*                                                                          *)
(* CreateTransaction, ProcessTransaction and the revalidation loop take no  *)
(* lock of their own: only the pool, the tracker and the ledger lock, one   *)
(* call at a time.  Each such call is one action here, and the goroutines   *)
(* interleave between them.                                                 *)
(***************************************************************************)
EXTENDS Integers, FiniteSets, Functions

CONSTANTS
    Call,             \* CreateTransaction calls; a call names its transaction
    Proc,             \* ProcessTransaction calls
    Account, NoContract,
    Request,          \* Call -> [sender, receiver, amount, fee]
    Balance,          \* Account -> balance in common.accounts and at first in the ledger
    MinFeeThreshold, MaxFutureNonce, RevalidateAge,
    SigningFails, LedgerFails,    \* may signing and ledger calls return errors?
    ConflictResolutionEnabled,
    MaxPoolSize, InitMinFee, MaxFee, FeeUnit, ExpirationDuration, MaxTxAge, Loads,
    MaxTime,          \* bound on the clock
    MaxStarts         \* bound on the number of Start calls

VARIABLES
    pendingTxs, txMap, accountNonces, accountTxs, minFee, totalTxs,
    totalAdded, totalRemoved, totalExpired, totalEvicted, now,
    nonces,           \* DefaultNonceTracker.nonces, 0 for a missing entry
    ledgerTxs,        \* ids in the transactions collection
    ledgerBalance,    \* balances in the accounts collection
    pc, built,        \* CreateTransaction: control state and transaction
    ppc, ptx,         \* ProcessTransaction: control state and its copy
    rpc, rqueue, rtx, \* revalidation: control state, snapshot, current item
    isRunning, stopClosed, loops, starts,
    panicked          \* close of a closed channel took the process down

poolVars == <<pendingTxs, txMap, accountNonces, accountTxs, minFee, totalTxs,
              totalAdded, totalRemoved, totalExpired, totalEvicted, now>>
createVars == <<pc, built>>
procVars == <<ppc, ptx>>
revalVars == <<rpc, rqueue, rtx>>
lifeVars == <<isRunning, stopClosed, loops, starts, panicked>>
ledgerVars == <<ledgerTxs, ledgerBalance>>
vars == <<poolVars, nonces, ledgerVars, createVars, procVars, revalVars, lifeVars>>

Pool == INSTANCE TransactionPool WITH
    Tx <- {}, TxID <- Call, MaxAdds <- Cardinality(Call)

NoTx == [id |-> NoContract]

ASSUME ManagerAssumption ==
    /\ NoContract \notin Account \cup Call
    /\ IsFiniteSet(Account) /\ IsFiniteSet(Proc)
    /\ Request \in [Call -> [sender : Account, receiver : Account, amount : Nat \ {0}, fee : Nat]]
    /\ Balance \in [Account -> Nat]
    /\ {MinFeeThreshold, MaxFutureNonce, RevalidateAge, MaxTime, MaxStarts} \subseteq Nat
    /\ {SigningFails, LedgerFails, ConflictResolutionEnabled} \subseteq BOOLEAN

Init ==
    /\ Pool!Init
    /\ nonces = [a \in Account |-> 0]
    /\ ledgerTxs = {} /\ ledgerBalance = Balance
    /\ pc = [c \in Call |-> "idle"] /\ built = [c \in Call |-> NoTx]
    /\ ppc = [p \in Proc |-> "idle"] /\ ptx = [p \in Proc |-> NoTx]
    /\ rpc = "wait" /\ rqueue = {} /\ rtx = NoTx
    /\ isRunning = FALSE /\ stopClosed = FALSE /\ loops = FALSE /\ starts = 0
    /\ panicked = FALSE

----------------------------------------------------------------------------
(* Helpers                                                                  *)

(* The transaction CreateTransaction assembles from a nonce it read.  (As in *)
(* the pool, Op_Slip is Op with a coding slip, used by no action.)           *)
BuildTransaction(c, currentNonce) ==
    [id |-> c, sender |-> Request[c].sender, nonce |-> currentNonce + 1,
     fee |-> Request[c].fee, contract |-> NoContract, dataLen |-> 0,
     timestamp |-> now, expiry |-> 0, sound |-> TRUE]

(* ValidateTransaction: age, balance in common.accounts, nonce window.      *)
ValidateTransaction(tx) ==
    /\ tx.fee >= MinFeeThreshold
    /\ now - tx.timestamp <= MaxTxAge
    /\ Balance[tx.sender] >= Request[tx.id].amount + tx.fee
    /\ tx.nonce > nonces[tx.sender]
    /\ tx.nonce <= nonces[tx.sender] + MaxFutureNonce

----------------------------------------------------------------------------
(* CreateTransaction                                                        *)

CreateRead(c) ==
    /\ pc[c] = "idle"
    /\ IF Request[c].fee < MinFeeThreshold
       THEN pc' = [pc EXCEPT ![c] = "rejected"] /\ UNCHANGED built
       ELSE /\ pc' = [pc EXCEPT ![c] = "validate"]
            /\ built' = [built EXCEPT ![c] =
                            BuildTransaction(c, nonces[Request[c].sender])]
    /\ UNCHANGED <<poolVars, nonces, ledgerVars, procVars, revalVars, lifeVars>>

CreateValidateAndSign(c) ==
    /\ pc[c] = "validate"
    /\ \E signed \in IF SigningFails THEN BOOLEAN ELSE {TRUE} :
        pc' = [pc EXCEPT ![c] = IF ValidateTransaction(built[c]) /\ signed
                                THEN "add" ELSE "rejected"]
    /\ UNCHANGED <<poolVars, nonces, ledgerVars, built, procVars, revalVars, lifeVars>>

CreateAdd(c) ==
    /\ pc[c] = "add"
    /\ Pool!AddTransaction(built[c])
    /\ pc' = [pc EXCEPT ![c] = IF c \in DOMAIN txMap' THEN "setNonce" ELSE "rejected"]
    /\ UNCHANGED <<nonces, ledgerVars, built, procVars, revalVars, lifeVars>>

CreateSetNonce(c) ==
    /\ pc[c] = "setNonce"
    /\ nonces' = [nonces EXCEPT ![built[c].sender] = built[c].nonce]
    /\ pc' = [pc EXCEPT ![c] = "done"]
    /\ UNCHANGED <<poolVars, ledgerVars, built, procVars, revalVars, lifeVars>>

----------------------------------------------------------------------------
(* ProcessTransaction                                                       *)

ProcGet(p, id) ==
    /\ ppc[p] = "idle"
    /\ id \in DOMAIN txMap
    /\ ptx' = [ptx EXCEPT ![p] = txMap[id].tx]
    /\ ppc' = [ppc EXCEPT ![p] = "replay"]
    /\ UNCHANGED <<poolVars, nonces, ledgerVars, createVars, revalVars, lifeVars>>

(* ReplayProtectionMiddleware: GetNonce and SetNonce are separate calls.    *)
ProcReplayCheck(p) ==
    /\ ppc[p] = "replay"
    /\ ppc' = [ppc EXCEPT ![p] = IF ptx[p].nonce = nonces[ptx[p].sender] + 1
                                 THEN "setNonce" ELSE "replayError"]
    /\ UNCHANGED <<poolVars, nonces, ledgerVars, createVars, ptx, revalVars, lifeVars>>

ProcSetNonce(p) ==
    /\ ppc[p] = "setNonce"
    /\ nonces' = [nonces EXCEPT ![ptx[p].sender] = ptx[p].nonce]
    /\ ppc' = [ppc EXCEPT ![p] = "remove"]
    /\ UNCHANGED <<poolVars, ledgerVars, createVars, ptx, revalVars, lifeVars>>

(* A transaction that has left the pool meanwhile is only warned about.     *)
ProcRemove(p) ==
    /\ ppc[p] = "remove"
    /\ IF ptx[p].id \in DOMAIN txMap THEN Pool!RemoveTransaction(ptx[p].id)
                                     ELSE UNCHANGED poolVars
    /\ ppc' = [ppc EXCEPT ![p] = "commit"]
    /\ UNCHANGED <<nonces, ledgerVars, createVars, ptx, revalVars, lifeVars>>

(* MongoLedger.AddTransaction refuses a known id; the index is unique.      *)
LedgerAccepts_NoLookup(id) == TRUE
LedgerAccepts(id) == id \notin ledgerTxs

(* A call of the ledger is done, fails, or makes its change and returns an  *)
(* error all the same, when the answer of the database is lost or too late. *)
LedgerResults == IF LedgerFails THEN {"done", "failed", "unsure"} ELSE {"done"}

ProcCommit(p) ==
    /\ ppc[p] = "commit"
    /\ \E r \in LedgerResults :
        IF r # "failed" /\ LedgerAccepts(ptx[p].id)
        THEN /\ ledgerTxs' = ledgerTxs \cup {ptx[p].id}
             /\ ppc' = [ppc EXCEPT ![p] = IF r = "done" THEN "debit" ELSE "ledgerError"]
        ELSE /\ ppc' = [ppc EXCEPT ![p] = "ledgerError"]
             /\ UNCHANGED ledgerTxs
    /\ UNCHANGED <<poolVars, nonces, ledgerBalance, createVars, ptx, revalVars, lifeVars>>

(* updateBalances: UpdateAccountBalance increments without a floor.         *)
ProcDebit(p) ==
    /\ ppc[p] = "debit"
    /\ \/ /\ ledgerBalance' = [ledgerBalance EXCEPT ![ptx[p].sender] =
                                  @ - Request[ptx[p].id].amount - ptx[p].fee]
          /\ \E r \in LedgerResults \ {"failed"} :
               ppc' = [ppc EXCEPT ![p] = IF r = "done" THEN "credit" ELSE "debitUnsure"]
       \/ /\ "failed" \in LedgerResults
          /\ ppc' = [ppc EXCEPT ![p] = "debitError"] /\ UNCHANGED ledgerBalance
    /\ UNCHANGED <<poolVars, nonces, ledgerTxs, createVars, ptx, revalVars, lifeVars>>

CreditAmount_WithFee(p) == Request[ptx[p].id].amount + ptx[p].fee
CreditAmount(p) == Request[ptx[p].id].amount

ProcCredit(p) ==
    /\ ppc[p] = "credit"
    /\ \/ /\ ledgerBalance' = [ledgerBalance EXCEPT ![Request[ptx[p].id].receiver] = @ + CreditAmount(p)]
          /\ \E r \in LedgerResults \ {"failed"} :
               ppc' = [ppc EXCEPT ![p] = IF r = "done" THEN "committed" ELSE "creditUnsure"]
       \/ /\ "failed" \in LedgerResults
          /\ ppc' = [ppc EXCEPT ![p] = "creditError"] /\ UNCHANGED ledgerBalance
    /\ UNCHANGED <<poolVars, nonces, ledgerTxs, createVars, ptx, revalVars, lifeVars>>

----------------------------------------------------------------------------
(* Background loops and their lifecycle                                     *)

HandleTransactionConflicts ==
    /\ Pool!HandleConflicts
    /\ UNCHANGED <<nonces, ledgerVars, createVars, procVars, revalVars, lifeVars>>

Cleanup ==
    /\ loops
    /\ Pool!RemoveExpiredTransactions
    /\ UNCHANGED <<nonces, ledgerVars, createVars, procVars, revalVars, lifeVars>>

RevalidateSnapshot ==
    /\ loops /\ rpc = "wait"
    /\ rqueue' = {txMap[id].tx : id \in DOMAIN txMap}
    /\ rpc' = "next"
    /\ UNCHANGED <<poolVars, nonces, ledgerVars, createVars, procVars, rtx, lifeVars>>

RevalidateItem(tx) ==
    /\ rpc = "next"
    /\ rqueue' = rqueue \ {tx}
    /\ IF now - tx.timestamp >= RevalidateAge /\ ~ValidateTransaction(tx)
       THEN rpc' = "remove" /\ rtx' = tx
       ELSE UNCHANGED <<rpc, rtx>>
    /\ UNCHANGED <<poolVars, nonces, ledgerVars, createVars, procVars, lifeVars>>

RevalidateRemove ==
    /\ rpc = "remove"
    /\ IF rtx.id \in DOMAIN txMap THEN Pool!RemoveTransaction(rtx.id)
                                  ELSE UNCHANGED poolVars
    /\ rpc' = "next" /\ rtx' = NoTx
    /\ UNCHANGED <<nonces, ledgerVars, createVars, procVars, rqueue, lifeVars>>

(* The round ends; the loop then waits for its ticker or for stopChan.      *)
RevalidateDone ==
    /\ rpc = "next" /\ rqueue = {}
    /\ rpc' = "wait"
    /\ UNCHANGED <<poolVars, nonces, ledgerVars, createVars, procVars, rqueue, rtx, lifeVars>>

Start ==
    /\ starts < MaxStarts /\ ~isRunning
    /\ isRunning' = TRUE /\ starts' = starts + 1
    /\ loops' = ~stopClosed
    /\ UNCHANGED <<poolVars, nonces, ledgerVars, createVars, procVars, revalVars, stopClosed, panicked>>

(* stopChan is made once: closing it a second time panics.                  *)
Stop ==
    /\ isRunning
    /\ isRunning' = FALSE /\ stopClosed' = TRUE /\ loops' = FALSE
    /\ panicked' = stopClosed
    /\ UNCHANGED <<poolVars, nonces, ledgerVars, createVars, procVars, revalVars, starts>>

Tick == Pool!Tick /\ UNCHANGED <<nonces, ledgerVars, createVars, procVars, revalVars, lifeVars>>

Next ==
    /\ ~panicked
    /\ \/ \E c \in Call : \/ CreateRead(c) \/ CreateValidateAndSign(c)
                          \/ CreateAdd(c) \/ CreateSetNonce(c)
       \/ \E p \in Proc : \/ \E id \in Call : ProcGet(p, id)
                          \/ ProcReplayCheck(p) \/ ProcSetNonce(p) \/ ProcRemove(p)
                          \/ ProcCommit(p) \/ ProcDebit(p) \/ ProcCredit(p)
       \/ HandleTransactionConflicts \/ Cleanup
       \/ RevalidateSnapshot \/ RevalidateRemove \/ RevalidateDone
       \/ \E tx \in rqueue : RevalidateItem(tx)
       \/ Start \/ Stop \/ Tick

Spec == Init /\ [][Next]_vars

----------------------------------------------------------------------------
(* Properties                                                               *)

Admitted == {c \in Call : pc[c] \in {"setNonce", "done"}}
PastDebit == {p \in Proc : ppc[p] \in {"credit", "committed", "debitUnsure", "creditError", "creditUnsure"}}

(* What a debited transaction has taken out of the accounts so far.         *)
TakenOut ==
    [p \in PastDebit |->
        ptx[p].fee + (IF ppc[p] \in {"committed", "creditUnsure"} THEN 0 ELSE Request[ptx[p].id].amount)]

TypeOK ==
    /\ Pool!TypeOK
    /\ nonces \in [Account -> Nat]
    /\ ledgerTxs \subseteq Call
    /\ ledgerBalance \in [Account -> Int]
    /\ pc \in [Call -> {"idle", "validate", "add", "setNonce", "done", "rejected"}]
    /\ ppc \in [Proc -> {"idle", "replay", "setNonce", "remove", "commit", "debit", "credit",
                         "committed", "replayError", "ledgerError", "debitError", "debitUnsure",
                         "creditError", "creditUnsure"}]
    /\ rpc \in {"wait", "next", "remove"}

(* Two ProcessTransaction calls never both debit one transaction, although  *)
(* both may read the pool before either removes it and both may pass the    *)
(* replay check.                                                            *)
DebitedOnce ==
    \A p, q \in PastDebit : ptx[p].id = ptx[q].id => p = q

(* Coins leave the accounts only as the fees of debited transactions and as *)
(* amounts whose credit is outstanding, has failed or was never tried since *)
(* the answer to the debit was lost.                                        *)
MoneyAccounted ==
    SumFunction(ledgerBalance) + SumFunction(TakenOut) = SumFunction(Balance)

(* Concurrent CreateTransaction calls that read the same nonce never both   *)
(* get into the pool, also after the first one has left it again.           *)
AdmittedNoncesUnique ==
    \A c, d \in Admitted :
        built[c].sender = built[d].sender /\ built[c].nonce = built[d].nonce => c = d
=============================================================================
