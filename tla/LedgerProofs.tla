---------------------------- MODULE LedgerProofs ----------------------------
(***************************************************************************)
(* Machine-checked properties of the three parts of the ledger, for every   *)
(* set of accounts, goroutines, requests, transactions and blocks:          *)
(* TransactionManager (payments), TokenSupply (mints and burns) and         *)
(* MongoLedger (blocks).                                                    *)
(***************************************************************************)
EXTENDS TransactionManager, TokenSupply, MongoLedger, FiniteTheorems

----------------------------------------------------------------------------
(* Blocks                                                                   *)

(* What CommitBlock has in hand.                                            *)
SessionType ==
    [pc : {"update", "raise", "commit"}, block : LedgerBlocks, inserted : {TRUE},
     updated : SUBSET Txs, visible : SUBSET Txs]

(* Two committed blocks differ in number and in hash.                       *)
BlocksDistinct == \A b, d \in blocksColl : SameKey(b, d) => b = d

(* CommittedInItsBlock needs every open session to have inserted its block; *)
(* that the blocks stay distinct needs the open sessions to differ from the *)
(* committed blocks and from each other.                                    *)
MongoInv ==
    /\ txColl \in [Txs -> [status : {"none", "pending", "committed"}, height : Nat]]
    /\ commit \in [Committers -> SessionType \cup {NoCommit}]
    /\ BlocksDistinct
    /\ \A c \in Committers : InSession(c) =>
          /\ \A d \in blocksColl : ~SameKey(commit[c].block, d)
          /\ \A e \in Committers \ {c} : InSession(e) => ~SameKey(commit[c].block, commit[e].block)
    /\ CommittedInItsBlock

(* A session is idle or holds a block.                                      *)
LEMMA SessionFields ==
    ASSUME MongoInv, NEW c \in Committers
    PROVE  /\ InSession(c) <=> commit[c] \in SessionType
           /\ ~InSession(c) <=> commit[c] = NoCommit
<1>1. commit[c] \in SessionType \cup {NoCommit}
  BY DEF MongoInv
<1>2. NoCommit.pc = "idle"
  BY DEF NoCommit
<1>3. \A s \in SessionType : s.pc \in {"update", "raise", "commit"}
  BY DEF SessionType
<1> QED BY <1>1, <1>2, <1>3 DEF InSession

(* A step inside a session, or its end without a commit.                    *)
LEMMA SessionStep ==
    ASSUME MongoInv, UNCHANGED dbVars, NEW c \in Committers, NEW rec,
           commit' = [commit EXCEPT ![c] = rec],
           \/ rec = NoCommit
           \/ InSession(c) /\ rec \in SessionType /\ rec.block = commit[c].block
    PROVE  MongoInv'
<1>1. /\ commit' \in [Committers -> SessionType \cup {NoCommit}] /\ commit'[c] = rec
      /\ \A e \in Committers \ {c} : commit'[e] = commit[e]
  BY DEF MongoInv
<1>2. \A e \in Committers : InSession(e)' => InSession(e) /\ commit'[e].block = commit[e].block
  <2>1. NoCommit.pc = "idle"
    BY DEF NoCommit
  <2> QED BY <1>1, <2>1 DEF InSession
<1>3. UNCHANGED <<blocksColl, txColl>>
  BY DEF dbVars
<1>4. BlocksDistinct' /\ CommittedInItsBlock'
  BY <1>3 DEF MongoInv, BlocksDistinct, CommittedInItsBlock, SameKey
<1>5. ASSUME NEW e \in Committers, InSession(e)'
      PROVE  /\ \A d \in blocksColl' : ~SameKey(commit'[e].block, d)
             /\ \A k \in Committers \ {e} :
                   InSession(k)' => ~SameKey(commit'[e].block, commit'[k].block)
  BY <1>2, <1>3, <1>5 DEF MongoInv
<1> QED BY <1>1, <1>3, <1>4, <1>5 DEF MongoInv

(* CommitBlock's insert: the unique indexes have refused a taken key.       *)
LEMMA InsertBlockKeeps ==
    ASSUME MongoInv, NEW c \in Committers, NEW b \in LedgerBlocks, InsertBlock(c, b)
    PROVE  MongoInv'
<1> DEFINE rec == Session(b, TRUE)
<1>1. /\ commit' = [commit EXCEPT ![c] = rec] /\ UNCHANGED <<blocksColl, txColl>>
      /\ ~BlockTaken(b)
  BY DEF InsertBlock, dbVars
<1>2. rec \in SessionType /\ rec.block = b
  BY DEF Session, SessionType
<1> HIDE DEF rec
<1>3. /\ commit' \in [Committers -> SessionType \cup {NoCommit}] /\ commit'[c] = rec
      /\ \A e \in Committers \ {c} : commit'[e] = commit[e]
  BY <1>1, <1>2 DEF MongoInv
<1>4. \A e \in Committers \ {c} : InSession(e)' <=> InSession(e)
  BY <1>3 DEF InSession
<1>5. BlocksDistinct' /\ CommittedInItsBlock'
  BY <1>1 DEF MongoInv, BlocksDistinct, CommittedInItsBlock, SameKey
<1>6. /\ \A d \in blocksColl : ~SameKey(b, d)
      /\ \A e \in Committers : InSession(e) => ~SameKey(b, commit[e].block)
  BY <1>1 DEF BlockTaken
<1>7. \A x, y : SameKey(x, y) <=> SameKey(y, x)
  BY DEF SameKey
<1>8. ASSUME NEW e \in Committers, InSession(e)'
      PROVE  /\ \A d \in blocksColl' : ~SameKey(commit'[e].block, d)
             /\ \A k \in Committers \ {e} :
                   InSession(k)' => ~SameKey(commit'[e].block, commit'[k].block)
  <2>1. CASE e = c
    BY <1>1, <1>2, <1>3, <1>4, <1>6, <2>1
  <2>2. CASE e # c
    BY <1>1, <1>2, <1>3, <1>4, <1>6, <1>7, <1>8, <2>2 DEF MongoInv
  <2> QED BY <2>1, <2>2
<1> QED BY <1>1, <1>3, <1>5, <1>8 DEF MongoInv

(* The commit: the block and the status of its transactions at once.        *)
LEMMA CommitKeeps ==
    ASSUME MongoInv, NEW c \in Committers, CommitTransaction(c)
    PROVE  MongoInv'
<1> DEFINE b == commit[c].block
<1>1. commit[c].pc = "commit" /\ commit' = [commit EXCEPT ![c] = NoCommit]
  BY DEF CommitTransaction, Abort
<1>2. InSession(c) /\ commit[c] \in SessionType
  BY <1>1, SessionFields DEF InSession
<1>3. b \in LedgerBlocks /\ b.number \in Nat /\ commit[c].inserted
  BY <1>2, LedgerAssumption DEF SessionType
<1>4. CASE UNCHANGED dbVars
  BY <1>1, <1>4, SessionStep
<1>5. CASE /\ blocksColl' = IF commit[c].inserted THEN blocksColl \cup {b} ELSE blocksColl
           /\ txColl' = [t \in Txs |-> IF t \in b.txs \cap commit[c].visible
                                       THEN [status |-> "committed", height |-> b.number]
                                       ELSE txColl[t]]
  <2> HIDE DEF b
  <2>1. blocksColl' = blocksColl \cup {b}
    BY <1>3, <1>5
  <2>2. /\ commit' \in [Committers -> SessionType \cup {NoCommit}] /\ commit'[c] = NoCommit
        /\ \A e \in Committers \ {c} : commit'[e] = commit[e]
    BY <1>1 DEF MongoInv
  <2>3. ~InSession(c)' /\ \A e \in Committers \ {c} : InSession(e)' <=> InSession(e)
    BY <2>2 DEF InSession, NoCommit
  <2>4. txColl' \in [Txs -> [status : {"none", "pending", "committed"}, height : Nat]]
    BY <1>3, <1>5 DEF MongoInv
  <2>5. \A x, y : SameKey(x, y) <=> SameKey(y, x)
    BY DEF SameKey
  <2>6. BlocksDistinct'
    BY <1>2, <2>1, <2>5 DEF MongoInv, BlocksDistinct, b
  <2>7. CommittedInItsBlock'
    <3> SUFFICES ASSUME NEW t \in Txs, txColl'[t].status = "committed"
                 PROVE  \E d \in blocksColl' : d.number = txColl'[t].height /\ t \in d.txs
      BY DEF CommittedInItsBlock
    <3>1. CASE t \in b.txs \cap commit[c].visible
      <4>1. txColl'[t].height = b.number
        BY <1>5, <3>1
      <4> QED BY <2>1, <3>1, <4>1
    <3>2. CASE t \notin b.txs \cap commit[c].visible
      <4>1. txColl'[t] = txColl[t]
        BY <1>5, <3>2
      <4> QED BY <2>1, <4>1 DEF MongoInv, CommittedInItsBlock
    <3> QED BY <3>1, <3>2
  <2>8. ASSUME NEW e \in Committers, InSession(e)'
        PROVE  /\ \A d \in blocksColl' : ~SameKey(commit'[e].block, d)
               /\ \A k \in Committers \ {e} :
                     InSession(k)' => ~SameKey(commit'[e].block, commit'[k].block)
    <3>1. e # c /\ InSession(e) /\ commit'[e] = commit[e]
      BY <2>2, <2>3, <2>8
    <3>2. ~SameKey(commit[e].block, b)
      BY <1>2, <3>1 DEF MongoInv, b
    <3> QED BY <2>1, <2>2, <2>3, <3>1, <3>2 DEF MongoInv
  <2> QED BY <2>2, <2>4, <2>6, <2>7, <2>8 DEF MongoInv
<1> QED BY <1>4, <1>5 DEF CommitTransaction

(* The blocks' invariant holds whatever fails, races or restarts.           *)
THEOREM BlocksInvariant == MongoSpec => []MongoInv
<1>1. MongoInit => MongoInv
  <2> SUFFICES ASSUME MongoInit PROVE MongoInv
    OBVIOUS
  <2>1. \A c \in Committers : ~InSession(c)
    BY DEF MongoInit, InSession, NoCommit
  <2> QED BY <2>1 DEF MongoInit, MongoInv, NotStored, BlocksDistinct, CommittedInItsBlock
<1>2. MongoInv /\ [MongoNext]_mongoVars => MongoInv'
  <2> SUFFICES ASSUME MongoInv, [MongoNext]_mongoVars PROVE MongoInv'
    OBVIOUS
  <2> USE DEF dbVars
  <2>1. ASSUME UNCHANGED <<blocksColl, txColl, commit>> PROVE MongoInv'
    BY <2>1 DEF MongoInv, BlocksDistinct, CommittedInItsBlock, SameKey, InSession
  <2>2. ASSUME NEW s \in Submitters, NEW t \in Txs, FindTransaction(s, t) PROVE MongoInv'
    BY <2>1, <2>2 DEF FindTransaction
  <2>3. ASSUME NEW s \in Submitters, InsertTransaction(s) PROVE MongoInv'
    <3> DEFINE t == submit[s].tx
    <3>1. CASE UNCHANGED txColl
      BY <2>1, <2>3, <3>1 DEF InsertTransaction
    <3>2. CASE txColl' = [txColl EXCEPT ![t] = [status |-> "pending", height |-> 0]]
      <4> HIDE DEF t
      <4>1. /\ txColl' \in [Txs -> [status : {"none", "pending", "committed"}, height : Nat]]
            /\ \A k \in Txs : txColl'[k].status = "committed" => txColl'[k] = txColl[k]
        BY <3>2 DEF MongoInv
      <4>2. UNCHANGED <<blocksColl, commit>>
        BY <2>3 DEF InsertTransaction
      <4>3. CommittedInItsBlock'
        BY <4>1, <4>2 DEF MongoInv, CommittedInItsBlock
      <4> QED BY <4>1, <4>2, <4>3 DEF MongoInv, BlocksDistinct, SameKey, InSession
    <3> QED BY <2>3, <3>1, <3>2 DEF InsertTransaction
  <2>4. ASSUME NEW c \in Committers, AllUpdated(c) \/ RaiseHeight(c) PROVE MongoInv'
    <3>1. InSession(c) /\ commit[c] \in SessionType
      BY <2>4, SessionFields DEF AllUpdated, RaiseHeight, InSession
    <3>2. PICK pc2 \in {"raise", "commit"} :
             UNCHANGED dbVars /\ commit' = [commit EXCEPT ![c].pc = pc2]
      BY <2>4 DEF AllUpdated, RaiseHeight
    <3> DEFINE rec == [commit[c] EXCEPT !.pc = pc2]
    <3>3. rec \in SessionType /\ rec.block = commit[c].block
      BY <3>1 DEF SessionType
    <3>4. commit' = [commit EXCEPT ![c] = rec]
      BY <3>2
    <3> HIDE DEF rec
    <3> QED BY <3>1, <3>2, <3>3, <3>4, SessionStep
  <2>5. ASSUME NEW c \in Committers, NEW t \in Txs, UpdateStatus(c, t) PROVE MongoInv'
    <3>1. InSession(c) /\ commit[c] \in SessionType /\ UNCHANGED dbVars
      BY <2>5, SessionFields DEF UpdateStatus, InSession
    <3>2. CASE commit' = [commit EXCEPT ![c].updated = @ \cup {t}]
      <4> DEFINE rec == [commit[c] EXCEPT !.updated = @ \cup {t}]
      <4>1. rec \in SessionType /\ rec.block = commit[c].block
        BY <3>1 DEF SessionType
      <4>2. commit' = [commit EXCEPT ![c] = rec]
        BY <3>2
      <4> HIDE DEF rec
      <4> QED BY <3>1, <4>1, <4>2, SessionStep
    <3>3. CASE Abort(c)
      BY <3>1, <3>3, SessionStep DEF Abort
    <3> QED BY <2>5, <3>2, <3>3 DEF UpdateStatus
  <2>6. CASE RestartLedger
    <3>1. /\ UNCHANGED dbVars /\ commit' = [c \in Committers |-> NoCommit]
      BY <2>6 DEF RestartLedger
    <3>2. \A c \in Committers : ~InSession(c)'
      BY <3>1 DEF InSession, NoCommit
    <3> QED BY <3>1, <3>2 DEF MongoInv, BlocksDistinct, CommittedInItsBlock, SameKey
  <2>7. CASE UNCHANGED mongoVars
    BY <2>1, <2>7 DEF mongoVars
  <2> QED
    BY <2>2, <2>3, <2>4, <2>5, <2>6, <2>7, InsertBlockKeeps, CommitKeeps DEF MongoNext
<1> QED BY <1>1, <1>2, PTL DEF MongoSpec

(* A transaction recorded as committed is in the block of that height.      *)
THEOREM StatusHasItsBlock == MongoSpec => []CommittedInItsBlock
BY BlocksInvariant, PTL DEF MongoInv

(* The ledger never holds two blocks of one height or of one hash.          *)
THEOREM OneBlockPerHeight == MongoSpec => []BlocksDistinct
BY BlocksInvariant, PTL DEF MongoInv

----------------------------------------------------------------------------
(* Payments                                                                 *)

(* The steps of ProcessTransaction after the ledger has accepted its        *)
(* transaction.                                                             *)
AfterAccept == {"debit", "credit", "committed", "debitError", "debitUnsure", "creditError", "creditUnsure"}

PaymentTypes ==
    /\ accountNonces \in [Account -> Int] /\ nonces \in [Account -> Int]
    /\ ledgerBalance \in [Account -> Int]
    /\ pc \in [Call -> {"idle", "validate", "add", "setNonce", "done", "rejected"}]
    /\ ppc \in [Proc -> {"idle", "replay", "setNonce", "remove", "commit", "debit", "credit",
                         "committed", "replayError", "ledgerError", "debitError", "debitUnsure",
                         "creditError", "creditUnsure"}]
    /\ DOMAIN built = Call /\ DOMAIN ptx = Proc

(* A transaction under way is the one its call asked for.                   *)
BuiltAsAsked ==
    \A c \in Call : pc[c] \in {"validate", "add", "setNonce", "done"} =>
        /\ built[c].id = c /\ built[c].sender = Request[c].sender
        /\ built[c].fee = Request[c].fee /\ built[c].nonce \in Int

(* The pool and ProcessTransaction see only admitted transactions.          *)
PooledIsAdmitted ==
    \A id \in DOMAIN txMap : id \in Admitted /\ txMap[id].tx = built[id]
ProcessedIsAdmitted ==
    \A p \in Proc : ppc[p] # "idle" => ptx[p].id \in Admitted /\ ptx[p] = built[ptx[p].id]

(* The pool remembers a nonce at least as high as every admitted one.       *)
AdmittedRecorded ==
    \A c \in Admitted : built[c].nonce <= accountNonces[built[c].sender]

(* The ledger has accepted a transaction for one ProcessTransaction only.   *)
AcceptedOnce ==
    \A p \in Proc : ppc[p] \in AfterAccept =>
        /\ ptx[p].id \in ledgerTxs
        /\ \A q \in Proc : ppc[q] \in AfterAccept /\ ptx[q].id = ptx[p].id => q = p

(* AdmittedNoncesUnique holds because of what the pool remembers, for ever; *)
(* DebitedOnce because the ledger refuses a known identifier before the     *)
(* debit; MoneyAccounted because the fields of a processed transaction are  *)
(* those its call asked for.                                                *)
PaymentInv ==
    /\ PaymentTypes /\ BuiltAsAsked /\ PooledIsAdmitted /\ ProcessedIsAdmitted
    /\ AdmittedRecorded /\ AdmittedNoncesUnique
    /\ AcceptedOnce /\ MoneyAccounted

(* AddTransaction of the pool, seen from the manager.                       *)
LEMMA PoolAdds ==
    ASSUME NEW tx, Pool!AddTransaction(tx)
    PROVE  \/ /\ tx.nonce > accountNonces[tx.sender]
              /\ accountNonces' = [accountNonces EXCEPT ![tx.sender] = tx.nonce]
              /\ tx.id \in DOMAIN txMap' /\ txMap'[tx.id].tx = tx
              /\ \A id \in DOMAIN txMap' \ {tx.id} : id \in DOMAIN txMap /\ txMap'[id] = txMap[id]
           \/ /\ accountNonces' = accountNonces /\ tx.id \notin DOMAIN txMap'
              /\ \A id \in DOMAIN txMap' : id \in DOMAIN txMap /\ txMap'[id] = txMap[id]
<1>1. PICK E, fee : Pool!AddAfterEvicting(tx, E, fee)
  BY DEF Pool!AddTransaction
<1> DEFINE kept == Pool!MapWithout({e.tx.id : e \in E})
<1>2. /\ tx.id \notin DOMAIN txMap
      /\ \A id \in DOMAIN kept : id \in DOMAIN txMap /\ kept[id] = txMap[id]
  BY DEF Pool!AddTransaction, Pool!MapWithout
<1> HIDE DEF kept
<1>3. CASE Pool!Admit(tx, E, fee)
  <2> DEFINE item == [tx |-> tx, priority |-> Pool!calculatePriority(tx)]
  <2>1. /\ tx.nonce > accountNonces[tx.sender]
        /\ accountNonces' = [accountNonces EXCEPT ![tx.sender] = tx.nonce]
    BY <1>3 DEF Pool!Admit, Pool!validateTransaction, Pool!RecordNonce
  <2>2. txMap' = [id \in DOMAIN kept \cup {tx.id} |-> IF id = tx.id THEN item ELSE kept[id]]
    BY <1>3 DEF Pool!Admit, kept
  <2>3. item.tx = tx
    OBVIOUS
  <2> HIDE DEF item
  <2>4. /\ DOMAIN txMap' = DOMAIN kept \cup {tx.id} /\ txMap'[tx.id] = item
        /\ \A id \in DOMAIN txMap' \ {tx.id} : id \in DOMAIN kept /\ txMap'[id] = kept[id]
    BY <2>2
  <2> QED BY <1>2, <2>1, <2>3, <2>4
<1>4. CASE Pool!Reject(tx, E, fee)
  <2>1. accountNonces' = accountNonces /\ txMap' = kept
    BY <1>4 DEF Pool!Reject, kept
  <2> QED BY <1>2, <2>1
<1> QED BY <1>1, <1>3, <1>4 DEF Pool!AddAfterEvicting

(* Transactions only leave the pool.                                        *)
PoolShrinks ==
    /\ accountNonces' = accountNonces
    /\ \A id \in DOMAIN txMap' : id \in DOMAIN txMap /\ txMap'[id] = txMap[id]

(* The pool's other operations only take transactions out.                  *)
LEMMA PoolOthersShrink ==
    ASSUME \/ \E id : Pool!RemoveTransaction(id)
           \/ Pool!RemoveExpiredTransactions \/ Pool!HandleConflicts \/ Pool!Tick
           \/ UNCHANGED poolVars
    PROVE  PoolShrinks
BY DEF Pool!RemoveTransaction, Pool!RemoveExpiredTransactions, Pool!HandleConflicts, Pool!Tick,
       Pool!MapWithout, poolVars, PoolShrinks

(* A step that touches neither the calls nor the ledger.                    *)
LEMMA PoolStep ==
    ASSUME PaymentInv, PoolShrinks,
           UNCHANGED <<nonces, ledgerVars, createVars, procVars>>
    PROVE  PaymentInv'
<1> USE DEF ledgerVars, createVars, procVars, PoolShrinks
<1>1. PaymentTypes' /\ BuiltAsAsked'
  BY DEF PaymentInv, PaymentTypes, BuiltAsAsked
<1>2. Admitted' = Admitted
  BY DEF Admitted
<1>3. PooledIsAdmitted' /\ ProcessedIsAdmitted' /\ AdmittedRecorded' /\ AdmittedNoncesUnique'
  BY <1>2 DEF PaymentInv, PooledIsAdmitted, ProcessedIsAdmitted, AdmittedRecorded,
              AdmittedNoncesUnique
<1>4. AcceptedOnce'
  BY DEF PaymentInv, AcceptedOnce
<1>5. MoneyAccounted'
  BY DEF PaymentInv, MoneyAccounted, TakenOut, PastDebit
<1> QED BY <1>1, <1>3, <1>4, <1>5 DEF PaymentInv

(* CreateTransaction before the pool has seen the transaction.              *)
LEMMA CreateBeforePool ==
    ASSUME PaymentInv, NEW c \in Call, CreateRead(c) \/ CreateValidateAndSign(c)
    PROVE  PaymentInv'
<1>1. /\ UNCHANGED <<txMap, accountNonces, nonces, ledgerTxs, ledgerBalance, ppc, ptx>>
      /\ pc[c] \in {"idle", "validate"}
      /\ DOMAIN built' = Call /\ \A d \in Call \ {c} : built'[d] = built[d]
  BY DEF CreateRead, CreateValidateAndSign, poolVars, ledgerVars, procVars, PaymentInv, PaymentTypes
<1>2. PICK s \in {"rejected", "validate", "add"} : pc' = [pc EXCEPT ![c] = s]
  BY DEF CreateRead, CreateValidateAndSign
<1>3. /\ pc' \in [Call -> {"idle", "validate", "add", "setNonce", "done", "rejected"}]
      /\ pc'[c] = s /\ \A d \in Call \ {c} : pc'[d] = pc[d]
  BY <1>2 DEF PaymentInv, PaymentTypes
<1>4. Admitted' = Admitted /\ c \notin Admitted
  BY <1>1, <1>3 DEF Admitted
<1>5. pc'[c] # "rejected" => /\ built'[c].id = c /\ built'[c].sender = Request[c].sender
                             /\ built'[c].fee = Request[c].fee /\ built'[c].nonce \in Int
  <2>1. CASE CreateRead(c)
    <3> DEFINE rec == BuildTransaction(c, nonces[Request[c].sender])
    <3>1. /\ rec.id = c /\ rec.sender = Request[c].sender /\ rec.fee = Request[c].fee
          /\ rec.nonce = nonces[Request[c].sender] + 1
      BY DEF BuildTransaction
    <3>2. nonces[Request[c].sender] \in Int
      BY ManagerAssumption DEF PaymentInv, PaymentTypes
    <3> HIDE DEF rec
    <3>3. pc'[c] # "rejected" => built'[c] = rec
      BY <2>1, <1>3 DEF CreateRead, PaymentInv, PaymentTypes, rec
    <3> QED BY <3>1, <3>2, <3>3
  <2>2. CASE CreateValidateAndSign(c)
    <3>1. built'[c] = built[c] /\ pc[c] = "validate"
      BY <2>2 DEF CreateValidateAndSign
    <3> QED BY <3>1 DEF PaymentInv, BuiltAsAsked
  <2> QED BY <2>1, <2>2
<1>6. PaymentTypes' /\ BuiltAsAsked'
  BY <1>1, <1>3, <1>5 DEF PaymentInv, PaymentTypes, BuiltAsAsked
<1>7. PooledIsAdmitted' /\ ProcessedIsAdmitted' /\ AdmittedRecorded' /\ AdmittedNoncesUnique'
  <2>1. \A d \in Admitted : d \in Call /\ built'[d] = built[d]
    BY <1>1, <1>4 DEF Admitted
  <2> QED BY <1>1, <1>4, <2>1 DEF PaymentInv, PooledIsAdmitted, ProcessedIsAdmitted,
                                  AdmittedRecorded, AdmittedNoncesUnique
<1>8. AcceptedOnce' /\ MoneyAccounted'
  BY <1>1 DEF PaymentInv, AcceptedOnce, MoneyAccounted, TakenOut, PastDebit
<1> QED BY <1>6, <1>7, <1>8 DEF PaymentInv

(* The pool admits a transaction only with a nonce above every admitted one. *)
LEMMA CreateAddKeeps ==
    ASSUME PaymentInv, NEW c \in Call, CreateAdd(c)
    PROVE  PaymentInv'
<1> DEFINE tx == built[c]
<1>1. /\ UNCHANGED <<nonces, ledgerTxs, ledgerBalance, ppc, ptx, built>> /\ pc[c] = "add"
      /\ Pool!AddTransaction(tx)
      /\ pc' = [pc EXCEPT ![c] = IF c \in DOMAIN txMap' THEN "setNonce" ELSE "rejected"]
  BY DEF CreateAdd, ledgerVars, procVars
<1>2. /\ tx.id = c /\ tx.sender = Request[c].sender /\ tx.nonce \in Int /\ tx.sender \in Account
  BY <1>1, ManagerAssumption DEF PaymentInv, BuiltAsAsked
<1> DEFINE s == IF c \in DOMAIN txMap' THEN "setNonce" ELSE "rejected"
<1>3. /\ pc' \in [Call -> {"idle", "validate", "add", "setNonce", "done", "rejected"}]
      /\ pc'[c] = s /\ \A d \in Call \ {c} : pc'[d] = pc[d]
  BY <1>1 DEF PaymentInv, PaymentTypes
<1>4. /\ c \notin Admitted
      /\ c \in Admitted' <=> c \in DOMAIN txMap'
      /\ \A d : d # c => (d \in Admitted' <=> d \in Admitted)
  BY <1>1, <1>3 DEF Admitted
<1>5. AcceptedOnce' /\ MoneyAccounted'
  BY <1>1 DEF PaymentInv, AcceptedOnce, MoneyAccounted, TakenOut, PastDebit
<1>6. ProcessedIsAdmitted' /\ BuiltAsAsked'
  <2>1. \A d \in Admitted : d \in Admitted'
    BY <1>4
  <2>2. ProcessedIsAdmitted'
    BY <1>1, <2>1 DEF PaymentInv, ProcessedIsAdmitted
  <2>3. BuiltAsAsked'
    BY <1>1, <1>3 DEF PaymentInv, BuiltAsAsked
  <2> QED BY <2>2, <2>3
<1>7. CASE /\ tx.nonce > accountNonces[tx.sender]
           /\ accountNonces' = [accountNonces EXCEPT ![tx.sender] = tx.nonce]
           /\ tx.id \in DOMAIN txMap' /\ txMap'[tx.id].tx = tx
           /\ \A id \in DOMAIN txMap' \ {tx.id} : id \in DOMAIN txMap /\ txMap'[id] = txMap[id]
  <2>1. PooledIsAdmitted'
    BY <1>1, <1>2, <1>4, <1>7 DEF PaymentInv, PooledIsAdmitted
  <2>2. /\ accountNonces' \in [Account -> Int] /\ accountNonces'[tx.sender] = tx.nonce
        /\ \A a \in Account \ {tx.sender} : accountNonces'[a] = accountNonces[a]
        /\ accountNonces[tx.sender] \in Int
    BY <1>2, <1>7 DEF PaymentInv, PaymentTypes
  <2>3. PaymentTypes'
    BY <1>1, <1>3, <2>2 DEF PaymentInv, PaymentTypes
  <2>4. \A d \in Admitted : /\ built[d].sender \in Account /\ built[d].nonce \in Int
                            /\ built[d].nonce <= accountNonces[built[d].sender]
    BY ManagerAssumption DEF PaymentInv, BuiltAsAsked, AdmittedRecorded, Admitted
  <2>5. \A d \in Admitted : built[d].sender = tx.sender => built[d].nonce < tx.nonce
    BY <1>2, <1>7, <2>2, <2>4
  <2> HIDE DEF tx
  <2>6. AdmittedRecorded'
    <3> SUFFICES ASSUME NEW d \in Admitted' PROVE built[d].nonce <= accountNonces'[built[d].sender]
      BY <1>1 DEF AdmittedRecorded
    <3>1. CASE d = c
      BY <1>2, <2>2, <3>1 DEF tx
    <3>2. CASE d # c /\ built[d].sender = tx.sender
      BY <1>2, <1>4, <2>2, <2>4, <2>5, <3>2
    <3>3. CASE d # c /\ built[d].sender # tx.sender
      BY <1>4, <2>2, <2>4, <3>3
    <3> QED BY <3>1, <3>2, <3>3
  <2>7. AdmittedNoncesUnique'
    <3> SUFFICES ASSUME NEW d \in Admitted', NEW e \in Admitted', d # e,
                        built[d].sender = built[e].sender, built[d].nonce = built[e].nonce
                 PROVE  FALSE
      BY <1>1 DEF AdmittedNoncesUnique
    <3>1. CASE d = c
      BY <1>2, <1>4, <2>4, <2>5, <3>1 DEF tx
    <3>2. CASE e = c
      BY <1>2, <1>4, <2>4, <2>5, <3>2 DEF tx
    <3>3. CASE d # c /\ e # c
      BY <1>4, <3>3 DEF PaymentInv, AdmittedNoncesUnique
    <3> QED BY <3>1, <3>2, <3>3
  <2> QED BY <1>5, <1>6, <2>1, <2>3, <2>6, <2>7 DEF PaymentInv
<1>8. CASE /\ accountNonces' = accountNonces /\ tx.id \notin DOMAIN txMap'
           /\ \A id \in DOMAIN txMap' : id \in DOMAIN txMap /\ txMap'[id] = txMap[id]
  <2>1. Admitted' = Admitted
    BY <1>2, <1>4, <1>8
  <2>2. PooledIsAdmitted' /\ AdmittedRecorded' /\ AdmittedNoncesUnique'
    BY <1>1, <1>8, <2>1 DEF PaymentInv, PooledIsAdmitted, AdmittedRecorded, AdmittedNoncesUnique
  <2>3. PaymentTypes'
    BY <1>1, <1>3, <1>8 DEF PaymentInv, PaymentTypes
  <2> QED BY <1>5, <1>6, <2>2, <2>3 DEF PaymentInv
<1> QED BY <1>1, <1>7, <1>8, PoolAdds

(* The end of CreateTransaction.                                            *)
LEMMA CreateSetNonceKeeps ==
    ASSUME PaymentInv, NEW c \in Call, CreateSetNonce(c)
    PROVE  PaymentInv'
<1>1. /\ UNCHANGED <<txMap, accountNonces, ledgerTxs, ledgerBalance, ppc, ptx, built>>
      /\ pc[c] = "setNonce" /\ pc' = [pc EXCEPT ![c] = "done"]
      /\ nonces' = [nonces EXCEPT ![built[c].sender] = built[c].nonce]
  BY DEF CreateSetNonce, poolVars, ledgerVars, procVars
<1>2. /\ pc' \in [Call -> {"idle", "validate", "add", "setNonce", "done", "rejected"}]
      /\ pc'[c] = "done" /\ \A d \in Call \ {c} : pc'[d] = pc[d]
  BY <1>1 DEF PaymentInv, PaymentTypes
<1>3. Admitted' = Admitted
  BY <1>1, <1>2 DEF Admitted
<1>4. nonces' \in [Account -> Int] /\ BuiltAsAsked'
  BY <1>1, <1>2, ManagerAssumption DEF PaymentInv, PaymentTypes, BuiltAsAsked
<1>5. PaymentTypes'
  BY <1>1, <1>2, <1>4 DEF PaymentInv, PaymentTypes
<1>6. PooledIsAdmitted' /\ ProcessedIsAdmitted' /\ AdmittedRecorded' /\ AdmittedNoncesUnique'
  BY <1>1, <1>3 DEF PaymentInv, PooledIsAdmitted, ProcessedIsAdmitted, AdmittedRecorded,
                    AdmittedNoncesUnique
<1>7. AcceptedOnce' /\ MoneyAccounted'
  BY <1>1 DEF PaymentInv, AcceptedOnce, MoneyAccounted, TakenOut, PastDebit
<1> QED BY <1>4, <1>5, <1>6, <1>7 DEF PaymentInv

(* A step of one ProcessTransaction call that leaves the balances alone.    *)
ProcStep(p, s) ==
    /\ PoolShrinks /\ UNCHANGED <<ledgerBalance, pc, built>>
    /\ nonces' \in [Account -> Int]
    /\ ppc' = [ppc EXCEPT ![p] = s]

(* Before and beside the debit such a step keeps the accounts balanced.     *)
LEMMA NoMoneyMoves ==
    ASSUME PaymentInv, NEW p \in Proc, NEW s, ProcStep(p, s),
           s \in {"replay", "setNonce", "remove", "commit", "debit",
                  "replayError", "ledgerError", "debitError"},
           p \notin PastDebit, DOMAIN ptx' = Proc, \A q \in Proc \ {p} : ptx'[q] = ptx[q],
           ptx'[p].id \in Admitted, ptx'[p] = built[ptx'[p].id], AcceptedOnce'
    PROVE  PaymentInv'
<1> USE DEF ProcStep, PoolShrinks
<1>1. /\ ppc' \in [Proc -> {"idle", "replay", "setNonce", "remove", "commit", "debit", "credit",
                            "committed", "replayError", "ledgerError", "debitError",
                            "debitUnsure", "creditError", "creditUnsure"}]
      /\ ppc'[p] = s /\ \A q \in Proc \ {p} : ppc'[q] = ppc[q]
  BY DEF PaymentInv, PaymentTypes
<1>2. Admitted' = Admitted
  BY DEF Admitted
<1>3. PaymentTypes' /\ BuiltAsAsked'
  BY <1>1 DEF PaymentInv, PaymentTypes, BuiltAsAsked
<1>4. PooledIsAdmitted' /\ ProcessedIsAdmitted' /\ AdmittedRecorded' /\ AdmittedNoncesUnique'
  BY <1>1, <1>2 DEF PaymentInv, PooledIsAdmitted, ProcessedIsAdmitted, AdmittedRecorded,
                    AdmittedNoncesUnique
<1>5. MoneyAccounted'
  <2>1. PastDebit' = PastDebit /\ \A q \in PastDebit : q \in Proc \ {p}
    BY <1>1 DEF PastDebit
  <2>2. TakenOut' = TakenOut
    BY <1>1, <2>1 DEF TakenOut
  <2> QED BY <2>2 DEF PaymentInv, MoneyAccounted
<1> QED BY <1>3, <1>4, <1>5 DEF PaymentInv

(* ProcessTransaction up to the ledger write: a late reader, a replayed     *)
(* transaction or one that has left the pool changes nothing that matters.  *)
LEMMA ProcBeforeLedger ==
    ASSUME PaymentInv, NEW p \in Proc,
           \/ \E id \in Call : ProcGet(p, id)
           \/ ProcReplayCheck(p) \/ ProcSetNonce(p) \/ ProcRemove(p)
    PROVE  PaymentInv'
<1> USE DEF ledgerVars, createVars, poolVars
<1>1. /\ ppc[p] \in {"idle", "replay", "setNonce", "remove"}
      /\ \E s \in {"replay", "setNonce", "replayError", "remove", "commit"} :
            ppc' = [ppc EXCEPT ![p] = s]
      /\ UNCHANGED <<ledgerBalance, ledgerTxs, pc, built>>
      /\ DOMAIN ptx' = Proc /\ \A q \in Proc \ {p} : ptx'[q] = ptx[q]
  BY DEF ProcGet, ProcReplayCheck, ProcSetNonce, ProcRemove, PaymentInv, PaymentTypes
<1>2. PICK s \in {"replay", "setNonce", "replayError", "remove", "commit"} :
         ppc' = [ppc EXCEPT ![p] = s]
  BY <1>1
<1>3. PoolShrinks
  <2>1. \/ \E id : Pool!RemoveTransaction(id)
        \/ UNCHANGED poolVars
    BY DEF ProcGet, ProcReplayCheck, ProcSetNonce, ProcRemove
  <2> QED BY <2>1, PoolOthersShrink
<1>4. ptx'[p].id \in Admitted /\ ptx'[p] = built[ptx'[p].id]
  <2>1. CASE \E id \in Call : ProcGet(p, id)
    <3>1. PICK id \in DOMAIN txMap : ptx'[p] = txMap[id].tx
      BY <2>1 DEF ProcGet, PaymentInv, PaymentTypes
    <3>2. id \in Admitted /\ built[id].id = id
      BY <3>1 DEF PaymentInv, PooledIsAdmitted, BuiltAsAsked, Admitted
    <3> QED BY <3>1, <3>2 DEF PaymentInv, PooledIsAdmitted
  <2>2. CASE ProcReplayCheck(p) \/ ProcSetNonce(p) \/ ProcRemove(p)
    <3>1. ppc[p] # "idle" /\ ptx' = ptx
      BY <2>2 DEF ProcReplayCheck, ProcSetNonce, ProcRemove
    <3> QED BY <3>1 DEF PaymentInv, ProcessedIsAdmitted
  <2> QED BY <2>1, <2>2
<1>5. nonces' \in [Account -> Int]
  <2>1. CASE ProcSetNonce(p)
    <3>1. ptx[p].id \in Admitted /\ ptx[p] = built[ptx[p].id]
      BY <2>1 DEF ProcSetNonce, PaymentInv, ProcessedIsAdmitted
    <3>2. ptx[p].sender \in Account /\ ptx[p].nonce \in Int
      BY <3>1, ManagerAssumption DEF PaymentInv, BuiltAsAsked, Admitted
    <3> QED BY <2>1, <3>2 DEF ProcSetNonce, PaymentInv, PaymentTypes
  <2>2. CASE UNCHANGED nonces
    BY <2>2 DEF PaymentInv, PaymentTypes
  <2> QED BY <2>1, <2>2 DEF ProcGet, ProcReplayCheck, ProcRemove
<1>6. AcceptedOnce'
  <2>1. /\ ppc'[p] \notin AfterAccept
        /\ \A q \in Proc : ppc'[q] \in AfterAccept =>
                              q # p /\ ppc'[q] = ppc[q] /\ ptx'[q] = ptx[q]
    BY <1>1, <1>2 DEF AfterAccept, PaymentInv, PaymentTypes
  <2> QED BY <1>1, <2>1 DEF PaymentInv, AcceptedOnce
<1>7. p \notin PastDebit
  BY <1>1 DEF PastDebit
<1>8. ProcStep(p, s)
  BY <1>1, <1>2, <1>3, <1>5 DEF ProcStep
<1> QED BY <1>1, <1>4, <1>6, <1>7, <1>8, NoMoneyMoves

(* The ledger write: an identifier it knows is refused.                     *)
LEMMA ProcCommitKeeps ==
    ASSUME PaymentInv, NEW p \in Proc, ProcCommit(p)
    PROVE  PaymentInv'
<1> USE DEF createVars, poolVars, LedgerAccepts
<1>1. /\ ppc[p] = "commit" /\ UNCHANGED <<ledgerBalance, pc, built, ptx, nonces>> /\ PoolShrinks
      /\ \/ /\ ptx[p].id \notin ledgerTxs /\ ledgerTxs' = ledgerTxs \cup {ptx[p].id}
            /\ ppc' = [ppc EXCEPT ![p] = "debit"]
         \/ /\ ledgerTxs \subseteq ledgerTxs' /\ ppc' = [ppc EXCEPT ![p] = "ledgerError"]
  BY DEF ProcCommit, PoolShrinks
<1>2. PICK s \in {"debit", "ledgerError"} :
         /\ ppc' = [ppc EXCEPT ![p] = s] /\ ledgerTxs \subseteq ledgerTxs'
         /\ s = "debit" => ptx[p].id \notin ledgerTxs /\ ptx[p].id \in ledgerTxs'
  BY <1>1
<1>3. ppc'[p] = s /\ \A q \in Proc \ {p} : ppc'[q] = ppc[q]
  BY <1>2 DEF PaymentInv, PaymentTypes
<1>4. AcceptedOnce'
  <2> SUFFICES ASSUME NEW a \in Proc, ppc'[a] \in AfterAccept
               PROVE  /\ ptx[a].id \in ledgerTxs'
                      /\ \A q \in Proc : ppc'[q] \in AfterAccept /\ ptx[q].id = ptx[a].id => q = a
    BY <1>1 DEF AcceptedOnce
  <2>1. "ledgerError" \notin AfterAccept
    BY DEF AfterAccept
  <2>2. CASE a = p
    BY <1>2, <1>3, <2>1, <2>2 DEF PaymentInv, AcceptedOnce
  <2>3. CASE a # p
    BY <1>2, <1>3, <2>1, <2>3 DEF PaymentInv, AcceptedOnce
  <2> QED BY <2>2, <2>3
<1>5. ptx'[p].id \in Admitted /\ ptx'[p] = built[ptx'[p].id] /\ p \notin PastDebit /\ DOMAIN ptx' = Proc
  BY <1>1 DEF PaymentInv, ProcessedIsAdmitted, PastDebit, PaymentTypes
<1>6. ProcStep(p, s) /\ \A q \in Proc \ {p} : ptx'[q] = ptx[q]
  BY <1>1, <1>2 DEF ProcStep, PaymentInv, PaymentTypes
<1> QED BY <1>4, <1>5, <1>6, NoMoneyMoves

(* A step of updateBalances: only the balances and the call's own step move. *)
BalanceStep(p, s) ==
    /\ UNCHANGED <<accountNonces, txMap, nonces, ledgerTxs, pc, built, ptx>>
    /\ ppc[p] \in {"debit", "credit"} /\ s \in AfterAccept
    /\ ppc' = [ppc EXCEPT ![p] = s]

(* Beside the sums, such a step can disturb nothing.                        *)
LEMMA BalanceStepKeeps ==
    ASSUME PaymentInv, NEW p \in Proc, NEW s, BalanceStep(p, s),
           ledgerBalance' \in [Account -> Int], MoneyAccounted'
    PROVE  PaymentInv'
<1> USE DEF BalanceStep
<1>1. /\ ppc' \in [Proc -> {"idle", "replay", "setNonce", "remove", "commit", "debit", "credit",
                            "committed", "replayError", "ledgerError", "debitError",
                            "debitUnsure", "creditError", "creditUnsure"}]
      /\ ppc'[p] = s /\ \A q \in Proc \ {p} : ppc'[q] = ppc[q]
  BY DEF PaymentInv, PaymentTypes, AfterAccept
<1>2. PaymentTypes' /\ BuiltAsAsked'
  BY <1>1 DEF PaymentInv, PaymentTypes, BuiltAsAsked
<1>3. Admitted' = Admitted
  BY DEF Admitted
<1>4. \A q \in Proc : (ppc'[q] \in AfterAccept <=> ppc[q] \in AfterAccept)
                      /\ (ppc'[q] # "idle" => ppc[q] # "idle")
  BY <1>1 DEF AfterAccept
<1>5. PooledIsAdmitted' /\ ProcessedIsAdmitted' /\ AdmittedRecorded' /\ AdmittedNoncesUnique'
  BY <1>3, <1>4 DEF PaymentInv, PooledIsAdmitted, ProcessedIsAdmitted, AdmittedRecorded,
                    AdmittedNoncesUnique
<1>6. AcceptedOnce'
  BY <1>4 DEF PaymentInv, AcceptedOnce
<1> QED BY <1>2, <1>5, <1>6 DEF PaymentInv

(* What a call that has passed the ledger works on.                         *)
LEMMA ProcessedFields ==
    ASSUME PaymentInv, NEW p \in Proc, ppc[p] # "idle"
    PROVE  /\ ptx[p].id \in Call /\ ptx[p].fee \in Nat /\ Request[ptx[p].id].amount \in Nat
           /\ ptx[p].sender \in Account /\ Request[ptx[p].id].receiver \in Account
<1>1. ptx[p].id \in Admitted /\ ptx[p] = built[ptx[p].id]
  BY DEF PaymentInv, ProcessedIsAdmitted
<1> QED BY <1>1, ManagerAssumption DEF PaymentInv, BuiltAsAsked, Admitted

(* The outstanding amounts are integers over a finite set of calls.         *)
LEMMA TakenOutInt ==
    ASSUME PaymentInv
    PROVE  /\ IsFiniteSet(PastDebit) /\ DOMAIN TakenOut = PastDebit
           /\ \A p \in PastDebit : TakenOut[p] \in Int
           /\ SumFunctionOnSet(TakenOut, PastDebit) \in Int
           /\ SumFunctionOnSet(ledgerBalance, Account) \in Int
<1>1. IsFiniteSet(PastDebit)
  BY FS_Subset, ManagerAssumption DEF PastDebit
<1>2. ASSUME NEW p \in PastDebit PROVE TakenOut[p] \in Int
  <2>1. p \in Proc /\ ppc[p] # "idle"
    BY DEF PastDebit
  <2>2. ptx[p].fee \in Nat /\ Request[ptx[p].id].amount \in Nat
    BY <2>1, ProcessedFields
  <2> QED BY <2>2 DEF TakenOut
<1>3. \A a \in Account : ledgerBalance[a] \in Int
  BY DEF PaymentInv, PaymentTypes
<1> QED BY <1>1, <1>2, <1>3, SumInt, ManagerAssumption DEF TakenOut

(* updateBalances, first half: what leaves the sender is outstanding.       *)
LEMMA ProcDebitKeeps ==
    ASSUME PaymentInv, NEW p \in Proc, ProcDebit(p)
    PROVE  PaymentInv'
<1> DEFINE amount == Request[ptx[p].id].amount
           fee == ptx[p].fee
           sender == ptx[p].sender
<1>1. /\ UNCHANGED <<accountNonces, txMap, nonces, ledgerTxs, pc, built, ptx>> /\ ppc[p] = "debit"
      /\ \/ /\ \E s \in {"credit", "debitUnsure"} : ppc' = [ppc EXCEPT ![p] = s]
            /\ ledgerBalance' = [ledgerBalance EXCEPT ![sender] = @ - amount - fee]
         \/ /\ ppc' = [ppc EXCEPT ![p] = "debitError"] /\ UNCHANGED ledgerBalance
  BY DEF ProcDebit, createVars, poolVars
<1>2. amount \in Nat /\ fee \in Nat /\ sender \in Account
  BY <1>1, ProcessedFields
<1> HIDE DEF amount, fee, sender
<1>3. CASE ppc' = [ppc EXCEPT ![p] = "debitError"] /\ UNCHANGED ledgerBalance
  <2>1. ppc'[p] = "debitError" /\ \A q \in Proc \ {p} : ppc'[q] = ppc[q]
    BY <1>3 DEF PaymentInv, PaymentTypes
  <2>2. PastDebit' = PastDebit /\ \A q \in PastDebit : ppc'[q] = ppc[q]
    BY <1>1, <2>1 DEF PastDebit
  <2>3. TakenOut' = TakenOut
    BY <1>1, <2>2 DEF TakenOut
  <2>4. MoneyAccounted'
    BY <1>3, <2>3 DEF MoneyAccounted, PaymentInv
  <2>5. BalanceStep(p, "debitError")
    BY <1>1, <1>3 DEF BalanceStep, AfterAccept
  <2> QED BY <1>3, <2>4, <2>5, BalanceStepKeeps DEF PaymentInv, PaymentTypes
<1>4. CASE /\ \E s \in {"credit", "debitUnsure"} : ppc' = [ppc EXCEPT ![p] = s]
           /\ ledgerBalance' = [ledgerBalance EXCEPT ![sender] = @ - amount - fee]
  <2>0. PICK s \in {"credit", "debitUnsure"} : ppc' = [ppc EXCEPT ![p] = s]
    BY <1>4
  <2>1. ppc'[p] = s /\ \A q \in Proc \ {p} : ppc'[q] = ppc[q]
    BY <2>0 DEF PaymentInv, PaymentTypes
  <2>2. /\ PastDebit' = PastDebit \cup {p} /\ p \notin PastDebit
        /\ \A q \in PastDebit : ppc'[q] = ppc[q]
    BY <1>1, <2>1 DEF PastDebit
  <2>3. /\ DOMAIN TakenOut' = PastDebit \cup {p} /\ TakenOut'[p] = fee + amount
        /\ \A q \in PastDebit : TakenOut'[q] = TakenOut[q]
    BY <1>1, <2>1, <2>2 DEF TakenOut, fee, amount
  <2>4. SumFunctionOnSet(TakenOut', PastDebit \cup {p})
          = SumFunctionOnSet(TakenOut, PastDebit) + fee + amount
    <3>1. \A q \in PastDebit \cup {p} : TakenOut'[q] \in Int
      BY <1>2, <2>3, TakenOutInt
    <3>2. SumFunctionOnSet(TakenOut', PastDebit \cup {p})
            = SumFunctionOnSet(TakenOut', PastDebit) + TakenOut'[p]
      BY <2>2, <3>1, SumAdd, TakenOutInt
    <3>3. SumFunctionOnSet(TakenOut', PastDebit) = SumFunctionOnSet(TakenOut, PastDebit)
      BY <2>3, SumSame, TakenOutInt
    <3> QED BY <1>2, <2>3, <3>2, <3>3, TakenOutInt
  <2>5. /\ ledgerBalance' \in [Account -> Int] /\ ledgerBalance[sender] \in Int
        /\ ledgerBalance'[sender] = ledgerBalance[sender] - amount - fee
        /\ \A a \in Account \ {sender} : ledgerBalance'[a] = ledgerBalance[a]
        /\ \A a \in Account : ledgerBalance[a] \in Int
    BY <1>2, <1>4 DEF PaymentInv, PaymentTypes
  <2>6. SumFunctionOnSet(ledgerBalance', Account)
          = SumFunctionOnSet(ledgerBalance, Account) + ledgerBalance'[sender] - ledgerBalance[sender]
    BY <1>2, <2>5, SumChange, ManagerAssumption
  <2>7. MoneyAccounted'
    <3>1. SumFunctionOnSet(ledgerBalance, Account) + SumFunctionOnSet(TakenOut, PastDebit)
            = SumFunction(Balance)
      BY TakenOutInt DEF MoneyAccounted, SumFunction, PaymentInv, PaymentTypes
    <3>2. SumFunctionOnSet(ledgerBalance', Account) + SumFunctionOnSet(TakenOut', PastDebit \cup {p})
            = SumFunction(Balance)
      BY <1>2, <2>4, <2>5, <2>6, <3>1, TakenOutInt
    <3> QED BY <2>3, <2>5, <3>2 DEF MoneyAccounted, SumFunction
  <2>8. BalanceStep(p, s)
    BY <1>1, <2>0 DEF BalanceStep, AfterAccept
  <2> QED BY <2>5, <2>7, <2>8, BalanceStepKeeps
<1> QED BY <1>1, <1>3, <1>4

(* updateBalances, second half: the amount arrives, the fee stays out.      *)
LEMMA ProcCreditKeeps ==
    ASSUME PaymentInv, NEW p \in Proc, ProcCredit(p)
    PROVE  PaymentInv'
<1> DEFINE amount == Request[ptx[p].id].amount
           fee == ptx[p].fee
           receiver == Request[ptx[p].id].receiver
<1>1. /\ UNCHANGED <<accountNonces, txMap, nonces, ledgerTxs, pc, built, ptx>> /\ ppc[p] = "credit"
      /\ \/ /\ \E s \in {"committed", "creditUnsure"} : ppc' = [ppc EXCEPT ![p] = s]
            /\ ledgerBalance' = [ledgerBalance EXCEPT ![receiver] = @ + amount]
         \/ /\ ppc' = [ppc EXCEPT ![p] = "creditError"] /\ UNCHANGED ledgerBalance
  BY DEF ProcCredit, createVars, poolVars, CreditAmount
<1>2. amount \in Nat /\ fee \in Nat /\ receiver \in Account
  BY <1>1, ProcessedFields
<1> HIDE DEF amount, fee, receiver
<1>3. CASE ppc' = [ppc EXCEPT ![p] = "creditError"] /\ UNCHANGED ledgerBalance
  <2>1. ppc'[p] = "creditError" /\ \A q \in Proc \ {p} : ppc'[q] = ppc[q]
    BY <1>3 DEF PaymentInv, PaymentTypes
  <2>2. PastDebit' = PastDebit
    BY <1>1, <2>1 DEF PastDebit
  <2>3. \A q \in PastDebit :
          q \in Proc /\ (ppc'[q] \in {"committed", "creditUnsure"} <=> ppc[q] \in {"committed", "creditUnsure"})
    BY <1>1, <2>1 DEF PastDebit
  <2>4. TakenOut' = TakenOut
    BY <1>1, <2>2, <2>3 DEF TakenOut
  <2>5. MoneyAccounted'
    BY <1>3, <2>4 DEF MoneyAccounted, PaymentInv
  <2>6. BalanceStep(p, "creditError")
    BY <1>1, <1>3 DEF BalanceStep, AfterAccept
  <2> QED BY <1>3, <2>5, <2>6, BalanceStepKeeps DEF PaymentInv, PaymentTypes
<1>4. CASE /\ \E s \in {"committed", "creditUnsure"} : ppc' = [ppc EXCEPT ![p] = s]
           /\ ledgerBalance' = [ledgerBalance EXCEPT ![receiver] = @ + amount]
  <2>0. PICK s \in {"committed", "creditUnsure"} : ppc' = [ppc EXCEPT ![p] = s]
    BY <1>4
  <2>1. ppc'[p] = s /\ \A q \in Proc \ {p} : ppc'[q] = ppc[q]
    BY <2>0 DEF PaymentInv, PaymentTypes
  <2>2. PastDebit' = PastDebit /\ p \in PastDebit
    BY <1>1, <2>1 DEF PastDebit
  <2>3. /\ DOMAIN TakenOut' = PastDebit /\ TakenOut'[p] = fee /\ TakenOut[p] = fee + amount
        /\ \A q \in PastDebit \ {p} : TakenOut'[q] = TakenOut[q]
    <3>1. \A q \in PastDebit \ {p} : ppc'[q] = ppc[q]
      BY <2>1 DEF PastDebit
    <3> QED BY <1>1, <1>2, <2>1, <2>2, <3>1 DEF TakenOut, fee, amount
  <2>4. SumFunctionOnSet(TakenOut', PastDebit)
          = SumFunctionOnSet(TakenOut, PastDebit) + TakenOut'[p] - TakenOut[p]
    BY <1>2, <2>2, <2>3, SumChange, TakenOutInt
  <2>5. /\ ledgerBalance' \in [Account -> Int] /\ ledgerBalance[receiver] \in Int
        /\ ledgerBalance'[receiver] = ledgerBalance[receiver] + amount
        /\ \A a \in Account \ {receiver} : ledgerBalance'[a] = ledgerBalance[a]
        /\ \A a \in Account : ledgerBalance[a] \in Int
    BY <1>2, <1>4 DEF PaymentInv, PaymentTypes
  <2>6. SumFunctionOnSet(ledgerBalance', Account) = SumFunctionOnSet(ledgerBalance, Account)
                                              + ledgerBalance'[receiver] - ledgerBalance[receiver]
    BY <1>2, <2>5, SumChange, ManagerAssumption
  <2>7. MoneyAccounted'
    <3>1. SumFunctionOnSet(ledgerBalance, Account) + SumFunctionOnSet(TakenOut, PastDebit)
            = SumFunction(Balance)
      BY TakenOutInt DEF MoneyAccounted, SumFunction, PaymentInv, PaymentTypes
    <3>2. SumFunctionOnSet(ledgerBalance', Account) + SumFunctionOnSet(TakenOut', PastDebit)
            = SumFunction(Balance)
      BY <1>2, <2>3, <2>4, <2>5, <2>6, <3>1, TakenOutInt
    <3> QED BY <2>3, <2>5, <3>2 DEF MoneyAccounted, SumFunction
  <2>8. BalanceStep(p, s)
    BY <1>1, <2>0 DEF BalanceStep, AfterAccept
  <2> QED BY <2>5, <2>7, <2>8, BalanceStepKeeps
<1> QED BY <1>1, <1>3, <1>4

(* The payments' invariant, under every interleaving of the calls, the      *)
(* background loops and the failures of signing and of the ledger.          *)
THEOREM PaymentInvariant == Spec => []PaymentInv
<1>1. Init => PaymentInv
  <2> SUFFICES ASSUME Init PROVE PaymentInv
    OBVIOUS
  <2>1. Admitted = {} /\ PastDebit = {} /\ DOMAIN txMap = {}
    BY DEF Init, Pool!Init, Admitted, PastDebit
  <2>2. PaymentTypes
    BY ManagerAssumption DEF Init, Pool!Init, Pool!NoNonce, PaymentTypes
  <2>3. BuiltAsAsked /\ ProcessedIsAdmitted /\ AcceptedOnce
    BY DEF Init, BuiltAsAsked, ProcessedIsAdmitted, AcceptedOnce, AfterAccept
  <2>4. PooledIsAdmitted /\ AdmittedRecorded /\ AdmittedNoncesUnique
    BY <2>1 DEF PooledIsAdmitted, AdmittedRecorded, AdmittedNoncesUnique
  <2>5. MoneyAccounted
    <3>1. DOMAIN TakenOut = {} /\ ledgerBalance = Balance /\ DOMAIN Balance = Account
      BY <2>1, ManagerAssumption DEF TakenOut, Init
    <3>2. SumFunctionOnSet(Balance, Account) \in Int
      BY SumInt, ManagerAssumption
    <3> QED BY <3>1, <3>2, SumEmpty DEF MoneyAccounted, SumFunction
  <2> QED BY <2>2, <2>3, <2>4, <2>5 DEF PaymentInv
<1>2. PaymentInv /\ [Next]_vars => PaymentInv'
  <2> SUFFICES ASSUME PaymentInv, [Next]_vars PROVE PaymentInv'
    OBVIOUS
  <2>1. ASSUME \/ HandleTransactionConflicts \/ Cleanup
               \/ RevalidateSnapshot \/ RevalidateRemove \/ RevalidateDone
               \/ \E tx \in rqueue : RevalidateItem(tx)
               \/ Start \/ Stop \/ Tick
               \/ UNCHANGED vars
        PROVE  PaymentInv'
    <3>1. \/ \E id : Pool!RemoveTransaction(id)
          \/ Pool!RemoveExpiredTransactions \/ Pool!HandleConflicts \/ Pool!Tick
          \/ UNCHANGED poolVars
      BY <2>1 DEF HandleTransactionConflicts, Cleanup, RevalidateSnapshot, RevalidateRemove,
                  RevalidateDone, RevalidateItem, Start, Stop, Tick, vars
    <3>2. UNCHANGED <<nonces, ledgerVars, createVars, procVars>>
      BY <2>1 DEF HandleTransactionConflicts, Cleanup, RevalidateSnapshot, RevalidateRemove,
                  RevalidateDone, RevalidateItem, Start, Stop, Tick, vars
    <3> QED BY <3>1, <3>2, PoolOthersShrink, PoolStep
  <2>2. ASSUME NEW c \in Call, \/ CreateRead(c) \/ CreateValidateAndSign(c)
                               \/ CreateAdd(c) \/ CreateSetNonce(c)
        PROVE  PaymentInv'
    BY <2>2, CreateBeforePool, CreateAddKeeps, CreateSetNonceKeeps
  <2>3. ASSUME NEW p \in Proc, \/ \E id \in Call : ProcGet(p, id)
                               \/ ProcReplayCheck(p) \/ ProcSetNonce(p) \/ ProcRemove(p)
                               \/ ProcCommit(p) \/ ProcDebit(p) \/ ProcCredit(p)
        PROVE  PaymentInv'
    BY <2>3, ProcBeforeLedger, ProcCommitKeeps, ProcDebitKeeps, ProcCreditKeeps
  <2> QED BY <2>1, <2>2, <2>3 DEF Next
<1> QED BY <1>1, <1>2, PTL DEF Spec

(* No transaction is debited by two ProcessTransaction calls.               *)
THEOREM NoDoubleDebit == Spec => []DebitedOnce
<1>1. PaymentInv => DebitedOnce
  BY DEF PaymentInv, AcceptedOnce, DebitedOnce, PastDebit, AfterAccept
<1> QED BY <1>1, PaymentInvariant, PTL

(* No sender ever has two admitted transactions with one nonce.             *)
THEOREM NoNonceReuse == Spec => []AdmittedNoncesUnique
BY PaymentInvariant, PTL DEF PaymentInv

(* Coins leave the accounts only as fees and as amounts still to be         *)
(* credited, whichever ledger calls fail.                                   *)
THEOREM NoMoneyLost == Spec => []MoneyAccounted
BY PaymentInvariant, PTL DEF PaymentInv

----------------------------------------------------------------------------
(* Token supply                                                             *)

WalletSum == SumFunctionOnSet(accounts, Wallets \cap DOMAIN accounts)

(* The mint or burn that holds ts.mu has taken its amount out of From, and  *)
(* has put it into Into.                                                    *)
InLock == {"check", "debit", "credit", "revert", "count"}
HasDebited == tsMu # NoHolder /\ req[tsMu].pc \in {"credit", "revert", "count"}
HasCredited == tsMu # NoHolder /\ req[tsMu].pc = "count"

(* What is missing meanwhile in the accounts of ids.                        *)
Missing(ids) ==
    (IF HasDebited /\ From(tsMu) \in ids THEN req[tsMu].amount ELSE 0)
      - (IF HasCredited /\ Into(tsMu) \in ids THEN req[tsMu].amount ELSE 0)
TreasuryMissing == Missing({Treasury})
WalletsMissing == Missing(Wallets)

RequestType == [pc : {"idle", "lock", "done"} \cup InLock, kind : {"mint", "burn"},
                wallet : Wallets \cup {Treasury, NoID}, amount : Nat]

BalancesNat == accounts \in [DOMAIN accounts -> Nat]

SupplyTypes ==
    /\ BalancesNat /\ DOMAIN accounts \subseteq Wallets \cup {Treasury}
    /\ treasuryID \in {NoID, Treasury} /\ (Registered(Treasury) <=> treasuryID # NoID)
    /\ tsMu \in Requests \cup {NoHolder}
    /\ req \in [Requests -> RequestType]
    /\ circulatingSupply \in Int /\ toItself \in Int /\ paidIn \in Int

(* The holder of ts.mu is the one request inside the lock.                  *)
LockHeld == \A r \in Requests : req[r].pc \in InLock <=> tsMu = r

(* ts.mu serialises the requests, an account once found stays registered,   *)
(* and at every step the books balance up to what is missing.               *)
SupplyInv ==
    /\ SupplyTypes /\ LockHeld
    /\ HasDebited => Registered(From(tsMu))
    /\ HasCredited => Registered(Into(tsMu))
    /\ treasuryID = NoID => circulatingSupply = 0 /\ toItself = 0
    /\ treasuryID # NoID =>
          accounts[Treasury] + TreasuryMissing + circulatingSupply = TotalSupply + toItself
    /\ WalletSum + WalletsMissing = circulatingSupply - toItself + paidIn

(* Balances of a set of accounts are integers, and so is their sum.         *)
LEMMA WalletSumInt ==
    ASSUME SupplyTypes
    PROVE  /\ IsFiniteSet(Wallets \cap DOMAIN accounts) /\ WalletSum \in Int
           /\ \A k \in DOMAIN accounts : accounts[k] \in Int
<1>1. IsFiniteSet(Wallets \cap DOMAIN accounts)
  <2>1. Wallets \cap DOMAIN accounts \in SUBSET Wallets
    OBVIOUS
  <2> QED BY <2>1, FS_Subset, SupplyAssumption
<1>2. \A k \in DOMAIN accounts : accounts[k] \in Int
  <2> DEFINE D == DOMAIN accounts
  <2>1. accounts \in [D -> Nat]
    BY DEF SupplyTypes, BalancesNat
  <2> HIDE DEF D
  <2>2. \A k \in D : accounts[k] \in Int
    BY <2>1
  <2> QED BY <2>2 DEF D
<1>3. WalletSum \in Int
  BY <1>1, <1>2, SumInt DEF WalletSum
<1> QED BY <1>1, <1>2, <1>3

(* UpdateAccountBalance changes one balance and the sum it belongs to.      *)
LEMMA UpdateMoves ==
    ASSUME SupplyTypes, NEW id, NEW a \in Int, MayUpdate(id, a), Update(id, a)
    PROVE  /\ DOMAIN accounts' = DOMAIN accounts /\ BalancesNat'
           /\ Registered(Treasury) =>
                accounts'[Treasury] = accounts[Treasury] + (IF id = Treasury THEN a ELSE 0)
           /\ WalletSum' = WalletSum + (IF id \in Wallets THEN a ELSE 0)
<1> USE WalletSumInt
<1>1. /\ DOMAIN accounts' = DOMAIN accounts /\ BalancesNat'
      /\ id \in DOMAIN accounts /\ accounts[id] \in Int /\ accounts'[id] = accounts[id] + a
      /\ \A k \in DOMAIN accounts \ {id} : accounts'[k] = accounts[k]
  <2> DEFINE D == DOMAIN accounts
  <2>1. accounts \in [D -> Nat] /\ id \in D /\ accounts[id] + a >= 0
    BY DEF SupplyTypes, MayUpdate, Registered, BalancesNat
  <2> HIDE DEF D
  <2>2. /\ DOMAIN accounts' = D /\ accounts' \in [D -> Nat] /\ accounts[id] \in Int
        /\ accounts'[id] = accounts[id] + a /\ \A k \in D \ {id} : accounts'[k] = accounts[k]
    BY <2>1 DEF Update
  <2> QED BY <2>1, <2>2 DEF D, BalancesNat
<1>2. Registered(Treasury) =>
        accounts'[Treasury] = accounts[Treasury] + (IF id = Treasury THEN a ELSE 0)
  BY <1>1 DEF Registered
<1> DEFINE W == Wallets \cap DOMAIN accounts
<1>3. IsFiniteSet(W) /\ WalletSum = SumFunctionOnSet(accounts, W)
      /\ WalletSum' = SumFunctionOnSet(accounts', W)
      /\ (\A k \in W : accounts[k] \in Int) /\ WalletSum \in Int
  BY <1>1 DEF WalletSum
<1>4. CASE id \in Wallets
  <2>1. id \in W /\ accounts'[id] \in Int /\ \A k \in W \ {id} : accounts'[k] = accounts[k]
    BY <1>1, <1>4
  <2> HIDE DEF W
  <2>2. SumFunctionOnSet(accounts', W) = SumFunctionOnSet(accounts, W) + accounts'[id] - accounts[id]
    BY <1>3, <2>1, SumChange
  <2> QED BY <1>1, <1>2, <1>3, <1>4, <2>2
<1>5. CASE id \notin Wallets
  <2>1. \A k \in W : accounts'[k] = accounts[k]
    BY <1>1, <1>5
  <2> HIDE DEF W
  <2>2. SumFunctionOnSet(accounts', W) = SumFunctionOnSet(accounts, W)
    BY <1>3, <2>1, SumSame
  <2> QED BY <1>1, <1>2, <1>3, <1>5, <2>2
<1> QED BY <1>4, <1>5

(* A new account brings its own balance only.                               *)
LEMMA RegisterMoves ==
    ASSUME SupplyTypes, NEW id, NEW b \in Nat, ~Registered(id), RegisterAccount(id, b)
    PROVE  /\ DOMAIN accounts' = DOMAIN accounts \cup {id} /\ BalancesNat'
           /\ accounts'[id] = b /\ \A k \in DOMAIN accounts : accounts'[k] = accounts[k]
           /\ WalletSum' = WalletSum + (IF id \in Wallets THEN b ELSE 0)
<1> USE WalletSumInt
<1>1. /\ DOMAIN accounts' = DOMAIN accounts \cup {id} /\ BalancesNat'
      /\ accounts'[id] = b /\ id \notin DOMAIN accounts
      /\ \A k \in DOMAIN accounts : accounts'[k] = accounts[k]
  BY DEF RegisterAccount, SupplyTypes, Registered, BalancesNat
<1> DEFINE W == Wallets \cap DOMAIN accounts
<1>2. /\ IsFiniteSet(W) /\ WalletSum = SumFunctionOnSet(accounts, W)
      /\ (\A k \in W : accounts'[k] = accounts[k]) /\ (\A k \in W : accounts[k] \in Int)
      /\ WalletSum \in Int
  BY <1>1 DEF WalletSum
<1>3. CASE id \in Wallets
  <2>1. Wallets \cap DOMAIN accounts' = W \cup {id} /\ id \notin W
    BY <1>1, <1>3
  <2>2. \A k \in W \cup {id} : accounts'[k] \in Int
    BY <1>1, <1>2
  <2> HIDE DEF W
  <2>3. SumFunctionOnSet(accounts', W \cup {id}) = SumFunctionOnSet(accounts', W) + accounts'[id]
    BY <1>2, <2>1, <2>2, SumAdd
  <2>4. SumFunctionOnSet(accounts', W) = SumFunctionOnSet(accounts, W)
    BY <1>2, SumSame
  <2>5. WalletSum' = WalletSum + b
    BY <1>1, <1>2, <2>1, <2>3, <2>4 DEF WalletSum
  <2> QED BY <1>1, <1>3, <2>5
<1>4. CASE id \notin Wallets
  <2>1. Wallets \cap DOMAIN accounts' = W
    BY <1>1, <1>4
  <2> HIDE DEF W
  <2>2. SumFunctionOnSet(accounts', W) = SumFunctionOnSet(accounts, W)
    BY <1>2, SumSame
  <2>3. WalletSum' = WalletSum
    BY <1>2, <2>1, <2>2 DEF WalletSum
  <2> QED BY <1>1, <1>2, <1>4, <2>3
<1> QED BY <1>3, <1>4

(* What a request asks for.                                                 *)
LEMMA RequestFields ==
    ASSUME SupplyTypes, NEW r \in Requests
    PROVE  /\ req[r].amount \in Nat /\ req[r].kind \in {"mint", "burn"} /\ r # NoHolder
           /\ From(r) \in Wallets \cup {Treasury, NoID} /\ Into(r) \in Wallets \cup {Treasury, NoID}
           /\ ~Registered(NoID)
BY SupplyAssumption DEF SupplyTypes, RequestType, From, Into, Registered

(* What is missing, by the step of the holder.                              *)
LEMMA MissingBySteps ==
    ASSUME SupplyTypes, NEW ids
    PROVE  /\ tsMu = NoHolder => Missing(ids) = 0
           /\ \A r \in Requests : tsMu = r =>
                /\ req[r].pc \in {"check", "debit"} => Missing(ids) = 0
                /\ req[r].pc \in {"credit", "revert"} =>
                     Missing(ids) = IF From(r) \in ids THEN req[r].amount ELSE 0
                /\ req[r].pc = "count" =>
                     Missing(ids) = (IF From(r) \in ids THEN req[r].amount ELSE 0)
                                      - (IF Into(r) \in ids THEN req[r].amount ELSE 0)
           /\ Missing(ids) \in Int
<1>1. ASSUME NEW r \in Requests PROVE r # NoHolder /\ req[r].amount \in Int
  <2>1. r # NoHolder /\ req[r].amount \in Nat
    BY RequestFields
  <2> QED BY <2>1
<1>2. tsMu \in Requests \cup {NoHolder}
  BY DEF SupplyTypes
<1> QED BY <1>1, <1>2 DEF Missing, HasDebited, HasCredited

(* A step of the request that holds ts.mu.                                  *)
LEMMA HolderMoves ==
    ASSUME SupplyTypes, LockHeld, NEW r \in Requests, NEW s \in InLock \cup {"done"},
           req[r].pc \in InLock, req' = [req EXCEPT ![r].pc = s], treasuryID' = treasuryID,
           tsMu' = IF s = "done" THEN NoHolder ELSE tsMu
    PROVE  /\ req' \in [Requests -> RequestType] /\ LockHeld'
           /\ req'[r].pc = s /\ req'[r].amount = req[r].amount
           /\ From(r)' = From(r) /\ Into(r)' = Into(r) /\ tsMu = r
<1> DEFINE rec == [req[r] EXCEPT !.pc = s]
<1>1. req' = [req EXCEPT ![r] = rec]
  OBVIOUS
<1>2. req \in [Requests -> RequestType]
  BY DEF SupplyTypes, RequestType
<1>3. /\ rec \in RequestType /\ rec.pc = s /\ rec.amount = req[r].amount
      /\ rec.kind = req[r].kind /\ rec.wallet = req[r].wallet
  BY <1>2 DEF RequestType
<1> HIDE DEF rec
<1>4. req' \in [Requests -> RequestType] /\ req'[r] = rec /\ \A q \in Requests \ {r} : req'[q] = req[q]
  BY <1>1, <1>2, <1>3
<1>5. tsMu = r
  BY DEF LockHeld
<1>6. LockHeld'
  <2>1. \A q \in Requests : q # NoHolder
    BY RequestFields
  <2>2. "done" \notin InLock
    BY DEF InLock
  <2> QED BY <1>3, <1>4, <1>5, <2>1, <2>2 DEF LockHeld
<1> QED BY <1>3, <1>4, <1>5, <1>6 DEF From, Into

(* The request returns: what it has counted is all that has moved.          *)
LEMMA SupplyReturnKeeps ==
    ASSUME SupplyInv, NEW r \in Requests, req[r].pc \in InLock, Return(r),
           treasuryID' = treasuryID, paidIn' = paidIn,
           circulatingSupply' \in Int, toItself' \in Int,
           BalancesNat', DOMAIN accounts' = DOMAIN accounts,
           treasuryID = NoID => circulatingSupply' = 0 /\ toItself' = 0,
           treasuryID # NoID => accounts'[Treasury] + circulatingSupply' = TotalSupply + toItself',
           WalletSum' = circulatingSupply' - toItself' + paidIn
    PROVE  SupplyInv'
<1>1. /\ SupplyTypes /\ LockHeld /\ "done" \in InLock \cup {"done"}
      /\ req' = [req EXCEPT ![r].pc = "done"] /\ tsMu' = IF "done" = "done" THEN NoHolder ELSE tsMu
  BY DEF SupplyInv, Return
<1>2. req' \in [Requests -> RequestType] /\ LockHeld' /\ tsMu' = NoHolder
  BY <1>1, HolderMoves
<1>3. SupplyTypes'
  BY <1>1, <1>2 DEF SupplyTypes, Registered
<1>4. ~HasDebited' /\ ~HasCredited'
  BY <1>2 DEF HasDebited, HasCredited
<1>5. TreasuryMissing' = 0 /\ WalletsMissing' = 0
  BY <1>4 DEF TreasuryMissing, WalletsMissing, Missing
<1>6. treasuryID' # NoID => accounts'[Treasury] \in Int
  <2> DEFINE D == DOMAIN accounts'
  <2>1. accounts' \in [D -> Nat] /\ (treasuryID' # NoID => Treasury \in D)
    BY <1>3 DEF SupplyTypes, Registered, BalancesNat
  <2> HIDE DEF D
  <2> QED BY <2>1
<1>7. paidIn \in Int /\ WalletSum' \in Int
  BY <1>1 DEF SupplyTypes
<1> QED BY <1>2, <1>3, <1>4, <1>5, <1>6, <1>7 DEF SupplyInv

(* CheckFunds and the failing half of Debit: nothing has moved.             *)
LEMMA CheckKeeps ==
    ASSUME SupplyInv, NEW r \in Requests, CheckFunds(r)
    PROVE  SupplyInv'
<1>1. /\ req[r].pc = "check" /\ req[r].pc \in InLock
      /\ UNCHANGED <<accounts, treasuryID, circulatingSupply, paidIn, toItself>>
  BY DEF CheckFunds, InLock
<1>2. tsMu = r /\ SupplyTypes /\ LockHeld
  BY <1>1 DEF SupplyInv, LockHeld
<1>3. TreasuryMissing = 0 /\ WalletsMissing = 0
  BY <1>1, <1>2, MissingBySteps DEF TreasuryMissing, WalletsMissing
<1>4. treasuryID # NoID => accounts[Treasury] \in Int
  BY <1>2, WalletSumInt DEF SupplyTypes, Registered
<1>5. /\ treasuryID # NoID => accounts[Treasury] + circulatingSupply = TotalSupply + toItself
      /\ WalletSum = circulatingSupply - toItself + paidIn
  BY <1>2, <1>3, <1>4, WalletSumInt DEF SupplyInv, SupplyTypes
<1>6. WalletSum' = WalletSum /\ BalancesNat'
  BY <1>1, <1>2 DEF WalletSum, BalancesNat, SupplyTypes
<1>7. CASE Return(r)
  BY <1>1, <1>2, <1>5, <1>6, <1>7, SupplyReturnKeeps DEF SupplyInv, SupplyTypes
<1>8. CASE To(r, "debit") /\ UNCHANGED tsMu
  <2>1. /\ req' = [req EXCEPT ![r].pc = "debit"] /\ "debit" \in InLock \cup {"done"}
        /\ tsMu' = IF "debit" = "done" THEN NoHolder ELSE tsMu
    BY <1>8 DEF To, InLock
  <2>2. req' \in [Requests -> RequestType] /\ LockHeld' /\ req'[r].pc = "debit" /\ tsMu' = r
    BY <1>1, <1>2, <1>8, <2>1, HolderMoves
  <2>3. SupplyTypes' /\ ~HasDebited' /\ ~HasCredited'
    BY <1>1, <1>2, <1>6, <2>2 DEF SupplyTypes, Registered, HasDebited, HasCredited
  <2>4. TreasuryMissing' = 0 /\ WalletsMissing' = 0
    BY <2>3 DEF TreasuryMissing, WalletsMissing, Missing
  <2> QED BY <1>1, <1>2, <1>3, <1>6, <2>2, <2>3, <2>4 DEF SupplyInv, SupplyTypes
<1> QED BY <1>7, <1>8 DEF CheckFunds

(* The debit: the amount goes missing where it was taken.                   *)
LEMMA DebitKeeps ==
    ASSUME SupplyInv, NEW r \in Requests, Debit(r)
    PROVE  SupplyInv'
<1>1. /\ req[r].pc = "debit" /\ req[r].pc \in InLock
      /\ UNCHANGED <<treasuryID, circulatingSupply, paidIn, toItself>>
  BY DEF Debit, InLock
<1>2. tsMu = r /\ SupplyTypes /\ LockHeld
  BY <1>1 DEF SupplyInv, LockHeld
<1>3. TreasuryMissing = 0 /\ WalletsMissing = 0
  BY <1>1, <1>2, MissingBySteps DEF TreasuryMissing, WalletsMissing
<1>4. treasuryID # NoID => Registered(Treasury) /\ accounts[Treasury] \in Int
  BY <1>2, WalletSumInt DEF SupplyTypes, Registered
<1>5. /\ treasuryID # NoID => accounts[Treasury] + circulatingSupply = TotalSupply + toItself
      /\ WalletSum = circulatingSupply - toItself + paidIn /\ WalletSum \in Int
      /\ circulatingSupply \in Int /\ toItself \in Int /\ paidIn \in Int
  BY <1>2, <1>3, <1>4, WalletSumInt DEF SupplyInv, SupplyTypes
<1>6. req[r].amount \in Nat
  BY <1>2, RequestFields
<1> DEFINE amount == req[r].amount
<1>7. CASE Return(r) /\ UNCHANGED accounts
  <2>1. WalletSum' = WalletSum /\ BalancesNat'
    BY <1>2, <1>7 DEF WalletSum, BalancesNat, SupplyTypes
  <2> QED BY <1>1, <1>2, <1>5, <1>7, <2>1, SupplyReturnKeeps DEF SupplyInv, SupplyTypes
<1>8. CASE /\ MayUpdate(From(r), -amount) /\ Update(From(r), -amount)
           /\ To(r, "credit") /\ UNCHANGED tsMu
  <2>1. /\ req' = [req EXCEPT ![r].pc = "credit"] /\ "credit" \in InLock \cup {"done"}
        /\ tsMu' = IF "credit" = "done" THEN NoHolder ELSE tsMu
    BY <1>8 DEF To, InLock
  <2>2. /\ req' \in [Requests -> RequestType] /\ LockHeld' /\ req'[r].pc = "credit" /\ tsMu' = r
        /\ req'[r].amount = amount /\ From(r)' = From(r)
    BY <1>1, <1>2, <1>8, <2>1, HolderMoves
  <2> DEFINE id == From(r)
  <2>3. -amount \in Int /\ MayUpdate(id, -amount) /\ Update(id, -amount)
    BY <1>6, <1>8
  <2> HIDE DEF amount, id
  <2>4. /\ DOMAIN accounts' = DOMAIN accounts /\ BalancesNat'
        /\ Registered(Treasury) =>
             accounts'[Treasury] = accounts[Treasury] + (IF id = Treasury THEN -amount ELSE 0)
        /\ WalletSum' = WalletSum + (IF id \in Wallets THEN -amount ELSE 0)
    BY <1>2, <2>3, UpdateMoves
  <2>5. SupplyTypes'
    BY <1>1, <1>2, <1>8, <2>2, <2>4 DEF SupplyTypes, Registered
  <2>6. /\ TreasuryMissing' = IF id = Treasury THEN amount ELSE 0
        /\ WalletsMissing' = IF id \in Wallets THEN amount ELSE 0
    <3>1. From(r)' = id /\ req'[r].amount = amount /\ r # NoHolder
      BY <1>2, <2>2, RequestFields DEF id
    <3>2. HasDebited' /\ ~HasCredited' /\ amount \in Nat
      BY <1>6, <2>2, <3>1 DEF HasDebited, HasCredited, amount
    <3>3. From(tsMu)' = id /\ req'[tsMu'].amount = amount
      BY <2>2, <3>1 DEF From
    <3> QED BY <3>2, <3>3 DEF TreasuryMissing, WalletsMissing, Missing
  <2>7. treasuryID' # NoID =>
          accounts'[Treasury] + TreasuryMissing' + circulatingSupply' = TotalSupply + toItself'
    BY <1>1, <1>4, <1>5, <1>6, <2>4, <2>6 DEF amount
  <2>8. WalletSum' + WalletsMissing' = circulatingSupply' - toItself' + paidIn'
    BY <1>1, <1>5, <1>6, <2>4, <2>6 DEF amount
  <2>9. /\ HasDebited' => Registered(From(tsMu))'
        /\ ~HasCredited'
    <3>1. Registered(id) /\ From(tsMu)' = id
      BY <1>8, <2>2 DEF MayUpdate, id, From
    <3> QED BY <2>2, <2>4, <3>1 DEF Registered, HasCredited
  <2> QED BY <1>1, <2>2, <2>5, <2>7, <2>8, <2>9 DEF SupplyInv
<1> QED BY <1>7, <1>8 DEF Debit

(* The credit: the amount arrives, or the request will take it back.        *)
LEMMA CreditKeeps ==
    ASSUME SupplyInv, NEW r \in Requests, Credit(r)
    PROVE  SupplyInv'
<1> DEFINE amount == req[r].amount
           src == From(r)
           dst == Into(r)
<1>1. /\ req[r].pc = "credit" /\ req[r].pc \in InLock
      /\ UNCHANGED <<tsMu, treasuryID, circulatingSupply, paidIn, toItself>>
  BY DEF Credit, InLock
<1>2. tsMu = r /\ SupplyTypes /\ LockHeld /\ amount \in Nat /\ r # NoHolder
  BY <1>1, RequestFields DEF SupplyInv, LockHeld
<1>3. Registered(src) /\ HasDebited
  BY <1>1, <1>2 DEF SupplyInv, HasDebited
<1>4. /\ TreasuryMissing = (IF src = Treasury THEN amount ELSE 0)
      /\ WalletsMissing = (IF src \in Wallets THEN amount ELSE 0)
  BY <1>1, <1>2, MissingBySteps DEF TreasuryMissing, WalletsMissing
<1>5. /\ treasuryID # NoID => Registered(Treasury) /\ accounts[Treasury] \in Int
      /\ WalletSum \in Int /\ circulatingSupply \in Int /\ toItself \in Int /\ paidIn \in Int
  BY <1>2, WalletSumInt DEF SupplyTypes, Registered
<1>6. /\ treasuryID # NoID =>
           accounts[Treasury] + TreasuryMissing + circulatingSupply = TotalSupply + toItself
      /\ WalletSum + WalletsMissing = circulatingSupply - toItself + paidIn
      /\ treasuryID = NoID => circulatingSupply = 0 /\ toItself = 0
  BY DEF SupplyInv
<1>7. ASSUME NEW s \in {"count", "revert"}, To(r, s)
      PROVE  /\ req' \in [Requests -> RequestType] /\ LockHeld' /\ req'[r].pc = s
             /\ req'[tsMu'].amount = amount /\ From(tsMu)' = src /\ Into(tsMu)' = dst
             /\ HasDebited' /\ (HasCredited' <=> s = "count")
  <2>1. /\ req' = [req EXCEPT ![r].pc = s] /\ s \in InLock \cup {"done"}
        /\ tsMu' = IF s = "done" THEN NoHolder ELSE tsMu
    BY <1>1, <1>7 DEF To, InLock
  <2>2. /\ req' \in [Requests -> RequestType] /\ LockHeld' /\ req'[r].pc = s
        /\ req'[r].amount = amount /\ From(r)' = src /\ Into(r)' = dst
    BY <1>1, <1>2, <2>1, HolderMoves
  <2>3. tsMu' = r
    BY <1>1, <1>2
  <2>4. From(tsMu)' = src /\ Into(tsMu)' = dst
    BY <2>2, <2>3 DEF From, Into
  <2> QED BY <1>2, <2>2, <2>3, <2>4 DEF HasDebited, HasCredited
<1> HIDE DEF amount, src, dst
<1>8. CASE MayUpdate(dst, amount) /\ Update(dst, amount) /\ To(r, "count")
  <2>1. /\ req' \in [Requests -> RequestType] /\ LockHeld' /\ HasDebited' /\ HasCredited'
        /\ req'[tsMu'].amount = amount /\ From(tsMu)' = src /\ Into(tsMu)' = dst
    BY <1>7, <1>8
  <2>2. /\ DOMAIN accounts' = DOMAIN accounts /\ BalancesNat'
        /\ Registered(Treasury) =>
             accounts'[Treasury] = accounts[Treasury] + (IF dst = Treasury THEN amount ELSE 0)
        /\ WalletSum' = WalletSum + (IF dst \in Wallets THEN amount ELSE 0)
    BY <1>2, <1>8, UpdateMoves
  <2>3. SupplyTypes'
    BY <1>1, <1>2, <2>1, <2>2 DEF SupplyTypes, Registered
  <2>4. Registered(From(tsMu))' /\ Registered(Into(tsMu))'
    BY <1>3, <1>8, <2>1, <2>2 DEF Registered, MayUpdate
  <2>5. /\ TreasuryMissing' = (IF src = Treasury THEN amount ELSE 0)
                                - (IF dst = Treasury THEN amount ELSE 0)
        /\ WalletsMissing' = (IF src \in Wallets THEN amount ELSE 0)
                                - (IF dst \in Wallets THEN amount ELSE 0)
    BY <2>1 DEF TreasuryMissing, WalletsMissing, Missing
  <2>6. treasuryID' # NoID =>
          accounts'[Treasury] + TreasuryMissing' + circulatingSupply' = TotalSupply + toItself'
    BY <1>1, <1>2, <1>4, <1>5, <1>6, <2>2, <2>5
  <2>7. WalletSum' + WalletsMissing' = circulatingSupply' - toItself' + paidIn'
    BY <1>1, <1>2, <1>4, <1>5, <1>6, <2>2, <2>5
  <2> QED BY <1>1, <1>6, <2>1, <2>3, <2>4, <2>6, <2>7 DEF SupplyInv
<1>9. CASE To(r, "revert") /\ UNCHANGED accounts
  <2>1. /\ req' \in [Requests -> RequestType] /\ LockHeld' /\ HasDebited' /\ ~HasCredited'
        /\ req'[tsMu'].amount = amount /\ From(tsMu)' = src
    BY <1>7, <1>9
  <2>2. BalancesNat' /\ WalletSum' = WalletSum
    BY <1>2, <1>9 DEF SupplyTypes, BalancesNat, WalletSum
  <2>3. SupplyTypes'
    BY <1>1, <1>2, <1>9, <2>1, <2>2 DEF SupplyTypes, Registered
  <2>4. Registered(From(tsMu))'
    BY <1>3, <1>9, <2>1 DEF Registered
  <2>5. TreasuryMissing' = TreasuryMissing /\ WalletsMissing' = WalletsMissing
    BY <1>2, <1>4, <2>1 DEF TreasuryMissing, WalletsMissing, Missing
  <2> QED BY <1>1, <1>6, <1>9, <2>1, <2>2, <2>3, <2>4, <2>5 DEF SupplyInv
<1> QED BY <1>8, <1>9 DEF Credit, amount, dst

(* The revert finds its account and puts the amount back.                   *)
LEMMA RevertKeeps ==
    ASSUME SupplyInv, NEW r \in Requests, Revert(r)
    PROVE  SupplyInv'
<1> DEFINE amount == req[r].amount
           src == From(r)
<1>1. /\ req[r].pc = "revert" /\ req[r].pc \in InLock /\ Return(r)
      /\ UNCHANGED <<treasuryID, circulatingSupply, paidIn, toItself>>
  BY DEF Revert, InLock
<1>2. tsMu = r /\ SupplyTypes /\ LockHeld /\ amount \in Nat /\ r # NoHolder
  BY <1>1, RequestFields DEF SupplyInv, LockHeld
<1>3. Registered(src)
  BY <1>1, <1>2 DEF SupplyInv, HasDebited
<1>4. /\ TreasuryMissing = (IF src = Treasury THEN amount ELSE 0)
      /\ WalletsMissing = (IF src \in Wallets THEN amount ELSE 0)
  BY <1>1, <1>2, MissingBySteps DEF TreasuryMissing, WalletsMissing
<1>5. /\ treasuryID # NoID => Registered(Treasury) /\ accounts[Treasury] \in Int
      /\ WalletSum \in Int /\ circulatingSupply \in Int /\ toItself \in Int /\ paidIn \in Int
  BY <1>2, WalletSumInt DEF SupplyTypes, Registered
<1>6. /\ treasuryID # NoID =>
           accounts[Treasury] + TreasuryMissing + circulatingSupply = TotalSupply + toItself
      /\ WalletSum + WalletsMissing = circulatingSupply - toItself + paidIn
      /\ treasuryID = NoID => circulatingSupply = 0 /\ toItself = 0
  BY DEF SupplyInv
<1>7. MayUpdate(src, amount)
  <2> DEFINE D == DOMAIN accounts
  <2>1. accounts \in [D -> Nat] /\ src \in D
    BY <1>2, <1>3 DEF SupplyTypes, Registered, BalancesNat
  <2> HIDE DEF D, src, amount
  <2>2. accounts[src] \in Nat
    BY <2>1
  <2> QED BY <1>2, <1>3, <2>2 DEF MayUpdate
<1>8. Update(src, amount)
  BY <1>7 DEF Revert
<1> HIDE DEF amount, src
<1>9. /\ DOMAIN accounts' = DOMAIN accounts /\ BalancesNat'
      /\ Registered(Treasury) =>
           accounts'[Treasury] = accounts[Treasury] + (IF src = Treasury THEN amount ELSE 0)
      /\ WalletSum' = WalletSum + (IF src \in Wallets THEN amount ELSE 0)
  BY <1>2, <1>7, <1>8, UpdateMoves
<1>10. treasuryID # NoID => accounts'[Treasury] + circulatingSupply' = TotalSupply + toItself'
  BY <1>1, <1>2, <1>4, <1>5, <1>6, <1>9
<1>11. WalletSum' = circulatingSupply' - toItself' + paidIn
  BY <1>1, <1>2, <1>4, <1>5, <1>6, <1>9
<1> QED BY <1>1, <1>5, <1>6, <1>9, <1>10, <1>11, SupplyReturnKeeps

(* The count closes the books, also for the treasury's own account.         *)
LEMMA CountKeeps ==
    ASSUME SupplyInv, NEW r \in Requests, Count(r)
    PROVE  SupplyInv'
<1> DEFINE amount == req[r].amount
<1>1. /\ req[r].pc = "count" /\ req[r].pc \in InLock /\ Return(r)
      /\ UNCHANGED <<accounts, treasuryID, paidIn>>
      /\ circulatingSupply' = circulatingSupply + Minted(r)
      /\ toItself' = toItself + IF req[r].wallet = treasuryID THEN Minted(r) ELSE 0
  BY DEF Count, InLock
<1>2. /\ tsMu = r /\ SupplyTypes /\ LockHeld /\ amount \in Nat /\ r # NoHolder
      /\ req[r].kind \in {"mint", "burn"} /\ ~Registered(NoID)
  BY <1>1, RequestFields DEF SupplyInv, LockHeld
<1>3. Registered(From(r)) /\ Registered(Into(r))
  BY <1>1, <1>2 DEF SupplyInv, HasDebited, HasCredited
<1>4. treasuryID = Treasury /\ req[r].wallet \in Wallets \cup {Treasury}
  <2>1. treasuryID # NoID /\ Registered(req[r].wallet)
    BY <1>2, <1>3 DEF From, Into
  <2> QED BY <1>2, <2>1 DEF SupplyTypes, Registered
<1>5. /\ TreasuryMissing = (IF From(r) = Treasury THEN amount ELSE 0)
                             - (IF Into(r) = Treasury THEN amount ELSE 0)
      /\ WalletsMissing = (IF From(r) \in Wallets THEN amount ELSE 0)
                             - (IF Into(r) \in Wallets THEN amount ELSE 0)
  BY <1>1, <1>2, MissingBySteps DEF TreasuryMissing, WalletsMissing
<1>6. /\ accounts[Treasury] \in Int /\ NoID # Treasury
      /\ WalletSum \in Int /\ circulatingSupply \in Int /\ toItself \in Int /\ paidIn \in Int
  BY <1>2, <1>4, WalletSumInt, SupplyAssumption DEF SupplyTypes, Registered
<1>7. /\ accounts[Treasury] + TreasuryMissing + circulatingSupply = TotalSupply + toItself
      /\ WalletSum + WalletsMissing = circulatingSupply - toItself + paidIn
  BY <1>4, <1>6 DEF SupplyInv
<1>8. Minted(r) \in Int
  BY <1>2 DEF Minted
<1> HIDE DEF amount
<1>9. CASE req[r].wallet = Treasury
  <2>1. TreasuryMissing = 0 /\ WalletsMissing = 0
    BY <1>2, <1>4, <1>5, <1>9, SupplyAssumption DEF From, Into
  <2>2. toItself' = toItself + Minted(r)
    BY <1>1, <1>4, <1>9
  <2>3. /\ accounts'[Treasury] + circulatingSupply' = TotalSupply + toItself'
        /\ WalletSum = circulatingSupply' - toItself' + paidIn
    BY <1>1, <1>6, <1>7, <1>8, <2>1, <2>2, SupplyAssumption
  <2>4. circulatingSupply' \in Int /\ toItself' \in Int
    BY <1>1, <1>6, <1>8, <2>2
  <2>5. BalancesNat' /\ WalletSum' = WalletSum
    BY <1>1, <1>2 DEF SupplyTypes, BalancesNat, WalletSum
  <2> QED BY <1>1, <1>4, <1>6, <2>3, <2>4, <2>5, SupplyReturnKeeps
<1>10. CASE req[r].wallet \in Wallets
  <2>1. TreasuryMissing = Minted(r) /\ WalletsMissing = -Minted(r)
    BY <1>2, <1>4, <1>5, <1>10, SupplyAssumption DEF From, Into, Minted, amount
  <2>2. toItself' = toItself
    BY <1>1, <1>4, <1>6, <1>10, SupplyAssumption
  <2>3. /\ accounts'[Treasury] + circulatingSupply' = TotalSupply + toItself'
        /\ WalletSum = circulatingSupply' - toItself' + paidIn
    BY <1>1, <1>6, <1>7, <1>8, <2>1, <2>2, SupplyAssumption
  <2>4. circulatingSupply' \in Int /\ toItself' \in Int
    BY <1>1, <1>6, <1>8, <2>2
  <2>5. BalancesNat' /\ WalletSum' = WalletSum
    BY <1>1, <1>2 DEF SupplyTypes, BalancesNat, WalletSum
  <2> QED BY <1>1, <1>4, <1>6, <2>3, <2>4, <2>5, SupplyReturnKeeps
<1> QED BY <1>4, <1>9, <1>10

(* A request that enters, or waits for the lock, is not its holder.         *)
LEMMA OutsideMoves ==
    ASSUME SupplyTypes, LockHeld, NEW r \in Requests, NEW rec \in RequestType,
           req[r].pc \notin InLock, rec.pc \notin InLock,
           req' = [req EXCEPT ![r] = rec], tsMu' = tsMu, treasuryID' = treasuryID
    PROVE  /\ req' \in [Requests -> RequestType] /\ LockHeld'
           /\ HasDebited' <=> HasDebited
           /\ HasCredited' <=> HasCredited
           /\ TreasuryMissing' = TreasuryMissing /\ WalletsMissing' = WalletsMissing
           /\ HasDebited => From(tsMu)' = From(tsMu) /\ Into(tsMu)' = Into(tsMu)
<1>1. /\ req' \in [Requests -> RequestType] /\ req'[r] = rec
      /\ \A q \in Requests \ {r} : req'[q] = req[q]
  BY DEF SupplyTypes
<1>2. LockHeld' /\ tsMu # r
  BY <1>1 DEF LockHeld
<1>3. tsMu # NoHolder => req'[tsMu] = req[tsMu]
  BY <1>1, <1>2 DEF SupplyTypes
<1>4. /\ HasDebited' <=> HasDebited
      /\ HasCredited' <=> HasCredited
      /\ HasDebited => From(tsMu)' = From(tsMu) /\ Into(tsMu)' = Into(tsMu)
  BY <1>3 DEF HasDebited, HasCredited, From, Into
<1>5. /\ HasDebited => tsMu # NoHolder
      /\ HasCredited => tsMu # NoHolder /\ HasDebited
  BY DEF HasDebited, HasCredited
<1>6. TreasuryMissing' = TreasuryMissing /\ WalletsMissing' = WalletsMissing
  <2>1. CASE HasDebited
    <3>1. /\ req'[tsMu'].amount = req[tsMu].amount
          /\ From(tsMu)' = From(tsMu) /\ Into(tsMu)' = Into(tsMu)
      BY <1>3, <1>4, <1>5, <2>1
    <3> QED BY <1>4, <2>1, <3>1 DEF TreasuryMissing, WalletsMissing, Missing
  <2>2. CASE ~HasDebited
    BY <1>4, <1>5, <2>2 DEF TreasuryMissing, WalletsMissing, Missing
  <2> QED BY <2>1, <2>2
<1> QED BY <1>1, <1>2, <1>4, <1>6

(* CreateWallet, MintTokens and BurnTokens as they are asked for.           *)
LEMMA AskKeeps ==
    ASSUME SupplyInv, NEW r \in Requests, NEW w \in Wallets \cup {Treasury}, NEW a \in Amounts,
           \/ w \in Wallets /\ CreateWallet(r, w, a)
           \/ AskSupply(r, "mint", w, a) \/ AskSupply(r, "burn", w, a)
    PROVE  SupplyInv'
<1>1. PICK kind \in {"mint", "burn"} :
         req' = [req EXCEPT ![r] = [pc |-> "lock", kind |-> kind, wallet |-> w, amount |-> a]]
  BY DEF CreateWallet, AskSupply
<1> DEFINE rec == [pc |-> "lock", kind |-> kind, wallet |-> w, amount |-> a]
<1>2. rec \in RequestType /\ rec.pc \notin InLock
  BY SupplyAssumption DEF RequestType, InLock
<1>3. /\ UNCHANGED <<treasuryID, circulatingSupply, tsMu, paidIn, toItself>>
      /\ req[r].pc \notin InLock /\ SupplyTypes /\ LockHeld
  BY DEF CreateWallet, AskSupply, InLock, SupplyInv
<1> HIDE DEF rec
<1>4. /\ req' \in [Requests -> RequestType] /\ LockHeld'
      /\ HasDebited' <=> HasDebited
      /\ HasCredited' <=> HasCredited
      /\ TreasuryMissing' = TreasuryMissing /\ WalletsMissing' = WalletsMissing
      /\ HasDebited => From(tsMu)' = From(tsMu) /\ Into(tsMu)' = Into(tsMu)
  BY <1>1, <1>2, <1>3, OutsideMoves DEF rec
<1>5. HasCredited => HasDebited
  BY DEF HasDebited, HasCredited
<1>6. /\ BalancesNat' /\ WalletSum' = WalletSum
      /\ DOMAIN accounts \subseteq DOMAIN accounts'
      /\ DOMAIN accounts' \subseteq Wallets \cup {Treasury}
      /\ Registered(Treasury)' <=> Registered(Treasury)
      /\ \A k \in DOMAIN accounts : accounts'[k] = accounts[k]
  <2>1. CASE w \in Wallets /\ CreateWallet(r, w, a)
    <3>1. ~Registered(w) /\ RegisterAccount(w, 0) /\ 0 \in Nat
      BY <2>1 DEF CreateWallet
    <3>2. /\ DOMAIN accounts' = DOMAIN accounts \cup {w} /\ BalancesNat'
          /\ \A k \in DOMAIN accounts : accounts'[k] = accounts[k]
          /\ WalletSum' = WalletSum + (IF w \in Wallets THEN 0 ELSE 0)
      BY <1>3, <3>1, RegisterMoves
    <3>3. WalletSum \in Int /\ w # Treasury
      BY <1>3, <2>1, WalletSumInt, SupplyAssumption
    <3> QED BY <1>3, <2>1, <3>2, <3>3 DEF SupplyTypes, Registered
  <2>2. CASE UNCHANGED accounts
    BY <1>3, <2>2 DEF SupplyTypes, BalancesNat, WalletSum, Registered
  <2> QED BY <2>1, <2>2 DEF AskSupply
<1>7. SupplyTypes'
  BY <1>3, <1>4, <1>6 DEF SupplyTypes
<1>8. /\ HasDebited' => Registered(From(tsMu))'
      /\ HasCredited' => Registered(Into(tsMu))'
  BY <1>4, <1>5, <1>6 DEF SupplyInv, Registered
<1>9. treasuryID # NoID => accounts'[Treasury] = accounts[Treasury]
  BY <1>3, <1>6 DEF SupplyTypes, Registered
<1> QED BY <1>3, <1>4, <1>6, <1>7, <1>8, <1>9 DEF SupplyInv

(* The steps without a request, and the taking of the lock.                 *)
LEMMA SupplyOthersKeep ==
    ASSUME SupplyInv,
           \/ Initialize \/ \E r \in Requests : LockSupply(r)
           \/ \E w \in Wallets, a \in Amounts : FundWallet(w, a) \/ FundWallet(w, -a)
    PROVE  SupplyInv'
<1>1. SupplyTypes /\ LockHeld
  BY DEF SupplyInv
<1>2. CASE Initialize
  <2>1. /\ tsMu = NoHolder /\ treasuryID = NoID /\ treasuryID' = Treasury
        /\ circulatingSupply' = 0 /\ RegisterAccount(Treasury, TotalSupply)
        /\ UNCHANGED <<tsMu, req, paidIn, toItself>> /\ TotalSupply \in Nat
        /\ NoID # Treasury /\ Treasury \notin Wallets
    BY <1>2, SupplyAssumption DEF Initialize
  <2>2. ~Registered(Treasury) /\ circulatingSupply = 0 /\ toItself = 0
    BY <1>1, <2>1 DEF SupplyTypes, SupplyInv
  <2>3. /\ DOMAIN accounts' = DOMAIN accounts \cup {Treasury} /\ BalancesNat'
        /\ accounts'[Treasury] = TotalSupply
        /\ WalletSum' = WalletSum + (IF Treasury \in Wallets THEN TotalSupply ELSE 0)
    BY <1>1, <2>1, <2>2, RegisterMoves
  <2>4. ~HasDebited' /\ ~HasCredited' /\ ~HasDebited /\ ~HasCredited
    BY <2>1 DEF HasDebited, HasCredited
  <2>5. TreasuryMissing' = 0 /\ WalletsMissing' = 0 /\ WalletsMissing = 0 /\ WalletSum \in Int
    BY <1>1, <2>4, WalletSumInt DEF TreasuryMissing, WalletsMissing, Missing
  <2>6. SupplyTypes' /\ LockHeld'
    BY <1>1, <2>1, <2>2, <2>3 DEF SupplyTypes, Registered, LockHeld
  <2>7. WalletSum + WalletsMissing = circulatingSupply - toItself + paidIn
    BY DEF SupplyInv
  <2>8. WalletSum' + WalletsMissing' = circulatingSupply' - toItself' + paidIn'
    BY <2>1, <2>2, <2>3, <2>5, <2>7
  <2>9. accounts'[Treasury] + TreasuryMissing' + circulatingSupply' = TotalSupply + toItself'
    BY <2>1, <2>2, <2>3, <2>5
  <2> QED BY <2>1, <2>4, <2>6, <2>8, <2>9 DEF SupplyInv
<1>3. ASSUME NEW r \in Requests, LockSupply(r) PROVE SupplyInv'
  <2> DEFINE rec == [req[r] EXCEPT !.pc = "check"]
  <2>1. /\ tsMu = NoHolder /\ tsMu' = r /\ req' = [req EXCEPT ![r] = rec]
        /\ UNCHANGED <<accounts, treasuryID, circulatingSupply, paidIn, toItself>>
        /\ req[r].pc = "lock"
    BY <1>3 DEF LockSupply, To
  <2>2. rec \in RequestType /\ rec.pc = "check"
    BY <1>1 DEF SupplyTypes, RequestType, InLock
  <2> HIDE DEF rec
  <2>3. /\ req' \in [Requests -> RequestType] /\ req'[r] = rec
        /\ \A q \in Requests \ {r} : req'[q] = req[q]
    BY <1>1, <2>1, <2>2 DEF SupplyTypes
  <2>4. LockHeld'
    <3>1. "check" \in InLock /\ \A q \in Requests : q # NoHolder
      BY SupplyAssumption DEF InLock
    <3> QED BY <1>1, <2>1, <2>2, <2>3, <3>1 DEF LockHeld
  <2>5. ~HasDebited' /\ ~HasCredited' /\ ~HasDebited /\ ~HasCredited
    BY <2>1, <2>2, <2>3 DEF HasDebited, HasCredited
  <2>6. TreasuryMissing' = TreasuryMissing /\ WalletsMissing' = WalletsMissing
    BY <2>5 DEF TreasuryMissing, WalletsMissing, Missing
  <2>7. SupplyTypes'
    <3>1. BalancesNat'
      BY <1>1, <2>1 DEF SupplyTypes, BalancesNat
    <3> QED BY <1>1, <2>1, <2>3, <3>1 DEF SupplyTypes, Registered
  <2>8. WalletSum' = WalletSum
    BY <2>1 DEF WalletSum
  <2> QED BY <2>1, <2>4, <2>5, <2>6, <2>7, <2>8 DEF SupplyInv
<1>4. ASSUME NEW w \in Wallets, NEW a \in Int, FundWallet(w, a) PROVE SupplyInv'
  <2>1. /\ MayUpdate(w, a) /\ Update(w, a) /\ paidIn' = paidIn + a
        /\ UNCHANGED <<treasuryID, circulatingSupply, tsMu, req, toItself>>
        /\ w # Treasury
    BY <1>4, SupplyAssumption DEF FundWallet
  <2>2. /\ DOMAIN accounts' = DOMAIN accounts /\ BalancesNat'
        /\ Registered(Treasury) =>
             accounts'[Treasury] = accounts[Treasury] + (IF w = Treasury THEN a ELSE 0)
        /\ WalletSum' = WalletSum + (IF w \in Wallets THEN a ELSE 0)
    BY <1>1, <2>1, UpdateMoves
  <2>3. /\ TreasuryMissing' = TreasuryMissing /\ WalletsMissing' = WalletsMissing
        /\ HasDebited' <=> HasDebited
        /\ HasCredited' <=> HasCredited
        /\ From(tsMu)' = From(tsMu) /\ Into(tsMu)' = Into(tsMu)
        /\ LockHeld'
    BY <1>1, <2>1 DEF TreasuryMissing, WalletsMissing, Missing, HasDebited, HasCredited, From, Into,
                      LockHeld
  <2>4. /\ treasuryID # NoID => accounts[Treasury] \in Int /\ Registered(Treasury)
        /\ WalletSum \in Int /\ paidIn \in Int /\ circulatingSupply \in Int /\ toItself \in Int
        /\ WalletsMissing \in Int
    BY <1>1, WalletSumInt, MissingBySteps DEF SupplyTypes, Registered, WalletsMissing
  <2>5. treasuryID # NoID => accounts'[Treasury] = accounts[Treasury]
    BY <2>1, <2>2, <2>4
  <2>6. SupplyTypes'
    BY <1>1, <2>1, <2>2, <2>4 DEF SupplyTypes, Registered
  <2>7. WalletSum + WalletsMissing = circulatingSupply - toItself + paidIn
    BY DEF SupplyInv
  <2>8. WalletSum' + WalletsMissing' = circulatingSupply' - toItself' + paidIn'
    BY <2>1, <2>2, <2>3, <2>4, <2>7
  <2>9. /\ HasDebited' => Registered(From(tsMu))'
        /\ HasCredited' => Registered(Into(tsMu))'
    BY <2>2, <2>3 DEF SupplyInv, Registered
  <2> QED BY <2>1, <2>3, <2>5, <2>6, <2>8, <2>9 DEF SupplyInv
<1>5. \A a \in Amounts : a \in Int /\ -a \in Int
  BY SupplyAssumption
<1> QED BY <1>2, <1>3, <1>4, <1>5

(* The books balance at every step of every mint and burn, whatever fails   *)
(* and whatever the owners do to their wallets meanwhile.                   *)
THEOREM SupplyInvariant == SupplySpec => []SupplyInv
<1>1. SupplyInit => SupplyInv
  <2> SUFFICES ASSUME SupplyInit PROVE SupplyInv
    OBVIOUS
  <2>1. /\ DOMAIN accounts = {} /\ treasuryID = NoID /\ circulatingSupply = 0 /\ tsMu = NoHolder
        /\ paidIn = 0 /\ toItself = 0 /\ req = [r \in Requests |-> NoRequest] /\ BalancesNat
    BY DEF SupplyInit, BalancesNat
  <2>2. NoRequest \in RequestType /\ NoRequest.pc \notin InLock
    BY DEF NoRequest, RequestType, InLock
  <2>3. SupplyTypes
    BY <2>1, <2>2, SupplyAssumption DEF SupplyTypes, Registered
  <2>4. LockHeld /\ ~HasDebited /\ ~HasCredited
    BY <2>1, <2>2, SupplyAssumption DEF LockHeld, HasDebited, HasCredited
  <2>5. WalletSum = 0
    <3>1. Wallets \cap DOMAIN accounts = {}
      BY <2>1
    <3> QED BY <3>1, SumEmpty DEF WalletSum
  <2>6. WalletsMissing = 0
    BY <2>4 DEF WalletsMissing, Missing
  <2> QED BY <2>1, <2>3, <2>4, <2>5, <2>6 DEF SupplyInv
<1>2. SupplyInv /\ [SupplyNext]_supplyVars => SupplyInv'
  <2> SUFFICES ASSUME SupplyInv, [SupplyNext]_supplyVars PROVE SupplyInv'
    OBVIOUS
  <2>1. CASE UNCHANGED supplyVars
    BY <2>1 DEF supplyVars, SupplyInv, SupplyTypes, LockHeld, HasDebited, HasCredited, Registered,
                From, Into, TreasuryMissing, WalletsMissing, Missing, WalletSum, BalancesNat
  <2> QED BY <2>1, CheckKeeps, DebitKeeps, CreditKeeps, RevertKeeps, CountKeeps, AskKeeps,
             SupplyOthersKeep DEF SupplyNext
<1> QED BY <1>1, <1>2, PTL DEF SupplySpec

(* Between mints and burns the treasury and the wallets together hold       *)
(* exactly what was issued and what the owners paid in.                     *)
THEOREM SupplyIsConserved == SupplySpec => []SupplyConserved
<1>1. SupplyInv => SupplyConserved
  <2> SUFFICES ASSUME SupplyInv, tsMu = NoHolder PROVE TreasuryBacked /\ WalletsBacked
    BY DEF SupplyConserved
  <2>1. TreasuryMissing = 0 /\ WalletsMissing = 0
    BY DEF TreasuryMissing, WalletsMissing, Missing, HasDebited, HasCredited
  <2>2. SupplyTypes
    BY DEF SupplyInv
  <2>3. WalletSum \in Int /\ (treasuryID # NoID => accounts[Treasury] \in Int)
    BY <2>2, WalletSumInt DEF SupplyTypes, Registered
  <2> QED BY <2>1, <2>3 DEF SupplyInv, TreasuryBacked, WalletsBacked, WalletSum
<1> QED BY <1>1, SupplyInvariant, PTL
=============================================================================
