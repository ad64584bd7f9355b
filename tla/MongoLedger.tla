---------------------------- MODULE MongoLedger ----------------------------
(***************************************************************************)
(* The blocks and transactions of storage/mongo_ledger.go.  CommitBlock       *)
(* writes a block and the status of its transactions in one transaction of   *)
(* the database, and raises currentHeight just before it commits.  The calls *)
(* run in goroutines without a lock around them; the process may end at any   *)
(* moment and is started again, when the height is read from the database.    *)
(*                                                                            *)
(* The database (external) refuses the second document with one blockHeight  *)
(* or txHash, and the second of two open transactions that write one         *)
(* document; it may fail any call, and a commit that fails may have happened. *)
(***************************************************************************)
EXTENDS Integers, FiniteSets, FiniteSetsExt

CONSTANTS
  Committers,   \* goroutines in CommitBlock
  Submitters,   \* goroutines in AddTransaction
  Txs,          \* transactions
  LedgerBlocks, \* blocks: [number, hash, txs]
  MaxRestarts   \* bound: ends of the process

ASSUME LedgerAssumption ==
  /\ \A b \in LedgerBlocks : b.number \in Nat \ {0} /\ b.txs \subseteq Txs
  /\ MaxRestarts \in Nat

VARIABLES
  blocksColl, \* the committed blocks
  txColl,     \* transaction -> [status, height]; "none" if it is not stored
  height,     \* currentHeight
  commit,     \* CommitBlock, by goroutine: step, block, transactions done, those its snapshot shows
  submit,     \* AddTransaction, by goroutine
  restarts
dbVars == <<blocksColl, txColl>>
mongoVars == <<dbVars, height, commit, submit, restarts>>

NotStored == [status |-> "none", height |-> 0]
NoCommit == [pc |-> "idle"]
NoSubmit == [pc |-> "idle"]

MongoInit ==
  /\ blocksColl = {} /\ txColl = [t \in Txs |-> NotStored]
  /\ height = 0 /\ restarts = 0
  /\ commit = [c \in Committers |-> NoCommit] /\ submit = [s \in Submitters |-> NoSubmit]

-----------------------------------------------------------------------------
(* AddTransaction: find, then insert.                                        *)

FindTransaction(s, t) ==
  /\ submit[s].pc = "idle" /\ txColl[t].status = "none"
  /\ submit' = [submit EXCEPT ![s] = [pc |-> "insert", tx |-> t]]
  /\ UNCHANGED <<dbVars, height, commit, restarts>>

\* The unique index on txHash refuses what came in between.
InsertTransaction(s) ==
  /\ submit[s].pc = "insert"
  /\ \/ /\ txColl[submit[s].tx].status = "none"
        /\ txColl' = [txColl EXCEPT ![submit[s].tx] = [status |-> "pending", height |-> 0]]
     \/ UNCHANGED txColl
  /\ submit' = [submit EXCEPT ![s] = NoSubmit]
  /\ UNCHANGED <<blocksColl, height, commit, restarts>>

-----------------------------------------------------------------------------
(* CommitBlock.                                                              *)

InSession(c) == commit[c].pc \in {"update", "raise", "commit"}

\* Two blocks of one number or one hash.
SameKey(b, d) == b.number = d.number \/ b.hash = d.hash

BlockTaken(b) ==
  \/ \E d \in blocksColl : SameKey(b, d)
  \/ \E c \in Committers : InSession(c) /\ SameKey(b, commit[c].block)

\* AbortTransaction, or the end of the session: nothing of it is left.
Abort(c) == commit' = [commit EXCEPT ![c] = NoCommit]

\* The session after the insert; a transaction stored later is not in its snapshot.
Session(b, inserted) ==
  [pc |-> "update", block |-> b, inserted |-> inserted, updated |-> {},
   visible |-> {t \in Txs : txColl[t].status # "none"}]

\* Bug: an insert that fails does not end the transaction.
InsertBlock_GoesOn(c, b) ==
  /\ commit[c].pc = "idle"
  /\ commit' = [commit EXCEPT ![c] = Session(b, ~BlockTaken(b))]
  /\ UNCHANGED <<dbVars, height, submit, restarts>>

\* StartTransaction and the insert of the block; one that fails changes nothing.
InsertBlock(c, b) ==
  /\ commit[c].pc = "idle" /\ ~BlockTaken(b)
  /\ commit' = [commit EXCEPT ![c] = Session(b, TRUE)]
  /\ UNCHANGED <<dbVars, height, submit, restarts>>

Conflicts(c, t) == \E d \in Committers \ {c} : InSession(d) /\ t \in commit[d].updated \cap commit[d].visible

\* A transaction that is not stored matches nothing, which is no error.
UpdateStatus(c, t) ==
  /\ commit[c].pc = "update" /\ t \in commit[c].block.txs \ commit[c].updated
  /\ \/ /\ ~Conflicts(c, t)
        /\ commit' = [commit EXCEPT ![c].updated = @ \cup {t}]
     \/ Abort(c)
  /\ UNCHANGED <<dbVars, height, submit, restarts>>

AllUpdated(c) ==
  /\ commit[c].pc = "update" /\ commit[c].updated = commit[c].block.txs
  /\ commit' = [commit EXCEPT ![c].pc = "raise"]
  /\ UNCHANGED <<dbVars, height, submit, restarts>>

RaiseHeight(c) ==
  /\ commit[c].pc = "raise"
  /\ height' = Max({height, commit[c].block.number})
  /\ commit' = [commit EXCEPT ![c].pc = "commit"]
  /\ UNCHANGED <<dbVars, submit, restarts>>

\* Whether it returns an error is nothing the ledger looks at.
CommitTransaction(c) ==
  /\ commit[c].pc = "commit"
  /\ LET b == commit[c].block
     IN \/ /\ blocksColl' = IF commit[c].inserted THEN blocksColl \cup {b} ELSE blocksColl
           /\ txColl' = [t \in Txs |-> IF t \in b.txs \cap commit[c].visible
                                       THEN [status |-> "committed", height |-> b.number] ELSE txColl[t]]
        \/ UNCHANGED dbVars
  /\ Abort(c)
  /\ UNCHANGED <<height, submit, restarts>>

\* The process ends and NewMongoLedger reads the height.
RestartLedger ==
  /\ restarts < MaxRestarts /\ restarts' = restarts + 1
  /\ height' = Max({b.number : b \in blocksColl} \cup {0})
  /\ commit' = [c \in Committers |-> NoCommit] /\ submit' = [s \in Submitters |-> NoSubmit]
  /\ UNCHANGED dbVars

MongoNext ==
  \/ \E s \in Submitters : InsertTransaction(s) \/ \E t \in Txs : FindTransaction(s, t)
  \/ \E c \in Committers :
       \/ AllUpdated(c) \/ RaiseHeight(c) \/ CommitTransaction(c)
       \/ \E b \in LedgerBlocks : InsertBlock(c, b)
       \/ \E t \in Txs : UpdateStatus(c, t)
  \/ RestartLedger

MongoSpec == MongoInit /\ [][MongoNext]_mongoVars

-----------------------------------------------------------------------------
\* A transaction is recorded as committed at a height only when the block of that
\* height is there and contains it: a commit that fails halfway, two blocks for
\* one number and an end of the process leave no status without its block.
CommittedInItsBlock ==
  \A t \in Txs : txColl[t].status = "committed" =>
    \E b \in blocksColl : b.number = txColl[t].height /\ t \in b.txs
=============================================================================
