------------------------------ MODULE MCLedger ------------------------------
(***************************************************************************)
(* The transaction manager as in MCTransactionManager; beside it the token  *)
(* supply, and the blocks of the ledger.  The three share no state: a        *)
(* behaviour studies one of them.                                            *)
(***************************************************************************)
EXTENDS MCTransactionManager, TokenSupply, MongoLedger

(* Two blocks for one number, one transaction in blocks of both numbers. *)
MCBlocks ==
  {[number |-> 1, hash |-> "h1", txs |-> {"t1"}], [number |-> 1, hash |-> "h2", txs |-> {"t2"}],
   [number |-> 2, hash |-> "h3", txs |-> {"t1", "t2"}]}

VARIABLE focus   \* the specification this behaviour studies

MCInit == Init /\ SupplyInit /\ MongoInit /\ focus \in {"payments", "supply", "blocks"}

MCNext ==
  \/ focus = "payments" /\ Next /\ UNCHANGED <<supplyVars, mongoVars, focus>>
  \/ focus = "supply" /\ SupplyNext /\ UNCHANGED <<vars, mongoVars, focus>>
  \/ focus = "blocks" /\ MongoNext /\ UNCHANGED <<vars, supplyVars, focus>>

MCSpec == MCInit /\ [][MCNext]_<<vars, supplyVars, mongoVars, focus>>
=============================================================================
