------------------------- MODULE MCTransactionPool -------------------------
(* Instances of TransactionPool for TLC.                                    *)
EXTENDS TransactionPool

CONSTANTS t1, t2, t3, t4, alice, bob, dex

T(id, sender, nonce, fee, contract, dataLen, timestamp, expiry, sound) ==
    [id |-> id, sender |-> sender, nonce |-> nonce, fee |-> fee,
     contract |-> contract, dataLen |-> dataLen, timestamp |-> timestamp,
     expiry |-> expiry, sound |-> sound]

(* Two senders; two transactions that reuse a nonce, three that reuse an    *)
(* identifier, some that expire or are dated later and one that is unsound. *)
MCTx ==
    { T(t1, alice, 1, 10, NoContract, 0, 0, 0, TRUE),
      T(t2, alice, 2, 15, dex, 1024, 0, 0, TRUE),
      T(t3, alice, 2, 20, NoContract, 0, 1, 0, TRUE),
      T(t3, bob, 1, 12, dex, 0, 0, 1, TRUE),
      T(t1, alice, 3, 25, NoContract, 0, 1, 0, TRUE),
      T(t2, bob, 4, 25, NoContract, 0, 2, 3, TRUE),
      T(t4, bob, 2, 30, NoContract, 0, 0, 2, TRUE),
      T(t4, bob, 3, 30, NoContract, 0, 0, 0, FALSE) }

(* One sender whose transactions pay enough to be admitted at any load.     *)
MCTxStream == { T(t1, alice, n, 1000, NoContract, 0, 0, 0, TRUE) : n \in {1, 3, 5, 7} }
         \cup { T(t2, alice, n, 1000, NoContract, 0, 0, 0, TRUE) : n \in {2, 4, 6} }
=============================================================================
