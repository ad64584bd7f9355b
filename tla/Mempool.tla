------------------------------ MODULE Mempool ------------------------------
(***************************************************************************)
(* What a mempool promises to its users, without heap, fees, clocks or      *)
(* priorities: a bounded set of transactions in which every admission uses  *)
(* up a nonce of its sender for good, and in which room is made for a       *)
(* newcomer only when there is none.                                        *)
(***************************************************************************)
EXTENDS Integers, FiniteSets

CONSTANTS
    Tx,         \* the transactions that may be submitted
    Account,    \* their senders
    Capacity    \* how many the pool holds

VARIABLES
    pool,       \* the transactions waiting to be processed
    high        \* account -> highest nonce admitted so far, -1 if none

mempoolVars == <<pool, high>>

Init == pool = {} /\ high = [a \in Account |-> -1]

(* tx joins the pool, and gone leaves it to make room.                      *)
Submit(tx, gone) ==
    /\ tx.nonce > high[tx.sender]
    /\ gone # {} => Cardinality(pool) = Capacity
    /\ pool' = (pool \ gone) \cup {tx}
    /\ Cardinality(pool') <= Capacity
    /\ high' = [high EXCEPT ![tx.sender] = tx.nonce]

(* Transactions leave: processed, expired, out-bid or evicted.              *)
Drop ==
    /\ pool' \subseteq pool
    /\ high' = high

Next == Drop \/ \E tx \in Tx, gone \in SUBSET pool : Submit(tx, gone)

Spec == Init /\ [][Next]_mempoolVars
=============================================================================
