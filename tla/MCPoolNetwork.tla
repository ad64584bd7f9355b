--------------------------- MODULE MCPoolNetwork ---------------------------
(***************************************************************************)
(* The transaction pool as in MCTransactionPool, and beside it the network   *)
(* manager with two outbound connections to one address and inbound ones: a   *)
(* behaviour studies one of the two.                                         *)
(***************************************************************************)
EXTENDS MCTransactionPool, Network

VARIABLE focus   \* the specification this behaviour studies

MCInit == Init /\ NetInit /\ focus \in {"pool", "network"}

MCNext ==
    \/ focus = "pool" /\ Next /\ UNCHANGED <<netVars, focus>>
    \/ focus = "network" /\ NetNext /\ UNCHANGED <<vars, focus>>

MCSpec == MCInit /\ [][MCNext]_<<vars, netVars, focus>> /\ NetFairness
=============================================================================
