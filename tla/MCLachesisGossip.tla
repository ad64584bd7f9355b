-------------------------- MODULE MCLachesisGossip --------------------------
(***************************************************************************)
(* The finality engine, the engine of a single validator with its           *)
(* snapshots, and the gossip, which sees the DAG as a set of IDs: a         *)
(* behaviour studies one of the three.                                      *)
(***************************************************************************)
EXTENDS Lachesis, Gossip

CONSTANT Single   \* bound: the validator when snapshots are studied

VARIABLE focus    \* the specification this behaviour studies

MCInit == Init /\ GossipInit /\ focus \in {"finality", "snapshot", "gossip"}

(* With one validator and one threshold.  Nothing comes between the last    *)
(* steps of NewEvent, which only count heights, nor between the copies of   *)
(* the DAG's three parts: the run of the graph alone has these.             *)
SnapshotBound ==
    /\ \A n \in Node : status'[n] = IF n = Single THEN "active" ELSE "unknown"
    /\ UNCHANGED thresholdVars
    /\ \A c \in Call : npc[c] \in {"link", "raise", "store"} => npc'[c] # npc[c]
    /\ spc # "idle" => spc' # spc

MCNext ==
    \/ focus = "finality" /\ EngineNext /\ UNCHANGED <<gossipVars, focus>>
    \/ focus = "snapshot" /\ Next /\ SnapshotBound /\ UNCHANGED <<gossipVars, focus>>
    \/ focus = "gossip" /\ GossipNext /\ UNCHANGED <<vars, focus>>

MCSpec == MCInit /\ [][MCNext]_<<vars, gossipVars, focus>> /\ Fairness
=============================================================================
