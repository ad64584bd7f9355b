----------------------------- MODULE MCLachesis -----------------------------
(***************************************************************************)
(* The finality engine without snapshots, and the graph alone with them: a  *)
(* behaviour studies one of the two.                                        *)
(***************************************************************************)
EXTENDS Lachesis, TLC

VARIABLE focus   \* the specification this behaviour studies

MCInit == Init /\ focus \in {"graph", "engine"}

(* The heights do not depend on the stakes: in the graph all are equal.     *)
MCNext ==
    \/ /\ focus = "graph" /\ DAGNext /\ UNCHANGED <<engineVars, focus>>
       /\ \A n \in Node : status'[n] # "inactive" /\ stake'[n] < 2
    \/ focus = "engine" /\ EngineNext /\ UNCHANGED focus

MCSpec == MCInit /\ [][MCNext]_<<vars, focus>>

(* Nodes, events, workers and loops are interchangeable.                    *)
LachesisSymmetry ==
    Permutations(Node) \cup Permutations(Call) \cup Permutations(Worker) \cup Permutations(Loop)
=============================================================================
