---------------------------- MODULE MCEventFlow ----------------------------
(***************************************************************************)
(* Two events of different heights and the worker of the manager; beside it  *)
(* the batch processor, with three events of two creators, two callers and   *)
(* two batches at once.  A behaviour studies the batch processor, one event  *)
(* that two partitions bring at a time, one event that is created here while *)
(* a partition brings it, or two events, one of a partition and one created  *)
(* here.                                                                     *)
(***************************************************************************)
EXTENDS EventFlow, BatchProcessor

CONSTANTS e1, e2, p1, b1, b2, b3, c1, c2

VARIABLE focus   \* what this behaviour studies

HeightOf == [e \in Events |-> IF e = e1 THEN 1 ELSE 2]

MCItemCreator == [b \in {b1, b2, b3} |-> IF b = b3 THEN c2 ELSE c1]
MCItemHeight == [b \in {b1, b2, b3} |-> IF b = b1 THEN 1 ELSE 2]

\* Which of the events and calls take part.
InFocus ==
  LET brought(p) == partition[p].todo \cup partition[p].ev
  IN CASE focus = "race" -> create[e2] = "new"
       [] focus = "created" -> /\ e1 \notin finalizedFlag
                               /\ \A p \in Partitions : partition[p] = Idle \/ (p = p1 /\ e1 \notin brought(p))
       [] focus = "pair" -> \A p \in Partitions : partition[p] = Idle \/ (p = p1 /\ e2 \notin brought(p))

MCInit == Init /\ BatchInit /\ focus \in {"race", "created", "pair", "batches"}

MCNext ==
  \/ focus # "batches" /\ Next /\ UNCHANGED <<batchVars, focus>> /\ InFocus'
  \/ focus = "batches" /\ BatchNext /\ UNCHANGED <<vars, focus>>

\* The fairness of both; what is fair in the one is never enabled in the other.
MCSpec ==
  /\ MCInit /\ [][MCNext]_<<vars, batchVars, focus>>
  /\ FlowFairness /\ BatchFairness
=============================================================================
