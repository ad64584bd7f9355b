-------------------------- MODULE MCHybridConsensus --------------------------
(***************************************************************************)
(* Two goroutines, a checkpoint at every block, so that the third one meets *)
(* the lock it holds.  A behaviour studies the blocks with everything that  *)
(* may come from outside, or one block more without the ticks and changes   *)
(* from outside, with PoH as a counter in both, or the hash chain of PoH    *)
(* with those who read it, or the calls of HandleError, so that the state   *)
(* spaces add up instead of multiplying.                                    *)
(***************************************************************************)
EXTENDS HybridConsensus, PoH, RecoveryManager

CONSTANTS w1, w2, e1, e2, r1, k1, k2

MCStrategy == [e \in Codes |-> "retry"]

VARIABLE focus   \* what this behaviour studies

MCInit == Init /\ PoHInit /\ RMInit /\ focus \in {"blocks", "longer", "poh", "errors"}

InFocus ==
  \/ focus = "blocks" /\ attempts' < MaxAttempts
  \/ focus = "longer" /\ ~Tick /\ ~Outside

MCNext ==
  \/ Next /\ InFocus /\ UNCHANGED <<pohVars, rmVars, focus>>
  \/ focus = "poh" /\ PoHNext /\ UNCHANGED <<vars, rmVars, focus>>
  \/ focus = "errors" /\ RMNext /\ UNCHANGED <<vars, pohVars, focus>>

\* The fairness of FairSpec; none of the fair steps is enabled in the other behaviours.
MCSpec ==
  /\ MCInit /\ [][MCNext]_<<vars, pohVars, rmVars, focus>>
  /\ WF_vars(LoopStep /\ InFocus)
  /\ \A w \in W : WF_vars(WorkerStep(w))
  /\ \A a \in Actors : WF_vars(RecoverStep(a))
=============================================================================
