------------------------ MODULE MCCheckpointManager ------------------------
(* Instances of CheckpointManager for TLC.                                  *)
EXTENDS CheckpointManager, TLC

CONSTANTS lachesis, poh

(* The callers of CreateCheckpoint are interchangeable.                     *)
CallerSymmetry == Permutations(Caller)
=============================================================================
