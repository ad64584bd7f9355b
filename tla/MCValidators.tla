---------------------------- MODULE MCValidators ----------------------------
(***************************************************************************)
(* Two validators with small stakes and active sets of one or two.  Every   *)
(* behaviour studies one of four specifications: ValidatorManager (with the  *)
(* calls it makes of DPoS), DPoS with all its callers, Governance over DPoS,  *)
(* or the locks of DPoS, so that their state spaces add up instead of         *)
(* multiplying.  DPoS is studied with one saved state and everything else,    *)
(* and with any number of saved states and equal stakes.                      *)
(***************************************************************************)
EXTENDS ValidatorManager, Governance, DPoSLocks, TLC

CONSTANTS v1, v2, p1

VARIABLE focus   \* the specification this behaviour studies

MCChanges == {[kind |-> "setSize", size |-> 1], [kind |-> "upgrade"]}

\* Which saved states and stakes take part.
InFocus ==
  CASE focus = "dpos" -> taking.pc = "none" \/ snap.pc = "none"
    [] focus = "states" -> misbehavior = NoStake /\ \A v \in V : dStake[v] <= 1

MCInit ==
  /\ ManagerInit /\ DPoSInit /\ GovernanceInit /\ LockInit
  /\ focus \in {"manager", "dpos", "states", "governance", "locks"}

MCNext ==
  \/ focus = "manager" /\ ManagerNext /\ UNCHANGED <<govVars, lockVars, focus>>
  \/ focus \in {"dpos", "states"} /\ DPoSNext /\ UNCHANGED <<managerVars, call, lachesisVars, govVars, lockVars, focus>> /\ InFocus'
  \/ focus = "governance" /\ GovernanceNext /\ UNCHANGED <<managerVars, call, lachesisVars, lockVars, focus>>
  \/ focus = "locks" /\ LockNext /\ UNCHANGED <<vars, govVars, focus>>

MCSpec == MCInit /\ [][MCNext]_<<vars, govVars, lockVars, focus>>

Symmetry == Permutations({v1, v2})
=============================================================================
