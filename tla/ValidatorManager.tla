-------------------------- MODULE ValidatorManager --------------------------
(***************************************************************************)
(* The ValidatorManager (consensus/validator_manager.go) over DPoS and the   *)
(* stake Lachesis keeps per node.  A call that changes a stake holds the    *)
(* manager's locks to its end and calls DPoS and Lachesis on the way, where  *)
(* others may come between: SetSetSize, whose size the manager reads, the    *)
(* gossip of Lachesis, and a recovery of the hybrid consensus, which restores *)
(* the stakes of Lachesis behind the manager's back.  Epochs, saved states    *)
(* and misbehaviour of DPoS never reach the manager; they are in DPoSNext.    *)
(***************************************************************************)
EXTENDS DPoS

CONSTANTS EpochRewards   \* what one validator may get from the manager in one epoch

ASSUME EpochRewardAssumption == EpochRewards \subseteq Nat

VARIABLES
  status, stake, active,          \* validators and activeValidators
  totalStake, activeTotalStake,
  call,                           \* the call in progress
  node,                           \* the stake Lachesis has per node, NoNode when unknown
  nodeState,                      \* the stakes in the state Lachesis saved last
  back                            \* nodes whose stake a restore has changed and nobody since
managerVars == <<status, stake, active, totalStake, activeTotalStake>>
lachesisVars == <<node, nodeState, back>>
vars == <<managerVars, call, lachesisVars, dposVars>>

NoNode == -1
NoCall == [op |-> "none", v |-> {}]
Known == {v \in V : status[v] # "absent"}

ManagerInit ==
  /\ status = [v \in V |-> "absent"] /\ stake = NoStake /\ active = {}
  /\ totalStake = 0 /\ activeTotalStake = 0 /\ call = NoCall
  /\ node = [v \in V |-> NoNode] /\ nodeState = node /\ back = {}

\* updateActiveValidators, with the set size DPoS has at the moment.
UpdateActive(st, f) ==
  \E T \in Tops({v \in V : st[v] = "Active"}, f, maxSetSize) :
    active' = T /\ activeTotalStake' = Sum(f, T)

\* Bug: a validator that exists is added again.
AddValidator_Again(v, s) ==
  /\ call = NoCall /\ s > 0
  /\ status' = [status EXCEPT ![v] = "Inactive"]
  /\ stake' = [stake EXCEPT ![v] = s]
  /\ totalStake' = totalStake + s
  /\ call' = [op |-> "addDPoS", v |-> {v}]
  /\ totalStake < 2 * MaxStake
  /\ UNCHANGED <<active, activeTotalStake, dposVars, lachesisVars>>

\* AddValidator up to the call of DPoS.
AddValidator(v, s) ==
  /\ call = NoCall /\ status[v] = "absent" /\ s > 0
  /\ status' = [status EXCEPT ![v] = "Inactive"]
  /\ stake' = [stake EXCEPT ![v] = s]
  /\ totalStake' = totalStake + s
  /\ call' = [op |-> "addDPoS", v |-> {v}]
  /\ UNCHANGED <<active, activeTotalStake, dposVars, lachesisVars>>

UpdateStake(v, s) ==
  /\ call = NoCall /\ v \in Known /\ s > 0
  /\ stake' = [stake EXCEPT ![v] = s]
  /\ totalStake' = totalStake - stake[v] + s
  /\ activeTotalStake' = IF status[v] = "Active" THEN activeTotalStake - stake[v] + s ELSE activeTotalStake
  /\ call' = [op |-> "updateDPoS", v |-> {v}]
  /\ UNCHANGED <<status, active, dposVars, lachesisVars>>

\* The status is changed before it is asked for, so activeTotalStake waits for
\* updateActiveValidators.
SlashValidator(v, amount) ==
  LET lost == Min({amount, stake[v]})
  IN /\ call = NoCall /\ v \in Known
     /\ stake' = [stake EXCEPT ![v] = @ - lost]
     /\ status' = [status EXCEPT ![v] = "Slashed"]
     /\ totalStake' = totalStake - lost
     /\ call' = [op |-> "updateDPoS", v |-> {v}]
     /\ UNCHANGED <<active, activeTotalStake, dposVars, lachesisVars>>

\* The call of DPoS, under the locks of the manager.
CallDPoS ==
  /\ \E v \in call.v :
       \/ call.op = "addDPoS" /\ DPoSAddValidator(v, stake[v])
       \/ call.op = "updateDPoS" /\ DPoSUpdateStake(v, stake[v])
  /\ call' = [call EXCEPT !.op = IF @ = "addDPoS" THEN "addNode" ELSE "updateNode"]
  /\ UNCHANGED <<managerVars, lachesisVars>>

\* Bug: Lachesis hears of new validators only.
CallLachesis_AddOnly ==
  /\ call.op \in {"addNode", "updateNode"}
  /\ \E v \in call.v : IF call.op = "addNode" THEN node' = [node EXCEPT ![v] = stake[v]] ELSE UNCHANGED node
  /\ UpdateActive(status, stake)
  /\ call' = NoCall
  /\ UNCHANGED <<status, stake, totalStake, dposVars, nodeState, back>>

\* AddNode and UpdateNodeStake of Lachesis, then the active set.
CallLachesis ==
  /\ call.op \in {"addNode", "updateNode"}
  /\ \E v \in call.v :
       IF call.op = "addNode" \/ node[v] # NoNode
       THEN node' = [node EXCEPT ![v] = stake[v]] /\ back' = back \ {v}
       ELSE UNCHANGED <<node, back>>
  /\ UpdateActive(status, stake)
  /\ call' = NoCall
  /\ UNCHANGED <<status, stake, totalStake, dposVars, nodeState>>

\* A checkpoint, or the backup a recovery makes, saves the nodes of Lachesis.
SaveLachesis ==
  /\ nodeState' = node
  /\ UNCHANGED <<managerVars, call, dposVars, node, back>>

\* A recovery or its rollback restores them.
RestoreLachesis ==
  /\ node' = nodeState /\ back' = back \cup {v \in V : node[v] # nodeState[v]}
  /\ UNCHANGED <<managerVars, call, dposVars, nodeState>>

\* Gossip from a peer the restored DAG does not have adds it with a stake of 1.
GossipAddsNode(v) ==
  /\ v \in Known \ call.v /\ node[v] = NoNode
  /\ node' = [node EXCEPT ![v] = 1]
  /\ UNCHANGED <<managerVars, call, dposVars, nodeState, back>>

SetStatus(v, from, to) ==
  /\ call = NoCall /\ status[v] \in from
  /\ status' = [status EXCEPT ![v] = to]
  /\ UNCHANGED <<stake, totalStake, call, dposVars, lachesisVars>>

ActivateValidator(v) == SetStatus(v, {"Inactive"}, "Active") /\ UpdateActive(status', stake)

DeactivateValidator(v) ==
  SetStatus(v, {"Active", "Slashed", "Jailed"}, "Inactive") /\ UpdateActive(status', stake)

JailValidator(v) ==
  SetStatus(v, {"Active", "Inactive", "Slashed"}, "Jailed") /\ UpdateActive(status', stake)

UnjailValidator(v) ==
  SetStatus(v, {"Jailed"}, "Inactive") /\ UNCHANGED <<active, activeTotalStake>>

\* ProcessEpoch at a boundary: rewards to the active list, into the manager's
\* stakes alone.
ProcessEpoch ==
  /\ call = NoCall
  /\ \E r \in IF activeTotalStake = 0 THEN {[v \in {} |-> 0]} ELSE [active -> EpochRewards] :
       LET paid == [v \in V |-> IF v \in DOMAIN r THEN stake[v] + r[v] ELSE stake[v]]
       IN /\ \A v \in V : paid[v] <= MaxStake
          /\ stake' = paid
          /\ totalStake' = totalStake + Sum(r, DOMAIN r)
          /\ UpdateActive(status, paid)
  /\ UNCHANGED <<status, call, dposVars, lachesisVars>>

ManagerNext ==
  \/ \E v \in V, s \in Stakes : AddValidator(v, s) \/ UpdateStake(v, s) \/ SlashValidator(v, s)
  \/ \E v \in V : ActivateValidator(v) \/ DeactivateValidator(v) \/ JailValidator(v) \/ UnjailValidator(v)
  \/ CallDPoS \/ CallLachesis \/ ProcessEpoch
  \/ \E n \in SetSizes : SetSetSize(n) /\ UNCHANGED <<managerVars, call, lachesisVars>>
  \/ SaveLachesis \/ RestoreLachesis
  \/ \E v \in V : GossipAddsNode(v)

Spec == ManagerInit /\ DPoSInit /\ [][ManagerNext]_vars

-----------------------------------------------------------------------------
\* Type correctness: no stake and no total a caller can read goes below zero,
\* where the code's unsigned integers wrap around.  Inside UpdateStake the
\* active total may, until updateActiveValidators sets it anew.
ManagerTypeOK ==
  /\ status \in [V -> {"absent", "Active", "Inactive", "Slashed", "Jailed"}]
  /\ stake \in [V -> Nat] /\ totalStake \in Nat
  /\ activeTotalStake \in Int /\ (call = NoCall => activeTotalStake >= 0)
  /\ active \subseteq V /\ node \in [V -> Nat \cup {NoNode}] /\ back \subseteq V

\* Neither side's unsigned stakes and totals wrap around.
TypeOK == ManagerTypeOK /\ DPoSTypeOK

\* When no call is in progress the totals the manager keeps beside its map are
\* the sums over the map and over the active list, which GetTotalStake and the
\* shares of the epoch rewards rest on.
ManagerStakesAdd ==
  call = NoCall => totalStake = Sum(stake, V) /\ activeTotalStake = Sum(stake, active)

\* Lachesis votes with no more stake than the manager has for a validator: slashing
\* reaches it, epoch rewards do not.  A recovery alone undoes that, since it brings
\* back the stakes of an earlier state and the manager is not asked; the next
\* change of the validator's stake ends it.
VoteCovered == call = NoCall => \A v \in Known \ back : node[v] <= stake[v]
=============================================================================
