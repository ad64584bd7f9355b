-------------------------------- MODULE DPoS --------------------------------
(***************************************************************************)
(* The DPoS engine (consensus/diamantepos/diamantepos.go): its validators,  *)
(* the active set of the highest scores and the totals kept beside them.    *)
(* An operation holds every lock it needs to its end, except GetState, which *)
(* takes three locks one after the other.                                   *)
(***************************************************************************)
EXTENDS ValidatorSet

CONSTANTS
  TotalRewards,      \* values of calculateTotalReward
  PenaltyDivisor,    \* 100 in calculatePenalty
  MisbehaviorCounts  \* counts given to InjectMisbehaviorCount, 0 included

ASSUME RewardAssumption == TotalRewards \subseteq Nat /\ PenaltyDivisor \in Nat \ {0}
ASSUME CountAssumption == MisbehaviorCounts \subseteq Nat /\ 0 \in MisbehaviorCounts

VARIABLES
  dStake, dKnown, dActive,  \* validators and activeValidators
  dTotal, dActiveTotal,     \* totalStake and activeTotalStake
  misbehavior,              \* MisbehaviorCount
  maxSetSize,
  taking,                   \* GetState in progress
  snap,                     \* the state it returned last
  torn,                     \* the last RestoreState failed half-way
  emptied                   \* a state without validators was restored
engineVars == <<dStake, dKnown, dActive, dTotal, dActiveTotal, misbehavior, maxSetSize, torn, emptied>>
snapVars == <<taking, snap>>
dposVars == <<engineVars, snapVars>>

NoStake == [v \in V |-> 0]
NoSnap == [pc |-> "none", known |-> {}, stake |-> NoStake, count |-> NoStake, active |-> {}, size |-> 0]

DPoSInit ==
  /\ dStake = NoStake /\ dKnown = {} /\ dActive = {} /\ dTotal = 0 /\ dActiveTotal = 0
  /\ misbehavior = NoStake /\ maxSetSize \in SetSizes
  /\ taking = NoSnap /\ snap = NoSnap /\ torn = FALSE /\ emptied = FALSE

\* updateActiveValidators, with the stakes and validators the caller has set.
UpdateDPoSActive(known, f, size) ==
  \E T \in Tops(known, f, size) : dActive' = T /\ dActiveTotal' = Sum(f, T)

\* A validator that is known keeps its stake.
DPoSAddValidator(v, s) ==
  /\ dKnown' = dKnown \cup {v}
  /\ IF v \in dKnown
     THEN UNCHANGED <<dStake, dTotal, misbehavior>>
     ELSE /\ dStake' = [dStake EXCEPT ![v] = s]
          /\ dTotal' = dTotal + s
          /\ misbehavior' = [misbehavior EXCEPT ![v] = 0]
  /\ UpdateDPoSActive(dKnown', dStake', maxSetSize)
  /\ UNCHANGED <<maxSetSize, torn, emptied, snapVars>>

\* An unknown validator is only logged.
DPoSUpdateStake(v, s) ==
  /\ IF v \in dKnown
     THEN /\ dTotal' = dTotal - dStake[v] + s
          /\ dStake' = [dStake EXCEPT ![v] = s]
          /\ UpdateDPoSActive(dKnown, dStake', maxSetSize)
     ELSE UNCHANGED <<dTotal, dStake, dActive, dActiveTotal>>
  /\ UNCHANGED <<dKnown, misbehavior, maxSetSize, torn, emptied, snapVars>>

\* calculatePenalty, never more than the stake.
Penalty(v) == Min({dStake[v], (dStake[v] \div PenaltyDivisor) * misbehavior[v]})

\* The orders in which the sort may leave T.
Orders(T, f) ==
  {q \in [1..Cardinality(T) -> T] :
     \A i, j \in DOMAIN q : i < j => q[i] # q[j] /\ 10 * f[q[i]] >= f[q[j]]}

\* distributeRewards in the order q: every reward adds to the divisor of the next.
Reward(q, f, total) ==
  LET div[i \in 0..Len(q)] ==
        IF i = 0 THEN Sum(f, {q[k] : k \in DOMAIN q})
        ELSE div[i - 1] + (total * f[q[i]]) \div div[i - 1]
  IN [v \in V |-> Sum([i \in DOMAIN q |-> IF q[i] = v THEN div[i] - div[i - 1] ELSE 0], DOMAIN q)]

\* ProcessEpoch at a boundary: penalties, the active set, then rewards for the
\* active set when nobody lost stake.
DPoSProcessEpoch ==
  LET slashed == [v \in V |-> IF v \in dKnown THEN dStake[v] - Penalty(v) ELSE dStake[v]]
      lost == Sum([v \in V |-> Penalty(v)], dKnown)
  IN /\ \E T \in Tops(dKnown, slashed, maxSetSize), total \in TotalRewards : \E q \in Orders(T, slashed) :
          LET r == IF lost = 0 /\ Sum(slashed, T) > 0 THEN Reward(q, slashed, total) ELSE [v \in V |-> 0]
          IN /\ \A v \in V : slashed[v] + r[v] <= MaxStake
             /\ dActive' = T
             /\ dStake' = [v \in V |-> slashed[v] + r[v]]
             /\ dTotal' = dTotal - lost + Sum(r, T)
             /\ dActiveTotal' = Sum(slashed, T) + Sum(r, T)
     /\ misbehavior' = [v \in V |-> IF v \in dKnown THEN 0 ELSE misbehavior[v]]
     /\ UNCHANGED <<dKnown, maxSetSize, torn, emptied, snapVars>>

SetSetSize(n) ==
  /\ maxSetSize' = n
  /\ UpdateDPoSActive(dKnown, dStake, n)
  /\ UNCHANGED <<dStake, dKnown, dTotal, misbehavior, torn, emptied, snapVars>>

InjectMisbehaviorCount(v, n) ==
  /\ v \in dKnown /\ misbehavior' = [misbehavior EXCEPT ![v] = n]
  /\ UNCHANGED <<dStake, dKnown, dActive, dTotal, dActiveTotal, maxSetSize, torn, emptied, snapVars>>

\* GetState copies the validators, the active set and the rest under three locks;
\* epochs, callers and a RestoreState of an earlier state come between.  Bound:
\* one GetState at a time, and only its last result is restored.
GetStateValidators ==
  /\ taking.pc = "none"
  /\ taking' = [NoSnap EXCEPT !.pc = "validators", !.known = dKnown, !.stake = dStake, !.count = misbehavior]
  /\ UNCHANGED <<engineVars, snap>>

GetStateActive ==
  /\ taking.pc = "validators"
  /\ taking' = [taking EXCEPT !.pc = "active", !.active = dActive]
  /\ UNCHANGED <<engineVars, snap>>

GetStateEpoch ==
  /\ taking.pc = "active"
  /\ snap' = [taking EXCEPT !.pc = "taken", !.size = maxSetSize]
  /\ taking' = NoSnap
  /\ UNCHANGED engineVars

\* Bug: the totals are kept from before.
RestoreState_KeepsTotals ==
  /\ snap.pc = "taken"
  /\ dKnown' = snap.known /\ dStake' = snap.stake /\ misbehavior' = snap.count
  /\ maxSetSize' = snap.size /\ dActive' = snap.active /\ torn' = FALSE
  /\ emptied' = (emptied \/ snap.known = {})
  /\ UNCHANGED <<dTotal, dActiveTotal, snapVars>>

\* Bug: an active validator the map does not have is passed over.
RestoreState_SkipsUnknown ==
  LET found == snap.active \cap snap.known
  IN /\ snap.pc = "taken"
     /\ dKnown' = snap.known /\ dStake' = snap.stake /\ misbehavior' = snap.count
     /\ maxSetSize' = snap.size /\ dActive' = found /\ torn' = FALSE
     /\ dTotal' = Sum(snap.stake, snap.known) /\ dActiveTotal' = Sum(snap.stake, found)
     /\ emptied' = (emptied \/ snap.known = {})
     /\ UNCHANGED snapVars

\* The validators are in place when an unknown active one ends the restore.
\* Bound: no restore fails when the last one did.
RestoreState ==
  /\ snap.pc = "taken"
  /\ dKnown' = snap.known /\ dStake' = snap.stake /\ misbehavior' = snap.count
  /\ maxSetSize' = snap.size
  /\ \/ /\ snap.active \subseteq snap.known
        /\ dActive' = snap.active /\ torn' = FALSE
        /\ dTotal' = Sum(snap.stake, snap.known) /\ dActiveTotal' = Sum(snap.stake, snap.active)
     \/ /\ ~(snap.active \subseteq snap.known)
        /\ ~torn /\ torn' = TRUE
        /\ UNCHANGED <<dActive, dTotal, dActiveTotal>>
  /\ emptied' = (emptied \/ snap.known = {})
  /\ UNCHANGED snapVars

DPoSNext ==
  \/ \E v \in V, s \in Stakes : DPoSAddValidator(v, s) \/ DPoSUpdateStake(v, s)
  \/ \E v \in V, n \in MisbehaviorCounts : InjectMisbehaviorCount(v, n)
  \/ \E n \in SetSizes : SetSetSize(n)
  \/ DPoSProcessEpoch
  \/ GetStateValidators \/ GetStateActive \/ GetStateEpoch \/ RestoreState

DPoSSpec == DPoSInit /\ [][DPoSNext]_dposVars

-----------------------------------------------------------------------------
\* Type correctness: no stake and no total goes below zero, where the unsigned
\* integers of the code wrap around.  After a restore that failed half-way the
\* old total stands beside the new stakes and may.
DPoSTypeOK ==
  /\ dKnown \subseteq V /\ dActive \subseteq V
  /\ dStake \in [V -> Nat] /\ misbehavior \in [V -> Nat]
  /\ dActiveTotal \in Nat /\ dTotal \in Int /\ (~torn => dTotal >= 0)
  /\ maxSetSize \in SetSizes /\ torn \in BOOLEAN /\ emptied \in BOOLEAN

\* The totals of DPoS are the sums over its validators after every epoch, change
\* of stake and restored snapshot, unless the restore failed half-way: what
\* GetTotalStake gives to governance as the stake that can vote.
DPoSStakesAdd ==
  ~torn => dTotal = Sum(dStake, dKnown) /\ dActiveTotal = Sum(dStake, dActive)

\* Whoever comes between the steps of GetState, a restore of an earlier state
\* included, a DPoS with validators has an active one, so that GetNextValidator
\* finds a block producer; unless a state from before the first validator was
\* restored, after which a copy of some validators and no active one may be.
ProducerAvailable == ~emptied /\ dKnown # {} => dActive # {}
=============================================================================
