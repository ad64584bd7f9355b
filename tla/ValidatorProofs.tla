--------------------------- MODULE ValidatorProofs ---------------------------
(***************************************************************************)
(* Theorems about the validators: the locks of DPoS, the stakes and the      *)
(* active set of DPoS, the accounts the ValidatorManager keeps beside it,    *)
(* and the tally of a proposal.  Manager and governance use the actions of   *)
(* DPoS, so there is one lemma per action of DPoS, for any stake, which the  *)
(* three specifications share.                                              *)
(***************************************************************************)
EXTENDS ValidatorManager, Governance, DPoSLocks, FiniteTheorems, SequenceTheorems

-----------------------------------------------------------------------------
(* The locks of DPoS.                                                        *)

Methods == {"AddValidator", "UpdateStake", "ProcessEpoch", "SetSetSize", "RestoreState", "none"}

(* A call has taken some of the locks of its method, from the first on.      *)
CallTaken(call_) == call_.taken <= Len(Locks[call_.method])
LocksInv ==
  /\ lcall \in [LockCallers -> [method : Methods, taken : 0..4]]
  /\ \A c \in LockCallers : CallTaken(lcall[c])

(* The order in which every method but RestoreState takes its locks.         *)
Rank(lock) == CASE lock = "epochMu" -> 0 [] lock = "validatorsMu" -> 1
                [] lock = "stakeMu" -> 2 [] lock = "activeValidatorsMu" -> 3

(* The lists of locks are as long as they look.                             *)
LEMMA LockLists ==
    /\ DOMAIN Locks = Methods
    /\ Locks["none"] = <<>> /\ Len(Locks["none"]) = 0
    /\ \A m \in {"AddValidator", "UpdateStake"} :
         /\ Len(Locks[m]) = 3
         /\ Locks[m] = <<"validatorsMu", "stakeMu", "activeValidatorsMu">>
    /\ \A m \in {"ProcessEpoch", "SetSetSize"} :
         /\ Len(Locks[m]) = 4
         /\ Locks[m] = <<"epochMu", "validatorsMu", "stakeMu", "activeValidatorsMu">>
    /\ Len(Locks["RestoreState"]) = 4
    /\ Locks["RestoreState"] = <<"validatorsMu", "activeValidatorsMu", "epochMu", "stakeMu">>
  BY DEF Locks, Methods, AddValidatorLocks, UpdateStakeLocks, ProcessEpochLocks, SetSetSizeLocks,
         RestoreStateLocks

(* No method takes more than the four of them.                              *)
LEMMA LockLengths == \A m \in Methods : Len(Locks[m]) \in 0..4
<1> TAKE m \in Methods
<1>1. CASE m \in {"AddValidator", "UpdateStake"}
  <2>1. Len(Locks[m]) = 3
    BY <1>1, LockLists, Zenon
  <2> QED BY <2>1
<1>2. CASE m \in {"ProcessEpoch", "SetSetSize"}
  <2>1. Len(Locks[m]) = 4
    BY <1>2, LockLists, Zenon
  <2> QED BY <2>1
<1>3. CASE m = "RestoreState"
  <2>1. Len(Locks[m]) = 4
    BY <1>3, LockLists, Zenon
  <2> QED BY <2>1
<1>4. CASE m = "none"
  <2>1. Len(Locks[m]) = 0
    BY <1>4, LockLists, Zenon
  <2> QED BY <2>1
<1> QED BY <1>1, <1>2, <1>3, <1>4 DEF Methods

(* The two fields of a call, one of them changed.                           *)
LEMMA CallFields ==
    ASSUME NEW rec \in [method : Methods, taken : 0..4]
    PROVE  /\ \A t : [rec EXCEPT !.taken = t] = [method |-> rec.method, taken |-> t]
           /\ \A m : [rec EXCEPT !.method = m] = [method |-> m, taken |-> rec.taken]
  OBVIOUS

(* Every call keeps to the locks of its method: an invariant of LockSpec.    *)
LEMMA LocksInvariant == LockSpec => []LocksInv
<1>1. LockInit => LocksInv
  BY LockLists DEF LockInit, LocksInv, CallTaken, NotCalling, Methods
<1>2. LocksInv /\ [LockNext]_lockVars => LocksInv'
  <2> SUFFICES ASSUME LocksInv, [LockNext]_lockVars PROVE LocksInv'
    OBVIOUS
  <2>1. CASE UNCHANGED lockVars
    BY <2>1 DEF LocksInv, lockVars
  <2>2. ASSUME NEW c \in LockCallers, TakeLock(c) PROVE LocksInv'
    <3>1. lcall[c].method \in Methods /\ lcall[c].taken \in 0..4
      BY DEF LocksInv
    <3>2. Len(Locks[lcall[c].method]) \in 0..4
      BY <3>1, LockLengths
    <3>3. lcall[c].taken + 1 <= Len(Locks[lcall[c].method])
      BY <2>2, <3>1, <3>2 DEF TakeLock, Waiting, LocksOf
    <3>4. lcall' = [lcall EXCEPT ![c] = [method |-> lcall[c].method, taken |-> lcall[c].taken + 1]]
      <4>1. lcall' = [lcall EXCEPT ![c] = [lcall[c] EXCEPT !.taken = lcall[c].taken + 1]]
        BY <2>2 DEF TakeLock
      <4>2. lcall[c] \in [method : Methods, taken : 0..4]
        BY DEF LocksInv
      <4> QED BY <4>1, <4>2, CallFields
    <3> DEFINE rec == [method |-> lcall[c].method, taken |-> lcall[c].taken + 1]
    <3>5. rec \in [method : Methods, taken : 0..4] /\ CallTaken(rec)
      <4>1. rec.method = lcall[c].method /\ rec.taken = lcall[c].taken + 1
        OBVIOUS
      <4>2. lcall[c].taken + 1 \in 0..4
        <5> DEFINE t == lcall[c].taken
                   n == Len(Locks[lcall[c].method])
        <5>1. t \in 0..4 /\ n \in 0..4 /\ t + 1 <= n
          BY <3>1, <3>2, <3>3, Zenon
        <5> HIDE DEF t, n
        <5>2. t + 1 \in 0..4
          BY <5>1
        <5> QED BY <5>2 DEF t
      <4>3. rec \in [method : Methods, taken : 0..4]
        BY <3>1, <4>2
      <4> HIDE DEF rec
      <4> QED BY <3>3, <4>1, <4>3, Zenon DEF CallTaken
    <3>6. lcall' = [lcall EXCEPT ![c] = rec]
      BY <3>4
    <3> HIDE DEF rec
    <3> QED BY <3>5, <3>6 DEF LocksInv
  <2>3. ASSUME NEW c \in LockCallers, Leave(c) PROVE LocksInv'
    <3>1. NotCalling \in [method : Methods, taken : 0..4]
      BY DEF NotCalling, Methods
    <3>2. CallTaken(NotCalling)
      BY LockLists DEF CallTaken, NotCalling
    <3>3. lcall' = [lcall EXCEPT ![c] = NotCalling]
      BY <2>3 DEF Leave
    <3> QED BY <3>1, <3>2, <3>3 DEF LocksInv
  <2>4. ASSUME NEW c \in LockCallers, NEW method \in DOMAIN Locks \ {"none"}, Enter(c, method)
        PROVE  LocksInv'
    <3>1. lcall' = [lcall EXCEPT ![c] = [method |-> method, taken |-> 0]]
      <4>1. lcall' = [lcall EXCEPT ![c] = [lcall[c] EXCEPT !.method = method]]
        BY <2>4 DEF Enter
      <4>2. lcall[c] \in [method : Methods, taken : 0..4] /\ lcall[c].taken = 0
        BY <2>4 DEF LocksInv, Enter, NotCalling
      <4> QED BY <4>1, <4>2, CallFields
    <3>2. method \in Methods /\ 0 <= Len(Locks[method])
      <4>1. method \in Methods
        BY LockLists, Zenon
      <4> QED BY <4>1, LockLengths
    <3> QED BY <3>1, <3>2 DEF LocksInv, CallTaken
  <2> QED BY <2>1, <2>2, <2>3, <2>4 DEF LockNext
<1> QED BY <1>1, <1>2, PTL DEF LockSpec

(* A goroutine waits for a lock that ranks above all it holds, unless it      *)
(* restores and has got as far as epochMu.                                   *)
LEMMA WaitsUpwards ==
    ASSUME LocksInv, NEW c \in LockCallers, Waiting(c),
           lcall[c].method = "RestoreState" => NextLock(c) # "epochMu" /\ "epochMu" \notin Held(c)
    PROVE  /\ Rank(NextLock(c)) \in 0..3
           /\ \A lock \in Held(c) : Rank(lock) < Rank(NextLock(c))
<1> DEFINE m == lcall[c].method
           t == lcall[c].taken
<1>1. m \in Methods /\ t \in 0..4 /\ t < Len(Locks[m])
  BY DEF LocksInv, Waiting, LocksOf
<1>2. NextLock(c) = Locks[m][t + 1] /\ \A lock \in Held(c) : \E i \in 1..t : lock = Locks[m][i]
  BY DEF NextLock, Held, LocksOf
<1>3. \A i \in 1..t : Locks[m][i] \in Held(c)
  BY DEF Held, LocksOf
<1>4. m = "RestoreState" => NextLock(c) # "epochMu" /\ "epochMu" \notin Held(c)
  OBVIOUS
<1> HIDE DEF m, t
<1>5. m # "none"
  BY <1>1, LockLists
<1>6. CASE m \in {"AddValidator", "UpdateStake"}
  <2>1. Len(Locks[m]) = 3 /\ Locks[m] = <<"validatorsMu", "stakeMu", "activeValidatorsMu">>
    BY <1>6, LockLists, Zenon
  <2>2. t \in {0, 1, 2}
    BY <1>1, <2>1
  <2> QED BY <1>2, <2>1, <2>2 DEF Rank
<1>7. CASE m \in {"ProcessEpoch", "SetSetSize"}
  <2>1. Len(Locks[m]) = 4 /\ Locks[m] = <<"epochMu", "validatorsMu", "stakeMu", "activeValidatorsMu">>
    BY <1>7, LockLists, Zenon
  <2>2. t \in {0, 1, 2, 3}
    BY <1>1, <2>1
  <2> QED BY <1>2, <2>1, <2>2 DEF Rank
<1>8. CASE m = "RestoreState"
  <2>1. Locks[m] = <<"validatorsMu", "activeValidatorsMu", "epochMu", "stakeMu">> /\ t \in {0, 1, 2, 3}
    BY <1>1, <1>8, LockLists
  <2>2. t # 2
    BY <1>2, <1>4, <1>8, <2>1
  <2>3. t # 3
    BY <1>3, <1>4, <1>8, <2>1
  <2> QED BY <1>2, <2>1, <2>2, <2>3 DEF Rank
<1> QED BY <1>1, <1>5, <1>6, <1>7, <1>8 DEF Methods

(* There are few ranks.                                                     *)
LEMMA FewRanks == IsFiniteSet(0..3)
<1>1. \A n \in Nat : IsFiniteSet(0..n)
  BY FS_Interval
<1>2. 3 \in Nat
  OBVIOUS
<1> QED BY <1>1, <1>2, Zenon

(* Goroutines in a circle of waiting, all of whose locks rank upwards, have a *)
(* member that waits for the highest lock, which another of them holds and    *)
(* waits for a higher one.                                                   *)
LEMMA NoCircle ==
    ASSUME NEW S, S \subseteq LockCallers, Stuck(S),
           \A c \in S : /\ Rank(NextLock(c)) \in 0..3
                        /\ \A lock \in Held(c) : Rank(lock) < Rank(NextLock(c))
    PROVE  FALSE
<1> DEFINE R == {Rank(NextLock(c)) : c \in S}
           f == [r \in R |-> r]
<1>1. R \in SUBSET (0..3) /\ R # {} /\ \A r \in R : f[r] = r
  BY DEF Stuck
<1>2. IsFiniteSet(R)
  <2> HIDE DEF R
  <2> QED BY <1>1, FewRanks, FS_Subset
<1>3. PICK high \in R : \A r \in R : r <= high
  <2> HIDE DEF f, R
  <2>1. \A r \in R : f[r] \in Int
    BY <1>1
  <2>2. \E x \in R : \A y \in R : f[y] <= f[x]
    BY <1>1, <1>2, <2>1, HighestOf
  <2> QED BY <1>1, <2>2
<1>4. PICK c \in S : high = Rank(NextLock(c))
  OBVIOUS
<1>5. PICK d \in S : NextLock(c) \in Held(d)
  BY DEF Stuck
<1>6. high < Rank(NextLock(d)) /\ Rank(NextLock(d)) \in R
  BY <1>4, <1>5
<1>7. Rank(NextLock(d)) <= high /\ Rank(NextLock(d)) \in Int /\ high \in Int
  <2> HIDE DEF R
  <2> QED BY <1>1, <1>3, <1>6
<1> QED BY <1>6, <1>7

(* However many goroutines call DPoS, they wait for each other only when one  *)
(* of them is in RestoreState and another holds epochMu.                     *)
THEOREM OnlyRestoreBlocks == LockSpec => []StuckNeedsRestore
<1>1. LocksInv => StuckNeedsRestore
  <2> SUFFICES ASSUME LocksInv, NEW S \in SUBSET LockCallers, Stuck(S)
               PROVE  /\ \E c \in S : lcall[c].method = "RestoreState"
                      /\ \E c \in S : "epochMu" \in Held(c)
    BY DEF StuckNeedsRestore
  <2>1. \A c \in S : Waiting(c)
    BY DEF Stuck
  <2>2. \E c \in S : lcall[c].method = "RestoreState"
    <3> SUFFICES ASSUME \A c \in S : lcall[c].method # "RestoreState" PROVE FALSE
      OBVIOUS
    <3>1. \A c \in S : /\ Rank(NextLock(c)) \in 0..3
                       /\ \A lock \in Held(c) : Rank(lock) < Rank(NextLock(c))
      BY <2>1, WaitsUpwards
    <3> QED BY <3>1, NoCircle
  <2>3. \E c \in S : "epochMu" \in Held(c)
    <3> SUFFICES ASSUME \A c \in S : "epochMu" \notin Held(c) PROVE FALSE
      OBVIOUS
    <3>1. \A c \in S : NextLock(c) # "epochMu"
      BY DEF Stuck
    <3>2. \A c \in S : /\ Rank(NextLock(c)) \in 0..3
                       /\ \A lock \in Held(c) : Rank(lock) < Rank(NextLock(c))
      BY <2>1, <3>1, WaitsUpwards
    <3> QED BY <3>2, NoCircle
  <2> QED BY <2>2, <2>3
<1> QED BY <1>1, LocksInvariant, PTL

-----------------------------------------------------------------------------
(* The stakes and the active set of DPoS.                                    *)

(* Types, with the stakes and totals no call can push below zero.            *)
EngineShape ==
  /\ dKnown \in SUBSET V /\ dActive \in SUBSET V
  /\ dStake \in [V -> Nat] /\ misbehavior \in [V -> Nat]
  /\ dTotal \in Int /\ dActiveTotal \in Nat
  /\ maxSetSize \in SetSizes /\ torn \in BOOLEAN /\ emptied \in BOOLEAN

(* Between calls, unless a restore failed half-way, the active validators are *)
(* known ones.                                                               *)
ActiveKnown == ~torn => dActive \subseteq dKnown

EngineInv == EngineShape /\ DPoSStakesAdd /\ ActiveKnown /\ ProducerAvailable

Saved(pcs) == [pc : pcs, known : SUBSET V, stake : [V -> Nat], count : [V -> Nat], active : SUBSET V, size : Nat]
SnapShape ==
  /\ taking \in Saved({"none", "validators", "active"}) /\ snap \in Saved({"none", "taken"})
  /\ snap.pc = "taken" => snap.size \in SetSizes

(* Until a state without validators is restored, DPoS has validators if any   *)
(* copy of its state has, and a finished copy with validators has an active   *)
(* one, although the two were taken under different locks.                    *)
NeverEmptied ==
  /\ dActive # {} => dKnown # {}
  /\ taking.known # {} => dKnown # {}
  /\ taking.active # {} => dKnown # {}
  /\ snap.known # {} => dKnown # {}
  /\ snap.active # {} => dKnown # {}
  /\ taking.pc = "active" /\ taking.known # {} => taking.active # {}
  /\ snap.known # {} => snap.active # {}

SnapInv == SnapShape /\ (~emptied => NeverEmptied)

DPoSInv == EngineInv /\ SnapInv

(* The sum over a set of validators.                                        *)
LEMMA StakeSum ==
    ASSUME NEW f \in [V -> Nat], NEW S \in SUBSET V
    PROVE  Sum(f, S) \in Nat /\ IsFiniteSet(S)
<1>1. IsFiniteSet(S)
  BY FS_Subset, SizeAssumption
<1>2. \A x \in S : f[x] \in Nat
  OBVIOUS
<1> QED BY <1>1, <1>2, SumNat DEF Sum

(* The highest of S are of S, and there are some if S has any.               *)
LEMMA TopsOf ==
    ASSUME NEW S \in SUBSET V, NEW f, NEW n \in SetSizes, NEW T \in Tops(S, f, n)
    PROVE  T \in SUBSET S /\ (S # {} => T # {})
<1>1. T \in SUBSET S /\ Cardinality(T) = Min({Cardinality(S), n})
  BY DEF Tops
<1>2. IsFiniteSet(S) /\ IsFiniteSet(T)
  BY <1>1, FS_Subset, SizeAssumption
<1>3. Cardinality(S) \in Nat /\ Cardinality(T) \in Nat /\ n \in Nat /\ n > 0
  BY <1>2, FS_CardinalityType, SizeAssumption
<1>4. ASSUME S # {} PROVE T # {}
  <2>1. Cardinality(S) > 0
    BY <1>2, <1>3, <1>4, FS_EmptySet
  <2> DEFINE k == Cardinality(S)
  <2>2. k \in Nat /\ k > 0
    BY <1>3, <2>1
  <2> HIDE DEF k
  <2>3. Min({k, n}) \in {k, n}
    <3>1. \E x \in {k, n} : \A y \in {k, n} : x <= y
      BY <1>3, <2>2
    <3> QED BY <3>1 DEF Min
  <2>4. Cardinality(T) > 0
    BY <1>1, <1>3, <2>2, <2>3 DEF k
  <2> QED BY <2>4, FS_EmptySet
<1> QED BY <1>1, <1>4

(* updateActiveValidators leaves a set that the other invariants ask for.    *)
LEMMA ActiveSet ==
    ASSUME NEW known \in SUBSET V, NEW f \in [V -> Nat], NEW n \in SetSizes, NEW T \in Tops(known, f, n)
    PROVE  /\ T \in SUBSET known /\ T \in SUBSET V /\ Sum(f, T) \in Nat
           /\ known # {} => T # {}
<1>1. T \in SUBSET known /\ (known # {} => T # {})
  BY TopsOf
<1> QED BY <1>1, StakeSum

(* A step that keeps the copies and loses no validator.                      *)
LEMMA SnapKept ==
    SnapInv /\ UNCHANGED <<snapVars, emptied>> /\ dKnown \subseteq dKnown' /\ (dActive' # {} => dKnown' # {})
      => SnapInv'
  BY DEF SnapInv, SnapShape, NeverEmptied, snapVars

(* One that leaves the validators and the active set alone too.              *)
LEMMA SnapUntouched ==
    SnapInv /\ UNCHANGED <<snapVars, emptied, dKnown, dActive>> => SnapInv'
  BY DEF SnapInv, SnapShape, NeverEmptied, snapVars

(* The initial state of DPoS.                                               *)
LEMMA DPoSInitial == DPoSInit => DPoSInv
<1> SUFFICES ASSUME DPoSInit PROVE DPoSInv
  OBVIOUS
<1>1. EngineShape /\ ActiveKnown /\ ProducerAvailable
  <2>1. NoStake \in [V -> Nat]
    BY DEF NoStake
  <2>2. torn \in BOOLEAN /\ emptied \in BOOLEAN
    BY DEF DPoSInit
  <2> QED BY <2>1, <2>2 DEF DPoSInit, EngineShape, ActiveKnown, ProducerAvailable
<1>2. DPoSStakesAdd
  BY SumEmpty DEF DPoSInit, DPoSStakesAdd, Sum
<1>3. NoStake \in [V -> Nat]
  BY DEF NoStake
<1>4. SnapInv
  <2>1. NoSnap \in Saved({"none", "validators", "active"}) /\ NoSnap \in Saved({"none", "taken"})
    BY <1>3 DEF NoSnap, Saved
  <2>2. NoSnap.pc = "none" /\ NoSnap.known = {} /\ NoSnap.active = {}
    BY DEF NoSnap
  <2> QED BY <2>1, <2>2 DEF SnapInv, SnapShape, NeverEmptied, DPoSInit
<1> QED BY <1>1, <1>2, <1>4 DEF DPoSInv, EngineInv

(* AddValidator of DPoS, for any stake.                                      *)
LEMMA DPoSAddKeeps ==
    ASSUME DPoSInv, NEW v \in V, NEW s \in Nat, DPoSAddValidator(v, s)
    PROVE  DPoSInv'
<1> USE DEF DPoSInv, EngineInv
<1>1. PICK T \in Tops(dKnown', dStake', maxSetSize) : dActive' = T /\ dActiveTotal' = Sum(dStake', T)
  BY DEF DPoSAddValidator, UpdateDPoSActive
<1>2. /\ dKnown' = dKnown \cup {v} /\ maxSetSize' = maxSetSize /\ torn' = torn /\ UNCHANGED <<snapVars, emptied>>
      /\ v \in dKnown => dStake' = dStake /\ dTotal' = dTotal /\ misbehavior' = misbehavior
      /\ v \notin dKnown => /\ dStake' = [dStake EXCEPT ![v] = s] /\ dTotal' = dTotal + s
                            /\ misbehavior' = [misbehavior EXCEPT ![v] = 0]
  BY DEF DPoSAddValidator
<1>3. dKnown' \in SUBSET V /\ dStake' \in [V -> Nat] /\ misbehavior' \in [V -> Nat] /\ dTotal' \in Int
  BY <1>2 DEF EngineShape
<1>4. /\ T \in SUBSET dKnown' /\ T \in SUBSET V /\ Sum(dStake', T) \in Nat /\ (dKnown' # {} => T # {})
  BY <1>1, <1>3, ActiveSet DEF EngineShape
<1>5. EngineShape' /\ ActiveKnown' /\ ProducerAvailable'
  BY <1>1, <1>2, <1>3, <1>4 DEF EngineShape, ActiveKnown, ProducerAvailable
<1>6. ~torn => dTotal' = Sum(dStake', dKnown')
  <2> SUFFICES ASSUME ~torn PROVE dTotal' = Sum(dStake', dKnown')
    OBVIOUS
  <2>1. dTotal = Sum(dStake, dKnown) /\ IsFiniteSet(dKnown)
    BY StakeSum DEF DPoSStakesAdd, EngineShape
  <2>2. CASE v \in dKnown
    <3>1. dKnown' = dKnown
      BY <1>2, <2>2
    <3> QED BY <1>2, <2>1, <2>2, <3>1
  <2>3. CASE v \notin dKnown
    <3>1. dStake'[v] = s /\ \A x \in dKnown : dStake'[x] = dStake[x]
      BY <1>2, <2>3 DEF EngineShape
    <3>2. Sum(dStake', dKnown) = Sum(dStake, dKnown)
      BY <2>1, <3>1, SumSame DEF Sum
    <3>3. Sum(dStake', dKnown \cup {v}) = Sum(dStake', dKnown) + dStake'[v]
      <4>1. \A x \in dKnown \cup {v} : dStake'[x] \in Int
        BY <1>3 DEF EngineShape
      <4> QED BY <2>1, <2>3, <4>1, SumAdd DEF Sum
    <3> QED BY <1>2, <2>1, <2>3, <3>1, <3>2, <3>3
  <2> QED BY <2>2, <2>3
<1>7. DPoSStakesAdd'
  BY <1>1, <1>2, <1>6 DEF DPoSStakesAdd
<1>8. SnapInv'
  BY <1>1, <1>2, <1>4, SnapKept
<1> QED BY <1>5, <1>7, <1>8

(* UpdateStake of DPoS, for any stake.                                       *)
LEMMA DPoSUpdateKeeps ==
    ASSUME DPoSInv, NEW v \in V, NEW s \in Nat, DPoSUpdateStake(v, s)
    PROVE  DPoSInv'
<1> USE DEF DPoSInv, EngineInv
<1>1. /\ dKnown' = dKnown /\ maxSetSize' = maxSetSize /\ torn' = torn /\ UNCHANGED <<snapVars, emptied>>
      /\ misbehavior' = misbehavior
  BY DEF DPoSUpdateStake
<1>3. CASE v \notin dKnown
  <2>1. dTotal' = dTotal /\ dStake' = dStake /\ dActive' = dActive /\ dActiveTotal' = dActiveTotal
    BY <1>3 DEF DPoSUpdateStake
  <2>2. SnapInv'
    BY <1>1, <2>1, SnapUntouched
  <2> QED BY <1>1, <2>1, <2>2 DEF EngineShape, ActiveKnown, ProducerAvailable, DPoSStakesAdd
<1>4. CASE v \in dKnown
  <2>1. PICK T \in Tops(dKnown, dStake', maxSetSize) : dActive' = T /\ dActiveTotal' = Sum(dStake', T)
    BY <1>4 DEF DPoSUpdateStake, UpdateDPoSActive
  <2>2. dTotal' = dTotal - dStake[v] + s /\ dStake' = [dStake EXCEPT ![v] = s]
    BY <1>4 DEF DPoSUpdateStake
  <2>3. dStake' \in [V -> Nat] /\ dTotal' \in Int
    BY <2>2 DEF EngineShape
  <2>4. T \in SUBSET dKnown /\ T \in SUBSET V /\ Sum(dStake', T) \in Nat /\ (dKnown # {} => T # {})
    BY <2>1, <2>3, ActiveSet DEF EngineShape
  <2>5. EngineShape' /\ ActiveKnown' /\ ProducerAvailable'
    BY <1>1, <2>1, <2>3, <2>4 DEF EngineShape, ActiveKnown, ProducerAvailable
  <2>6. ~torn => dTotal' = Sum(dStake', dKnown)
    <3> SUFFICES ASSUME ~torn PROVE dTotal' = Sum(dStake', dKnown)
      OBVIOUS
    <3>1. dTotal = Sum(dStake, dKnown) /\ IsFiniteSet(dKnown) /\ Sum(dStake, dKnown) \in Nat
      BY StakeSum DEF DPoSStakesAdd, EngineShape
    <3>2. dStake'[v] = s /\ (\A x \in dKnown \ {v} : dStake'[x] = dStake[x]) /\ dStake[v] \in Nat
      BY <2>2 DEF EngineShape
    <3>3. \A x \in dKnown : dStake[x] \in Int
      BY DEF EngineShape
    <3>4. Sum(dStake', dKnown) = Sum(dStake, dKnown) + dStake'[v] - dStake[v]
      BY <1>4, <3>1, <3>2, <3>3, SumChange DEF Sum
    <3> QED BY <2>2, <3>1, <3>2, <3>4
  <2>7. DPoSStakesAdd'
    BY <1>1, <2>1, <2>6 DEF DPoSStakesAdd
  <2>8. SnapInv'
    BY <1>1, <2>1, <2>4, SnapKept
  <2> QED BY <2>5, <2>7, <2>8
<1> QED BY <1>3, <1>4

(* A new size of the active set.                                            *)
LEMMA SetSizeKeeps ==
    ASSUME DPoSInv, NEW n \in SetSizes, SetSetSize(n)
    PROVE  DPoSInv'
<1> USE DEF DPoSInv, EngineInv
<1>1. PICK T \in Tops(dKnown, dStake, n) : dActive' = T /\ dActiveTotal' = Sum(dStake, T)
  BY DEF SetSetSize, UpdateDPoSActive
<1>2. /\ maxSetSize' = n /\ dStake' = dStake /\ dKnown' = dKnown /\ dTotal' = dTotal
      /\ misbehavior' = misbehavior /\ torn' = torn /\ UNCHANGED <<snapVars, emptied>>
  BY DEF SetSetSize
<1>3. T \in SUBSET dKnown /\ T \in SUBSET V /\ Sum(dStake, T) \in Nat /\ (dKnown # {} => T # {})
  BY <1>1, ActiveSet DEF EngineShape
<1>4. EngineShape' /\ ActiveKnown' /\ ProducerAvailable'
  BY <1>1, <1>2, <1>3 DEF EngineShape, ActiveKnown, ProducerAvailable
<1>5. DPoSStakesAdd'
  BY <1>1, <1>2 DEF DPoSStakesAdd
<1>6. SnapInv'
  BY <1>1, <1>2, <1>3, SnapKept
<1> QED BY <1>4, <1>5, <1>6

(* A count of misbehaviour changes nothing that is summed.                   *)
LEMMA InjectKeeps ==
    ASSUME DPoSInv, NEW v \in V, NEW n \in MisbehaviorCounts, InjectMisbehaviorCount(v, n)
    PROVE  DPoSInv'
<1> USE DEF DPoSInv, EngineInv
<1>1. /\ misbehavior' = [misbehavior EXCEPT ![v] = n] /\ maxSetSize' = maxSetSize
      /\ dKnown' = dKnown /\ torn' = torn /\ dActive' = dActive /\ dStake' = dStake
      /\ UNCHANGED <<snapVars, emptied>>
      /\ dTotal' = dTotal /\ dActiveTotal' = dActiveTotal
  BY DEF InjectMisbehaviorCount
<1>2. misbehavior' \in [V -> Nat]
  BY <1>1, CountAssumption DEF EngineShape
<1>3. EngineShape' /\ ActiveKnown' /\ ProducerAvailable' /\ DPoSStakesAdd'
  BY <1>1, <1>2 DEF EngineShape, ActiveKnown, ProducerAvailable, DPoSStakesAdd
<1> QED BY <1>1, <1>3, SnapUntouched

-----------------------------------------------------------------------------
(* GetState and RestoreState.                                                *)

(* The three steps of GetState leave DPoS alone.                             *)
LEMMA EngineKept == EngineInv /\ UNCHANGED engineVars => EngineInv'
  BY DEF EngineInv, EngineShape, ActiveKnown, ProducerAvailable, DPoSStakesAdd, engineVars

(* What is copied under the three locks, with others in between.             *)
LEMMA GetStateKeeps ==
    ASSUME DPoSInv, GetStateValidators \/ GetStateActive \/ GetStateEpoch
    PROVE  DPoSInv'
<1>1. EngineInv' /\ dKnown' = dKnown /\ dActive' = dActive /\ emptied' = emptied
  <2>1. EngineInv /\ UNCHANGED engineVars
    BY DEF DPoSInv, GetStateValidators, GetStateActive, GetStateEpoch
  <2> QED BY <2>1, EngineKept DEF engineVars
<1>2. /\ SnapShape /\ (~emptied => NeverEmptied) /\ EngineShape /\ ProducerAvailable
  BY DEF DPoSInv, EngineInv, SnapInv
<1>3. NoSnap \in Saved({"none", "validators", "active"}) /\ NoSnap.pc = "none" /\ NoSnap.known = {}
      /\ NoSnap.active = {}
  <2>1. NoStake \in [V -> Nat]
    BY DEF NoStake
  <2> QED BY <2>1 DEF NoSnap, Saved
<1>4. CASE GetStateValidators
  <2>1. taking' = [pc |-> "validators", known |-> dKnown, stake |-> dStake, count |-> misbehavior,
                   active |-> {}, size |-> 0] /\ snap' = snap
    BY <1>4 DEF GetStateValidators, NoSnap
  <2>2. SnapShape'
    BY <1>2, <2>1 DEF EngineShape, SnapShape, Saved
  <2>3. taking'.pc = "validators" /\ taking'.known = dKnown /\ taking'.active = {}
    BY <2>1
  <2>4. SnapInv'
    BY <1>1, <1>2, <2>1, <2>2, <2>3 DEF SnapInv, NeverEmptied
  <2> QED BY <1>1, <2>4 DEF DPoSInv
<1>5. CASE GetStateActive
  <2>1. taking' = [pc |-> "active", known |-> taking.known, stake |-> taking.stake, count |-> taking.count,
                   active |-> dActive, size |-> taking.size] /\ snap' = snap
    BY <1>2, <1>5 DEF GetStateActive, SnapShape, Saved
  <2>2. SnapShape'
    BY <1>2, <2>1 DEF EngineShape, SnapShape, Saved
  <2>3. taking'.pc = "active" /\ taking'.known = taking.known /\ taking'.active = dActive
    BY <2>1
  <2>4. SnapInv'
    BY <1>1, <1>2, <2>1, <2>2, <2>3 DEF SnapInv, NeverEmptied, ProducerAvailable
  <2> QED BY <1>1, <2>4 DEF DPoSInv
<1>6. CASE GetStateEpoch
  <2>1. snap' = [pc |-> "taken", known |-> taking.known, stake |-> taking.stake, count |-> taking.count,
                 active |-> taking.active, size |-> maxSetSize] /\ taking' = NoSnap /\ taking.pc = "active"
    BY <1>2, <1>6 DEF GetStateEpoch, SnapShape, Saved
  <2>2. snap'.pc = "taken" /\ snap'.known = taking.known /\ snap'.active = taking.active /\ snap'.size = maxSetSize
    BY <2>1
  <2>3. maxSetSize \in SetSizes /\ maxSetSize \in Nat
    BY <1>2, SizeAssumption DEF EngineShape
  <2>4. snap' \in Saved({"none", "taken"})
    BY <1>2, <2>1, <2>3 DEF SnapShape, Saved
  <2>5. SnapShape'
    BY <1>3, <2>1, <2>2, <2>3, <2>4 DEF SnapShape
  <2>6. SnapInv'
    BY <1>1, <1>2, <1>3, <2>1, <2>2, <2>5 DEF SnapInv, NeverEmptied
  <2> QED BY <1>1, <2>6 DEF DPoSInv
<1> QED BY <1>4, <1>5, <1>6

(* A restore, whole or given up at an active validator the snapshot does not  *)
(* know: then the active set stays, and was not empty.                       *)
LEMMA RestoreKeeps == ASSUME DPoSInv, RestoreState PROVE DPoSInv'
<1>1. /\ SnapShape /\ (~emptied => NeverEmptied) /\ EngineShape /\ ActiveKnown /\ ProducerAvailable
      /\ DPoSStakesAdd
  BY DEF DPoSInv, EngineInv, SnapInv
<1>2. /\ snap.pc = "taken" /\ snap' = snap /\ taking' = taking
      /\ dKnown' = snap.known /\ dStake' = snap.stake /\ misbehavior' = snap.count
      /\ maxSetSize' = snap.size /\ emptied' = (emptied \/ snap.known = {})
  BY DEF RestoreState, snapVars
<1>3. /\ snap.known \in SUBSET V /\ snap.stake \in [V -> Nat] /\ snap.count \in [V -> Nat]
      /\ snap.active \in SUBSET V /\ snap.size \in SetSizes
      /\ SnapShape'
  BY <1>1, <1>2 DEF SnapShape, Saved
<1>4. emptied' \in BOOLEAN
  BY <1>2, Zenon
<1>5. /\ ~emptied' => ~emptied /\ dKnown' # {} /\ snap.known # {} /\ snap.active # {} /\ NeverEmptied /\ dActive # {}
  BY <1>1, <1>2 DEF NeverEmptied, ProducerAvailable
<1>6. SnapInv'
  BY <1>2, <1>3, <1>5 DEF SnapInv, NeverEmptied
<1>7. CASE snap.active \subseteq snap.known
  <2>1. /\ dActive' = snap.active /\ torn' = FALSE
        /\ dTotal' = Sum(snap.stake, snap.known) /\ dActiveTotal' = Sum(snap.stake, snap.active)
    BY <1>7 DEF RestoreState
  <2>2. Sum(snap.stake, snap.known) \in Nat /\ Sum(snap.stake, snap.active) \in Nat
    BY <1>3, StakeSum
  <2>3. torn' \in BOOLEAN
    BY <2>1
  <2>4. EngineShape'
    BY <1>2, <1>3, <1>4, <2>1, <2>2, <2>3 DEF EngineShape
  <2>5. ActiveKnown' /\ ProducerAvailable' /\ DPoSStakesAdd'
    BY <1>2, <1>5, <1>7, <2>1 DEF ActiveKnown, ProducerAvailable, DPoSStakesAdd
  <2> QED BY <1>6, <2>4, <2>5 DEF DPoSInv, EngineInv
<1>8. CASE ~(snap.active \subseteq snap.known)
  <2>1. /\ dActive' = dActive /\ torn' = TRUE
        /\ dTotal' = dTotal /\ dActiveTotal' = dActiveTotal
    BY <1>8 DEF RestoreState
  <2>2. torn' \in BOOLEAN
    BY <2>1
  <2>3. EngineShape'
    BY <1>1, <1>2, <1>3, <1>4, <2>1, <2>2 DEF EngineShape
  <2>4. ActiveKnown' /\ ProducerAvailable' /\ DPoSStakesAdd'
    BY <1>5, <2>1 DEF ActiveKnown, ProducerAvailable, DPoSStakesAdd
  <2> QED BY <1>6, <2>3, <2>4 DEF DPoSInv, EngineInv
<1> QED BY <1>7, <1>8

-----------------------------------------------------------------------------
(* Rewards: the divisor grows with every reward.                             *)

Divisors(start, a, n, g) ==
  g = [i \in 0..n |-> IF i = 0 THEN start ELSE g[i - 1] + a[i] \div g[i - 1]]

(* The recursion has a solution.                                            *)
LEMMA DivisorsExist ==
    ASSUME NEW n \in Nat, NEW start, NEW a
    PROVE  \E g : Divisors(start, a, n, g)
<1> DEFINE Bad == {k \in 0..n : ~\E g : Divisors(start, a, k, g)}
<1> SUFFICES ASSUME Bad # {} PROVE FALSE
  <2>1. n \in 0..n
    OBVIOUS
  <2> QED BY <2>1
<1>1. PICK m \in Bad : \A k \in Bad : m <= k
  <2>1. Bad \in SUBSET (0..n)
    OBVIOUS
  <2> HIDE DEF Bad
  <2> QED BY <2>1, FirstOf
<1>2. m \in 0..n /\ ~\E g : Divisors(start, a, m, g)
  OBVIOUS
<1>3. CASE m = 0
  <2> DEFINE h == [i \in 0..0 |-> start]
  <2>1. Divisors(start, a, 0, h)
    BY DEF Divisors
  <2> QED BY <1>2, <1>3, <2>1
<1>4. CASE m > 0
  <2>1. m - 1 \in 0..n /\ m - 1 \notin Bad
    <3>1. m - 1 \in 0..n /\ ~(m <= m - 1)
      BY <1>2, <1>4
    <3> HIDE DEF Bad
    <3> QED BY <1>1, <3>1
  <2>2. PICK g : Divisors(start, a, m - 1, g)
    BY <2>1
  <2>3. g = [i \in 0..(m - 1) |-> IF i = 0 THEN start ELSE g[i - 1] + a[i] \div g[i - 1]]
    BY <2>2 DEF Divisors
  <2> DEFINE h == [i \in 0..m |-> IF i = 0 THEN start ELSE g[i - 1] + a[i] \div g[i - 1]]
  <2>4. \A i \in 0..(m - 1) : h[i] = g[i]
    <3> SUFFICES ASSUME NEW i \in 0..(m - 1) PROVE h[i] = g[i]
      OBVIOUS
    <3>1. i \in 0..m
      BY <1>2, <1>4
    <3>2. g[i] = IF i = 0 THEN start ELSE g[i - 1] + a[i] \div g[i - 1]
      BY <2>3
    <3> QED BY <3>1, <3>2
  <2>5. \A i \in 0..m : i # 0 => i - 1 \in 0..(m - 1)
    BY <1>2, <1>4
  <2>6. \A i \in 0..m : h[i] = IF i = 0 THEN start ELSE h[i - 1] + a[i] \div h[i - 1]
    <3> SUFFICES ASSUME NEW i \in 0..m PROVE h[i] = IF i = 0 THEN start ELSE h[i - 1] + a[i] \div h[i - 1]
      OBVIOUS
    <3>1. h[i] = IF i = 0 THEN start ELSE g[i - 1] + a[i] \div g[i - 1]
      OBVIOUS
    <3>2. i # 0 => h[i - 1] = g[i - 1]
      BY <2>4, <2>5
    <3> HIDE DEF h
    <3> QED BY <3>1, <3>2
  <2>7. h = [i \in 0..m |-> h[i]]
    OBVIOUS
  <2> HIDE DEF h
  <2>8. Divisors(start, a, m, h)
    BY <2>6, <2>7 DEF Divisors
  <2> QED BY <1>2, <2>8
<1> QED BY <1>2, <1>3, <1>4

(* Division of naturals.                                                    *)
LEMMA DivNat == ASSUME NEW a \in Nat, NEW b \in Nat, b > 0 PROVE a \div b \in Nat
  OBVIOUS

(* From a positive start on every divisor is positive and the next is no less. *)
LEMMA DivisorsGrow ==
    ASSUME NEW n \in Nat, NEW start \in Nat, start > 0, NEW a, \A i \in 1..n : a[i] \in Nat,
           NEW g, Divisors(start, a, n, g)
    PROVE  /\ \A i \in 0..n : g[i] \in Nat /\ g[i] > 0
           /\ \A i \in 1..n : g[i] - g[i - 1] \in Nat
<1>1. \A i \in 0..n : g[i] = IF i = 0 THEN start ELSE g[i - 1] + a[i] \div g[i - 1]
  BY DEF Divisors
<1>2. \A i \in 0..n : g[i] \in Nat /\ g[i] > 0
  <2> DEFINE Bad == {k \in 0..n : ~(g[k] \in Nat /\ g[k] > 0)}
  <2> SUFFICES ASSUME Bad # {} PROVE FALSE
    OBVIOUS
  <2>1. PICK m \in Bad : \A k \in Bad : m <= k
    <3>1. Bad \in SUBSET (0..n)
      OBVIOUS
    <3> HIDE DEF Bad
    <3> QED BY <3>1, FirstOf
  <2>2. m \in 0..n /\ ~(g[m] \in Nat /\ g[m] > 0)
    OBVIOUS
  <2>3. m # 0
    BY <1>1, <2>2
  <2>4. m - 1 \in 0..n /\ m - 1 \notin Bad /\ m \in 1..n
    <3>1. m - 1 \in 0..n /\ m \in 1..n /\ ~(m <= m - 1)
      BY <2>2, <2>3
    <3> HIDE DEF Bad
    <3> QED BY <2>1, <3>1
  <2>5. g[m - 1] \in Nat /\ g[m - 1] > 0
    BY <2>4
  <2>6. a[m] \div g[m - 1] \in Nat
    BY <2>4, <2>5, DivNat
  <2>7. g[m] = g[m - 1] + a[m] \div g[m - 1]
    BY <1>1, <2>2, <2>3
  <2> QED BY <2>2, <2>5, <2>6, <2>7
<1>3. ASSUME NEW i \in 1..n PROVE g[i] - g[i - 1] \in Nat
  <2>1. i \in 0..n /\ i - 1 \in 0..n /\ i # 0
    OBVIOUS
  <2>2. g[i - 1] \in Nat /\ g[i - 1] > 0
    BY <1>2, <2>1
  <2>3. a[i] \div g[i - 1] \in Nat
    BY <2>2, DivNat
  <2>4. g[i] = g[i - 1] + a[i] \div g[i - 1]
    BY <1>1, <2>1
  <2> QED BY <2>2, <2>3, <2>4
<1> QED BY <1>2, <1>3

Lists(q, T) ==
  /\ Cardinality(T) \in Nat /\ IsFiniteSet(DOMAIN q)
  /\ DOMAIN q = 1..Cardinality(T) /\ Len(q) = Cardinality(T)
  /\ \A k \in DOMAIN q : q[k] \in T
  /\ {q[k] : k \in DOMAIN q} = T

(* The order in which the sort leaves T has every member of T.               *)
LEMMA OrderIsAll ==
    ASSUME NEW T \in SUBSET V, NEW f, NEW q \in Orders(T, f)
    PROVE  Lists(q, T)
<1> DEFINE n == Cardinality(T)
<1>1. IsFiniteSet(T) /\ n \in Nat
  BY FS_Subset, FS_CardinalityType, SizeAssumption
<1>2. q \in [1..n -> T] /\ \A i, j \in DOMAIN q : i < j => q[i] # q[j]
  BY DEF Orders
<1> HIDE DEF n
<1>3. DOMAIN q = 1..n /\ \A k \in DOMAIN q : q[k] \in T
  BY <1>2
<1>4. Len(q) = n
  <2>1. q \in Seq(T)
    BY <1>1, <1>2, SeqDef
  <2>2. Len(q) \in Nat /\ DOMAIN q = 1..Len(q)
    BY <2>1
  <2> QED BY <1>1, <1>3, <2>2
<1>5. q \in Injection(1..n, T)
  BY <1>1, <1>2, <1>3 DEF Injection, IsInjective
<1>6. IsFiniteSet(1..n) /\ Cardinality(1..n) = n
  BY <1>1, FS_Interval
<1>7. q \in Surjection(1..n, T)
  BY <1>1, <1>5, <1>6, FS_Injection DEF n
<1>8. {q[k] : k \in DOMAIN q} = T
  BY <1>3, <1>7 DEF Surjection
<1> QED BY <1>1, <1>3, <1>4, <1>6, <1>8 DEF n, Lists

(* A reward goes to members of T only and is never negative.                 *)
LEMMA RewardsOf ==
    ASSUME NEW T \in SUBSET V, NEW f \in [V -> Nat], NEW total \in Nat, NEW q \in Orders(T, f), Sum(f, T) > 0
    PROVE  /\ Reward(q, f, total) \in [V -> Nat]
           /\ \A v \in V \ T : Reward(q, f, total)[v] = 0
<1> DEFINE n == Cardinality(T)
           a == [i \in 1..n |-> total * f[q[i]]]
           start == Sum(f, T)
           div == CHOOSE g : g = [i \in 0..Len(q) |->
                                    IF i = 0 THEN Sum(f, {q[k] : k \in DOMAIN q})
                                    ELSE g[i - 1] + (total * f[q[i]]) \div g[i - 1]]
           part(v) == [i \in DOMAIN q |-> IF q[i] = v THEN div[i] - div[i - 1] ELSE 0]
<1>1. /\ n \in Nat /\ IsFiniteSet(DOMAIN q)
      /\ DOMAIN q = 1..n /\ Len(q) = n
      /\ \A k \in DOMAIN q : q[k] \in T
      /\ {q[k] : k \in DOMAIN q} = T
  <2>1. Lists(q, T)
    BY OrderIsAll
  <2> QED BY <2>1 DEF Lists
<1>2. Reward(q, f, total) = [v \in V |-> Sum(part(v), DOMAIN q)]
  BY DEF Reward
<1>3. start \in Nat /\ start > 0
  BY StakeSum
<1>4. \A i \in 1..n : a[i] \in Nat /\ a[i] = total * f[q[i]]
  <2> SUFFICES ASSUME NEW i \in 1..n PROVE a[i] \in Nat /\ a[i] = total * f[q[i]]
    OBVIOUS
  <2>1. f[q[i]] \in Nat
    BY <1>1
  <2>2. total * f[q[i]] \in Nat
    BY <2>1
  <2> QED BY <2>2
<1> HIDE DEF start, a, n
<1>5. ASSUME NEW g
      PROVE  Divisors(start, a, n, g) <=>
             g = [i \in 0..Len(q) |-> IF i = 0 THEN Sum(f, {q[k] : k \in DOMAIN q})
                                      ELSE g[i - 1] + (total * f[q[i]]) \div g[i - 1]]
  <2> DEFINE left(i) == IF i = 0 THEN start ELSE g[i - 1] + a[i] \div g[i - 1]
             right(i) == IF i = 0 THEN Sum(f, {q[k] : k \in DOMAIN q})
                         ELSE g[i - 1] + (total * f[q[i]]) \div g[i - 1]
  <2>1. ASSUME NEW i \in 0..n PROVE left(i) = right(i)
    <3>1. CASE i = 0
      BY <1>1, <3>1 DEF start
    <3>2. CASE i # 0
      <4>1. i \in 1..n
        BY <1>1, <3>2
      <4> QED BY <1>4, <3>2, <4>1
    <3> QED BY <3>1, <3>2
  <2> HIDE DEF left, right
  <2>2. [i \in 0..n |-> left(i)] = [i \in 0..n |-> right(i)]
    BY <2>1
  <2>3. [i \in 0..n |-> right(i)] = [i \in 0..Len(q) |-> right(i)]
    BY <1>1
  <2> QED BY <2>2, <2>3 DEF Divisors, left, right
<1>6. Divisors(start, a, n, div)
  <2>1. \E g : Divisors(start, a, n, g)
    BY <1>1, DivisorsExist
  <2>2. div = [i \in 0..Len(q) |-> IF i = 0 THEN Sum(f, {q[k] : k \in DOMAIN q})
                                   ELSE div[i - 1] + (total * f[q[i]]) \div div[i - 1]]
    BY <1>5, <2>1
  <2> HIDE DEF div
  <2> QED BY <1>5, <2>2
<1> HIDE DEF div
<1>7. \A i \in 1..n : div[i] - div[i - 1] \in Nat
  BY <1>1, <1>3, <1>4, <1>6, DivisorsGrow
<1>8. ASSUME NEW v \in V
      PROVE  Sum(part(v), DOMAIN q) \in Nat /\ (v \notin T => Sum(part(v), DOMAIN q) = 0)
  <2>1. \A i \in DOMAIN q : part(v)[i] \in Nat
    BY <1>1, <1>7
  <2>2. v \notin T => \A i \in DOMAIN q : part(v)[i] = 0
    BY <1>1
  <2> HIDE DEF part
  <2>3. Sum(part(v), DOMAIN q) \in Nat
    BY <1>1, <2>1, SumNat DEF Sum
  <2>4. ASSUME v \notin T PROVE Sum(part(v), DOMAIN q) = 0
    <3>1. \A i \in DOMAIN q : part(v)[i] \in Int
      BY <2>1
    <3>2. \A i \in DOMAIN q \ {} : part(v)[i] = 0
      BY <2>2, <2>4
    <3>3. SumFunctionOnSet(part(v), DOMAIN q) = SumFunctionOnSet(part(v), {})
      BY <1>1, <3>1, <3>2, SumSupport
    <3> QED BY <3>3, SumEmpty DEF Sum
  <2> QED BY <2>3, <2>4
<1> HIDE DEF part
<1> QED BY <1>2, <1>8

(* calculatePenalty never takes more than there is.                          *)
LEMMA PenaltyBounded ==
    ASSUME EngineShape, NEW v \in V
    PROVE  Penalty(v) \in Nat /\ Penalty(v) <= dStake[v]
<1> DEFINE a == dStake[v]
           b == (dStake[v] \div PenaltyDivisor) * misbehavior[v]
<1>1. a \in Nat /\ misbehavior[v] \in Nat /\ PenaltyDivisor \in Nat /\ PenaltyDivisor > 0
  BY RewardAssumption DEF EngineShape
<1>2. a \div PenaltyDivisor \in Nat
  BY <1>1, DivNat
<1>3. b \in Nat
  BY <1>1, <1>2
<1>4. Penalty(v) = Min({a, b})
  BY DEF Penalty
<1> HIDE DEF a, b
<1>5. Min({a, b}) \in {a, b} /\ \A y \in {a, b} : Min({a, b}) <= y
  <2>1. \E x \in {a, b} : \A y \in {a, b} : x <= y
    BY <1>1, <1>3
  <2> QED BY <2>1 DEF Min
<1>6. Min({a, b}) \in Nat /\ Min({a, b}) <= a
  BY <1>1, <1>3, <1>5
<1> QED BY <1>4, <1>6 DEF a

(* ProcessEpoch: what the penalties take and the rewards give is in both      *)
(* totals.                                                                  *)
LEMMA EpochKeeps ==
    ASSUME DPoSInv, DPoSProcessEpoch
    PROVE  DPoSInv'
<1> USE DEF DPoSInv, EngineInv
<1> DEFINE pen == [v \in V |-> Penalty(v)]
           slashed == [v \in V |-> IF v \in dKnown THEN dStake[v] - Penalty(v) ELSE dStake[v]]
           lost == Sum(pen, dKnown)
           none == [v \in V |-> 0]
           Paid(T, total, q) ==
             IF lost = 0 /\ Sum(slashed, T) > 0 THEN Reward(q, slashed, total) ELSE none
           Outcome(T, total, q) ==
             /\ dActive' = T
             /\ dStake' = [v \in V |-> slashed[v] + Paid(T, total, q)[v]]
             /\ dTotal' = dTotal - lost + Sum(Paid(T, total, q), T)
             /\ dActiveTotal' = Sum(slashed, T) + Sum(Paid(T, total, q), T)
<1>0. PICK T \in Tops(dKnown, slashed, maxSetSize), total \in TotalRewards :
        \E q \in Orders(T, slashed) : Outcome(T, total, q)
  BY DEF DPoSProcessEpoch
<1>1. PICK q \in Orders(T, slashed) : Outcome(T, total, q)
  <2> HIDE DEF Outcome
  <2> QED BY <1>0
<1>2. /\ misbehavior' = [v \in V |-> IF v \in dKnown THEN 0 ELSE misbehavior[v]]
      /\ dKnown' = dKnown /\ maxSetSize' = maxSetSize /\ torn' = torn /\ UNCHANGED <<snapVars, emptied>>
  BY DEF DPoSProcessEpoch
<1> DEFINE r == Paid(T, total, q)
<1>3. \A v \in V : pen[v] = Penalty(v) /\ Penalty(v) \in Nat /\ Penalty(v) <= dStake[v] /\ dStake[v] \in Nat
  BY PenaltyBounded DEF EngineShape
<1>4. pen \in [V -> Nat] /\ slashed \in [V -> Nat]
  BY <1>3
<1>5. \A v \in dKnown : dStake[v] = slashed[v] + pen[v]
  BY <1>3 DEF EngineShape
<1> HIDE DEF pen, slashed
<1>6. /\ T \in SUBSET dKnown /\ T \in SUBSET V /\ Sum(slashed, T) \in Nat /\ (dKnown # {} => T # {})
  BY <1>1, <1>4, ActiveSet DEF EngineShape
<1>7. r \in [V -> Nat] /\ \A v \in V \ T : r[v] = 0
  <2>1. CASE lost = 0 /\ Sum(slashed, T) > 0
    <3>1. r = Reward(q, slashed, total)
      BY <2>1
    <3>2. total \in Nat
      BY RewardAssumption
    <3> HIDE DEF r
    <3> QED BY <1>4, <1>6, <2>1, <3>1, <3>2, RewardsOf
  <2>2. CASE ~(lost = 0 /\ Sum(slashed, T) > 0)
    BY <2>2
  <2> QED BY <2>1, <2>2
<1>8. /\ dStake' = [v \in V |-> slashed[v] + r[v]] /\ dTotal' = dTotal - lost + Sum(r, T)
      /\ dActiveTotal' = Sum(slashed, T) + Sum(r, T)
  BY <1>1
<1> HIDE DEF r, Paid
<1>9. /\ Sum(r, T) \in Nat /\ Sum(pen, dKnown) \in Nat /\ Sum(slashed, dKnown) \in Nat
      /\ IsFiniteSet(T) /\ IsFiniteSet(dKnown)
  BY <1>4, <1>6, <1>7, StakeSum DEF EngineShape
<1>10. /\ dStake' \in [V -> Nat] /\ misbehavior' \in [V -> Nat]
       /\ \A v \in V : dStake'[v] = slashed[v] + r[v]
  BY <1>2, <1>4, <1>7, <1>8 DEF EngineShape
<1>11. EngineShape' /\ ActiveKnown' /\ ProducerAvailable'
  <2>1. dTotal' \in Int /\ dActiveTotal' \in Nat
    BY <1>6, <1>8, <1>9 DEF EngineShape
  <2> QED BY <1>1, <1>2, <1>6, <1>10, <2>1 DEF EngineShape, ActiveKnown, ProducerAvailable
<1>12. dActiveTotal' = Sum(dStake', T)
  <2>1. \A v \in T : slashed[v] \in Int /\ r[v] \in Int /\ dStake'[v] = slashed[v] + r[v]
    BY <1>4, <1>6, <1>7, <1>10
  <2>2. Sum(dStake', T) = Sum(slashed, T) + Sum(r, T)
    BY <1>9, <2>1, SumPlus DEF Sum
  <2> QED BY <1>8, <2>2
<1>13. ~torn => dTotal' = Sum(dStake', dKnown)
  <2> SUFFICES ASSUME ~torn PROVE dTotal' = Sum(dStake', dKnown)
    OBVIOUS
  <2>1. dTotal = Sum(dStake, dKnown)
    BY DEF DPoSStakesAdd
  <2>2. \A v \in dKnown : slashed[v] \in Int /\ pen[v] \in Int /\ r[v] \in Int
    BY <1>4, <1>7 DEF EngineShape
  <2>3. Sum(dStake, dKnown) = Sum(slashed, dKnown) + Sum(pen, dKnown)
    BY <1>5, <1>9, <2>2, SumPlus DEF Sum
  <2>4. Sum(dStake', dKnown) = Sum(slashed, dKnown) + Sum(r, dKnown)
    <3>1. \A v \in dKnown : dStake'[v] = slashed[v] + r[v]
      BY <1>10 DEF EngineShape
    <3> QED BY <1>9, <2>2, <3>1, SumPlus DEF Sum
  <2>5. Sum(r, dKnown) = Sum(r, T)
    <3>1. \A v \in dKnown \ T : r[v] = 0
      BY <1>7 DEF EngineShape
    <3> QED BY <1>6, <1>9, <2>2, <3>1, SumSupport DEF Sum
  <2> QED BY <1>8, <1>9, <2>1, <2>3, <2>4, <2>5
<1>14. DPoSStakesAdd'
  BY <1>1, <1>2, <1>12, <1>13 DEF DPoSStakesAdd
<1>15. SnapInv'
  BY <1>1, <1>2, <1>6, SnapKept
<1> QED BY <1>11, <1>14, <1>15

-----------------------------------------------------------------------------
(* The inductive invariant of DPoS.                                          *)
THEOREM DPoSInvariant == DPoSSpec => []DPoSInv
<1>1. DPoSInv /\ [DPoSNext]_dposVars => DPoSInv'
  <2> SUFFICES ASSUME DPoSInv, [DPoSNext]_dposVars PROVE DPoSInv'
    OBVIOUS
  <2>1. CASE UNCHANGED dposVars
    <3>1. EngineInv' /\ SnapInv'
      BY <2>1, EngineKept, SnapUntouched DEF DPoSInv, dposVars, engineVars
    <3> QED BY <3>1 DEF DPoSInv
  <2>2. ASSUME NEW v \in V, NEW s \in Stakes, DPoSAddValidator(v, s) \/ DPoSUpdateStake(v, s) PROVE DPoSInv'
    BY <2>2, StakeAssumption, DPoSAddKeeps, DPoSUpdateKeeps
  <2>3. ASSUME NEW v \in V, NEW n \in MisbehaviorCounts, InjectMisbehaviorCount(v, n) PROVE DPoSInv'
    BY <2>3, InjectKeeps
  <2>4. ASSUME NEW n \in SetSizes, SetSetSize(n) PROVE DPoSInv'
    BY <2>4, SetSizeKeeps
  <2>5. CASE DPoSProcessEpoch
    BY <2>5, EpochKeeps
  <2>6. CASE GetStateValidators \/ GetStateActive \/ GetStateEpoch
    BY <2>6, GetStateKeeps
  <2>7. CASE RestoreState
    BY <2>7, RestoreKeeps
  <2> QED BY <2>1, <2>2, <2>3, <2>4, <2>5, <2>6, <2>7 DEF DPoSNext
<1> QED BY <1>1, DPoSInitial, PTL DEF DPoSSpec

(* The types follow: an untorn total is a sum of stakes.                     *)
LEMMA DPoSTypes == DPoSInv => DPoSTypeOK
<1> SUFFICES ASSUME DPoSInv PROVE DPoSTypeOK
  OBVIOUS
<1>1. EngineShape /\ DPoSStakesAdd
  BY DEF DPoSInv, EngineInv
<1>2. ~torn => dTotal >= 0
  <2> SUFFICES ASSUME ~torn PROVE dTotal >= 0
    OBVIOUS
  <2>1. dTotal = Sum(dStake, dKnown) /\ Sum(dStake, dKnown) \in Nat
    BY <1>1, StakeSum DEF EngineShape, DPoSStakesAdd
  <2> QED BY <2>1
<1> QED BY <1>1, <1>2 DEF EngineShape, DPoSTypeOK

(* No stake and no total of DPoS wraps around, whatever penalties, rewards,   *)
(* stakes and restored snapshots it meets.                                   *)
THEOREM DPoSTypeCorrect == DPoSSpec => []DPoSTypeOK
  BY DPoSInvariant, DPoSTypes, PTL

(* The totals of DPoS are the sums over its validators and its active set     *)
(* unless a restore failed half-way.                                        *)
THEOREM DPoSTotalsAreSums == DPoSSpec => []DPoSStakesAdd
<1>1. DPoSInv => DPoSStakesAdd
  BY DEF DPoSInv, EngineInv
<1> QED BY <1>1, DPoSInvariant, PTL

(* A DPoS with validators has a block producer, also after a restore that     *)
(* failed half-way, unless a state without validators was restored.          *)
THEOREM DPoSHasProducer == DPoSSpec => []ProducerAvailable
<1>1. DPoSInv => ProducerAvailable
  BY DEF DPoSInv, EngineInv
<1> QED BY <1>1, DPoSInvariant, PTL

-----------------------------------------------------------------------------
(* The ValidatorManager over DPoS.                                           *)

Statuses == {"absent", "Active", "Inactive", "Slashed", "Jailed"}
CallOps == {"addDPoS", "updateDPoS", "addNode", "updateNode"}

(* A call in progress is about one validator.                                *)
IsCall(c) == c = NoCall \/ \E v \in V, op \in CallOps : c = [op |-> op, v |-> {v}]

ManagerShape ==
  /\ status \in [V -> Statuses] /\ stake \in [V -> Nat]
  /\ active \in SUBSET V /\ activeTotalStake \in Int
  /\ node \in [V -> Nat \cup {NoNode}] /\ nodeState \in [V -> Nat \cup {NoNode}]
  /\ back \in SUBSET V /\ IsCall(call)

(* The total is right inside a call too; the active total only between calls. *)
(* A validator that is not there has no stake, which AddValidator rests on,   *)
(* and no place in the active set, so that no epoch gives it any.            *)
ManagerSums ==
  /\ totalStake = Sum(stake, V)
  /\ \A v \in V : status[v] = "absent" => stake[v] = 0 /\ v \notin active
  /\ call = NoCall => activeTotalStake = Sum(stake, active)

(* Only the validator of the call in progress, or one a restore has changed,  *)
(* may have more stake in Lachesis than in the manager; and no other node of  *)
(* a validator is missing, for gossip to add with a stake of its own.        *)
Covered ==
  \A v \in V \ back :
    /\ v \notin call.v => node[v] <= stake[v]
    /\ status[v] # "absent" /\ (v \in call.v => call.op \in {"updateDPoS", "updateNode"}) => node[v] # NoNode

ManagerInv == ManagerShape /\ ManagerSums /\ Covered
AllInv == ManagerInv /\ DPoSInv

(* A step that leaves DPoS alone.                                           *)
LEMMA DPoSStutters == DPoSInv /\ UNCHANGED dposVars => DPoSInv'
<1> SUFFICES ASSUME DPoSInv, UNCHANGED dposVars PROVE DPoSInv'
  OBVIOUS
<1>1. EngineInv' /\ SnapInv'
  BY EngineKept, SnapUntouched DEF DPoSInv, dposVars, engineVars
<1> QED BY <1>1 DEF DPoSInv

(* Inputs of the invariant that an action asks for again and again.          *)
LEMMA ManagerFacts ==
    ASSUME ManagerInv
    PROVE  /\ IsFiniteSet(V) /\ totalStake \in Nat
           /\ \A x \in V : stake[x] \in Nat /\ stake[x] \in Int
           /\ \A x \in V : node[x] \in Int
           /\ IsCall(call)
<1>1. stake \in [V -> Nat] /\ totalStake = Sum(stake, V) /\ IsCall(call) /\ node \in [V -> Nat \cup {NoNode}]
  BY DEF ManagerInv, ManagerShape, ManagerSums
<1>2. Sum(stake, V) \in Nat /\ IsFiniteSet(V)
  BY <1>1, StakeSum
<1>3. \A x \in V : node[x] \in Int
  BY <1>1 DEF NoNode
<1> QED BY <1>1, <1>2, <1>3

(* updateActiveValidators sums what it has chosen.                           *)
LEMMA UpdateActiveSets ==
    ASSUME DPoSInv, NEW st, NEW f \in [V -> Nat], UpdateActive(st, f)
    PROVE  /\ active' \in SUBSET V /\ activeTotalStake' \in Int /\ activeTotalStake' = Sum(f, active')
           /\ \A v \in active' : st[v] = "Active"
<1> DEFINE S == {v \in V : st[v] = "Active"}
<1>1. PICK T \in Tops(S, f, maxSetSize) : active' = T /\ activeTotalStake' = Sum(f, T)
  BY DEF UpdateActive
<1>2. S \in SUBSET V /\ maxSetSize \in SetSizes
  BY DEF DPoSInv, EngineInv, EngineShape
<1>3. \A v \in S : st[v] = "Active"
  OBVIOUS
<1> HIDE DEF S
<1>4. T \in SUBSET V /\ T \in SUBSET S /\ Sum(f, T) \in Nat
  BY <1>2, ActiveSet
<1> QED BY <1>1, <1>3, <1>4

(* One stake changes, and the total with it.                                 *)
LEMMA StakeChanges ==
    ASSUME ManagerInv, NEW v \in V, NEW s \in Nat, stake' = [stake EXCEPT ![v] = s]
    PROVE  /\ stake' \in [V -> Nat] /\ Sum(stake', V) = totalStake - stake[v] + s
           /\ \A x \in V \ {v} : stake'[x] = stake[x]
<1>1. stake \in [V -> Nat] /\ totalStake = Sum(stake, V)
  BY DEF ManagerInv, ManagerShape, ManagerSums
<1>2. /\ stake' \in [V -> Nat] /\ stake'[v] = s /\ s \in Int /\ stake[v] \in Int
      /\ \A x \in V \ {v} : stake'[x] = stake[x]
  BY <1>1
<1>3. IsFiniteSet(V) /\ (\A x \in V : stake[x] \in Int) /\ Sum(stake, V) \in Nat
  BY <1>1, StakeSum
<1>4. Sum(stake', V) = Sum(stake, V) + stake'[v] - stake[v]
  <2> DEFINE g == stake'
  <2>1. g[v] \in Int /\ \A x \in V \ {v} : g[x] = stake[x]
    BY <1>2
  <2> HIDE DEF g
  <2>2. SumFunctionOnSet(g, V) = SumFunctionOnSet(stake, V) + g[v] - stake[v]
    BY <1>3, <2>1, SumChange
  <2> QED BY <2>2 DEF Sum, g
<1> QED BY <1>1, <1>2, <1>3, <1>4

(* A call that begins: the manager has the new stake of v, Lachesis and DPoS  *)
(* do not know of it yet.                                                    *)
LEMMA CallBegins ==
    ASSUME ManagerInv, NEW v \in V, NEW s \in Nat, NEW op \in CallOps,
           call = NoCall, stake' = [stake EXCEPT ![v] = s], totalStake' = totalStake - stake[v] + s,
           call' = [op |-> op, v |-> {v}], UNCHANGED lachesisVars, active' = active, activeTotalStake' \in Int,
           status' \in [V -> Statuses], status'[v] # "absent", \A x \in V \ {v} : status'[x] = status[x],
           op = "addDPoS" \/ status[v] # "absent"
    PROVE  ManagerInv'
<1>1. stake' \in [V -> Nat] /\ Sum(stake', V) = totalStake' /\ \A x \in V \ {v} : stake'[x] = stake[x]
  BY StakeChanges
<1>2. IsCall(call')
  BY DEF IsCall
<1>3. ManagerShape'
  BY <1>1, <1>2 DEF ManagerInv, ManagerShape, lachesisVars
<1>4. call' # NoCall /\ call'.v = {v} /\ call.v = {} /\ call'.op = op
  <2>1. call'.op = op /\ call'.v = {v}
    OBVIOUS
  <2>2. NoCall.op = "none" /\ call.v = {}
    BY DEF NoCall
  <2>3. op # "none"
    BY DEF CallOps
  <2> QED BY <2>1, <2>2, <2>3, Zenon
<1>5. ManagerSums'
  BY <1>1, <1>4 DEF ManagerInv, ManagerSums
<1>6. Covered'
  BY <1>1, <1>4 DEF ManagerInv, Covered, lachesisVars
<1> QED BY <1>3, <1>5, <1>6 DEF ManagerInv

(* AddValidator, UpdateStake and SlashValidator up to the call of DPoS.       *)
LEMMA StakeCallsKeep ==
    ASSUME AllInv, NEW v \in V, NEW s \in Stakes,
           AddValidator(v, s) \/ UpdateStake(v, s) \/ SlashValidator(v, s)
    PROVE  AllInv'
<1>1. ManagerInv /\ DPoSInv /\ s \in Nat
  BY StakeAssumption DEF AllInv
<1>2. DPoSInv'
  BY <1>1, DPoSStutters DEF AddValidator, UpdateStake, SlashValidator
<1>3. /\ status \in [V -> Statuses] /\ stake \in [V -> Nat] /\ activeTotalStake \in Int /\ totalStake \in Nat
      /\ stake[v] \in Nat
  BY <1>1, ManagerFacts DEF ManagerInv, ManagerShape
<1>4. CASE AddValidator(v, s)
  <2>1. stake[v] = 0
    BY <1>1, <1>4 DEF AddValidator, ManagerInv, ManagerSums
  <2>2. totalStake' = totalStake - stake[v] + s
    BY <1>1, <1>3, <1>4, <2>1 DEF AddValidator
  <2>3. /\ status' = [status EXCEPT ![v] = "Inactive"] /\ stake' = [stake EXCEPT ![v] = s]
        /\ call = NoCall /\ call' = [op |-> "addDPoS", v |-> {v}]
        /\ UNCHANGED lachesisVars /\ active' = active /\ activeTotalStake' = activeTotalStake
    BY <1>4 DEF AddValidator
  <2>4. status' \in [V -> Statuses] /\ status'[v] # "absent" /\ \A x \in V \ {v} : status'[x] = status[x]
    BY <1>3, <2>3 DEF Statuses
  <2>5. "addDPoS" \in CallOps
    BY DEF CallOps
  <2>6. ManagerInv'
    BY <1>1, <1>3, <2>2, <2>3, <2>4, <2>5, CallBegins
  <2> QED BY <1>2, <2>6 DEF AllInv
<1>5. CASE UpdateStake(v, s)
  <2>1. /\ status' = status /\ stake' = [stake EXCEPT ![v] = s] /\ totalStake' = totalStake - stake[v] + s
        /\ call = NoCall /\ call' = [op |-> "updateDPoS", v |-> {v}] /\ v \in Known
        /\ UNCHANGED lachesisVars /\ active' = active
        /\ activeTotalStake' = IF status[v] = "Active" THEN activeTotalStake - stake[v] + s
                               ELSE activeTotalStake
    BY <1>5 DEF UpdateStake
  <2>2. activeTotalStake' \in Int
    BY <1>1, <1>3, <2>1
  <2>3. /\ status' \in [V -> Statuses] /\ status'[v] # "absent" /\ status[v] # "absent"
        /\ \A x \in V \ {v} : status'[x] = status[x]
    BY <1>3, <2>1 DEF Known
  <2>4. "updateDPoS" \in CallOps
    BY DEF CallOps
  <2>5. ManagerInv'
    BY <1>1, <2>1, <2>2, <2>3, <2>4, CallBegins
  <2> QED BY <1>2, <2>5 DEF AllInv
<1>6. CASE SlashValidator(v, s)
  <2> DEFINE lost == Min({s, stake[v]})
             left == stake[v] - lost
  <2>1. /\ status' = [status EXCEPT ![v] = "Slashed"] /\ totalStake' = totalStake - lost
        /\ stake' = [stake EXCEPT ![v] = stake[v] - lost]
        /\ call = NoCall /\ call' = [op |-> "updateDPoS", v |-> {v}] /\ v \in Known
        /\ UNCHANGED lachesisVars /\ active' = active /\ activeTotalStake' = activeTotalStake
    BY <1>6 DEF SlashValidator
  <2>2. lost \in Nat /\ lost <= stake[v]
    <3> DEFINE a == stake[v]
    <3>1. a \in Nat
      BY <1>3
    <3> HIDE DEF a
    <3>2. Min({s, a}) \in {s, a} /\ \A y \in {s, a} : Min({s, a}) <= y
      <4>1. \E x \in {s, a} : \A y \in {s, a} : x <= y
        BY <1>1, <3>1
      <4> QED BY <4>1 DEF Min
    <3>3. Min({s, a}) \in Nat /\ Min({s, a}) <= a
      BY <1>1, <3>1, <3>2
    <3> QED BY <3>3 DEF a
  <2> HIDE DEF lost
  <2>3. left \in Nat /\ totalStake' = totalStake - stake[v] + left
    BY <1>3, <2>1, <2>2
  <2>4. stake' = [stake EXCEPT ![v] = left]
    BY <2>1
  <2> HIDE DEF left
  <2>5. /\ status' \in [V -> Statuses] /\ status'[v] # "absent" /\ status[v] # "absent"
        /\ \A x \in V \ {v} : status'[x] = status[x]
    BY <1>3, <2>1 DEF Statuses, Known
  <2>6. "updateDPoS" \in CallOps
    BY DEF CallOps
  <2>7. ManagerInv'
    BY <1>1, <1>3, <2>1, <2>3, <2>4, <2>5, <2>6, CallBegins
  <2> QED BY <1>2, <2>7 DEF AllInv
<1> QED BY <1>4, <1>5, <1>6

(* The call of DPoS, with the stake the manager has.                         *)
LEMMA CallDPoSKeeps == ASSUME AllInv, CallDPoS PROVE AllInv'
<1>1. ManagerInv /\ DPoSInv /\ ManagerShape /\ ManagerSums /\ Covered
  BY DEF AllInv, ManagerInv
<1>2. PICK v \in call.v : \/ call.op = "addDPoS" /\ DPoSAddValidator(v, stake[v])
                          \/ call.op = "updateDPoS" /\ DPoSUpdateStake(v, stake[v])
  BY DEF CallDPoS
<1>3. call # NoCall
  BY <1>2 DEF NoCall
<1>4. PICK w \in V, op \in CallOps : call = [op |-> op, v |-> {w}]
  BY <1>1, <1>3 DEF ManagerShape, IsCall
<1>5. call.v = {w} /\ v \in V /\ stake[v] \in Nat
  BY <1>1, <1>2, <1>4 DEF ManagerShape
<1>6. DPoSInv'
  BY <1>1, <1>2, <1>5, DPoSAddKeeps, DPoSUpdateKeeps
<1>7. \E o \in CallOps : call' = [op |-> o, v |-> {w}]
  <2>1. call' = [call EXCEPT !.op = IF call.op = "addDPoS" THEN "addNode" ELSE "updateNode"]
    BY DEF CallDPoS
  <2>2. "addNode" \in CallOps /\ "updateNode" \in CallOps
    BY DEF CallOps
  <2>3. call' = [op |-> IF call.op = "addDPoS" THEN "addNode" ELSE "updateNode", v |-> {w}]
    BY <1>4, <2>1
  <2> QED BY <2>2, <2>3
<1>8. /\ IsCall(call') /\ call' # NoCall /\ call'.v = call.v
      /\ call'.op \in {"updateDPoS", "updateNode"} => call.op = "updateDPoS"
  <2>1. PICK o \in CallOps : call' = [op |-> o, v |-> {w}]
    BY <1>7
  <2>2. call'.op = o /\ call'.v = {w}
    BY <2>1
  <2>3. o # NoCall.op
    BY DEF NoCall, CallOps
  <2>4. IsCall(call')
    BY <2>1 DEF IsCall
  <2>5. call'.op \in {"updateDPoS", "updateNode"} => call.op = "updateDPoS"
    <3>1. call'.op = IF call.op = "addDPoS" THEN "addNode" ELSE "updateNode"
      BY <1>4 DEF CallDPoS
    <3> QED BY <1>2, <3>1
  <2> QED BY <1>5, <2>2, <2>3, <2>4, <2>5, Zenon
<1>9. /\ status' = status /\ stake' = stake /\ active' = active /\ totalStake' = totalStake
      /\ activeTotalStake' = activeTotalStake /\ UNCHANGED <<node, nodeState, back>>
  BY DEF CallDPoS, managerVars, lachesisVars
<1>10. ManagerShape' /\ ManagerSums' /\ Covered'
  BY <1>1, <1>8, <1>9 DEF ManagerShape, ManagerSums, Covered
<1> QED BY <1>6, <1>10 DEF AllInv, ManagerInv

(* The call of Lachesis ends the call: the stake of its validator is covered  *)
(* again, and the active total is a sum again.                               *)
LEMMA CallLachesisKeeps == ASSUME AllInv, CallLachesis PROVE AllInv'
<1>1. ManagerInv /\ DPoSInv /\ ManagerShape /\ ManagerSums /\ Covered
  BY DEF AllInv, ManagerInv
<1>2. /\ call.op \in {"addNode", "updateNode"} /\ UpdateActive(status, stake) /\ call' = NoCall
      /\ status' = status /\ stake' = stake /\ totalStake' = totalStake /\ UNCHANGED dposVars
  BY DEF CallLachesis
<1>3. DPoSInv'
  BY <1>1, <1>2, DPoSStutters
<1>4. /\ active' \in SUBSET V /\ activeTotalStake' \in Int /\ activeTotalStake' = Sum(stake, active')
      /\ \A x \in active' : status[x] = "Active"
  BY <1>1, <1>2, UpdateActiveSets DEF ManagerShape
<1>5. PICK v \in call.v :
        /\ call.op = "addNode" \/ node[v] # NoNode =>
             node' = [node EXCEPT ![v] = stake[v]] /\ back' = back \ {v}
        /\ ~(call.op = "addNode" \/ node[v] # NoNode) => node' = node /\ back' = back
  BY DEF CallLachesis
<1>6. call # NoCall
  BY <1>5 DEF NoCall
<1>7. PICK w \in V, op \in CallOps : call = [op |-> op, v |-> {w}]
  BY <1>1, <1>6 DEF ManagerShape, IsCall
<1>8. call.v = {v} /\ v \in V /\ stake[v] \in Nat
  BY <1>1, <1>5, <1>7 DEF ManagerShape
<1>9. node \in [V -> Nat \cup {NoNode}] /\ stake \in [V -> Nat]
  BY <1>1 DEF ManagerShape
<1>10. /\ node' \in [V -> Nat \cup {NoNode}] /\ \A x \in V \ {v} : node'[x] = node[x]
       /\ nodeState' = nodeState /\ nodeState \in [V -> Nat \cup {NoNode}] /\ back' \in SUBSET V
       /\ \A x \in V \ {v} : x \in back' <=> x \in back
  BY <1>1, <1>5, <1>8, <1>9 DEF ManagerShape, CallLachesis
<1>11. v \notin back' => node'[v] <= stake[v] /\ (status[v] # "absent" => node'[v] # NoNode)
  <2> SUFFICES ASSUME v \notin back'
               PROVE  node'[v] <= stake[v] /\ (status[v] # "absent" => node'[v] # NoNode)
    OBVIOUS
  <2>1. CASE call.op = "addNode" \/ node[v] # NoNode
    <3>1. node'[v] = stake[v]
      BY <1>5, <1>8, <1>9, <2>1
    <3> QED BY <1>8, <3>1 DEF NoNode
  <2>2. CASE ~(call.op = "addNode" \/ node[v] # NoNode)
    <3>1. node' = node /\ v \notin back /\ node[v] = NoNode /\ call.op = "updateNode"
      BY <1>2, <1>5, <2>2
    <3>2. status[v] = "absent"
      BY <1>1, <1>8, <3>1 DEF Covered
    <3> QED BY <1>8, <3>1, <3>2 DEF NoNode
  <2> QED BY <2>1, <2>2
<1>13. IsCall(call') /\ call'.v = {}
  BY <1>2 DEF IsCall, NoCall
<1>14. ManagerShape' /\ ManagerSums'
  BY <1>1, <1>2, <1>4, <1>10, <1>13 DEF ManagerShape, ManagerSums
<1>15. Covered'
  BY <1>1, <1>2, <1>8, <1>10, <1>11, <1>13 DEF Covered
<1> QED BY <1>3, <1>14, <1>15 DEF AllInv, ManagerInv

(* A change of status changes no stake.                                      *)
LEMMA StatusKeeps ==
    ASSUME AllInv, NEW v \in V,
           ActivateValidator(v) \/ DeactivateValidator(v) \/ JailValidator(v) \/ UnjailValidator(v)
    PROVE  AllInv'
<1>1. ManagerInv /\ DPoSInv /\ ManagerShape /\ ManagerSums /\ Covered
  BY DEF AllInv, ManagerInv
<1>2. /\ call = NoCall /\ call' = call /\ stake' = stake /\ totalStake' = totalStake
      /\ UNCHANGED dposVars /\ UNCHANGED <<node, nodeState, back>>
  BY DEF ActivateValidator, DeactivateValidator, JailValidator, UnjailValidator, SetStatus, lachesisVars
<1>3. status[v] # "absent" /\ \E to \in Statuses \ {"absent"} : status' = [status EXCEPT ![v] = to]
  BY DEF ActivateValidator, DeactivateValidator, JailValidator, UnjailValidator, SetStatus, Statuses
<1>4. DPoSInv'
  BY <1>1, <1>2, DPoSStutters
<1>5. status' \in [V -> Statuses] /\ \A x \in V : status'[x] = "absent" <=> status[x] = "absent"
  BY <1>1, <1>3 DEF ManagerShape
<1>6. /\ active' \in SUBSET V /\ activeTotalStake' \in Int /\ activeTotalStake' = Sum(stake, active')
      /\ \A x \in active' : status'[x] # "absent"
  <2>1. CASE UnjailValidator(v)
    <3>1. active' = active /\ activeTotalStake' = activeTotalStake
      BY <2>1 DEF UnjailValidator
    <3> QED BY <1>1, <1>2, <1>5, <3>1 DEF ManagerShape, ManagerSums
  <2>2. CASE UpdateActive(status', stake)
    <3> DEFINE st == status'
    <3>1. UpdateActive(st, stake) /\ stake \in [V -> Nat]
      BY <1>1, <2>2 DEF ManagerShape
    <3> HIDE DEF st
    <3>2. /\ active' \in SUBSET V /\ activeTotalStake' \in Int /\ activeTotalStake' = Sum(stake, active')
          /\ \A x \in active' : st[x] = "Active"
      BY <1>1, <3>1, UpdateActiveSets
    <3> QED BY <3>2 DEF st
  <2> QED BY <2>1, <2>2 DEF ActivateValidator, DeactivateValidator, JailValidator
<1>7. ManagerShape' /\ ManagerSums' /\ Covered'
  BY <1>1, <1>2, <1>5, <1>6 DEF ManagerShape, ManagerSums, Covered
<1> QED BY <1>4, <1>7 DEF AllInv, ManagerInv

(* The rewards of an epoch raise stakes, which stay above those of Lachesis,  *)
(* and the total by their sum.                                               *)
LEMMA ManagerEpochKeeps == ASSUME AllInv, ProcessEpoch PROVE AllInv'
<1>1. ManagerInv /\ DPoSInv /\ ManagerShape /\ ManagerSums /\ Covered
  BY DEF AllInv, ManagerInv
<1>2. /\ call = NoCall /\ status' = status /\ call' = call /\ UNCHANGED dposVars
      /\ UNCHANGED <<node, nodeState, back>>
  BY DEF ProcessEpoch, lachesisVars
<1>3. DPoSInv'
  BY <1>1, <1>2, DPoSStutters
<1> DEFINE Payouts == IF activeTotalStake = 0 THEN {[v \in {} |-> 0]} ELSE [active -> EpochRewards]
           paid(r) == [v \in V |-> IF v \in DOMAIN r THEN stake[v] + r[v] ELSE stake[v]]
<1>4. PICK r \in Payouts : /\ stake' = paid(r) /\ totalStake' = totalStake + Sum(r, DOMAIN r)
                           /\ UpdateActive(status, paid(r))
  BY DEF ProcessEpoch
<1>5. DOMAIN r \in SUBSET V /\ \A v \in DOMAIN r : r[v] \in Nat
  <2>1. CASE r = [v \in {} |-> 0]
    BY <2>1
  <2>2. CASE r \in [active -> EpochRewards]
    BY <1>1, <2>2, EpochRewardAssumption DEF ManagerShape
  <2> QED BY <2>1, <2>2
<1> DEFINE p == paid(r)
           r0 == [v \in V |-> IF v \in DOMAIN r THEN r[v] ELSE 0]
<1>6. stake \in [V -> Nat] /\ IsFiniteSet(V) /\ totalStake \in Nat /\ \A x \in V : node[x] \in Int
  BY <1>1, ManagerFacts DEF ManagerShape
<1>7. /\ p \in [V -> Nat] /\ \A v \in V : p[v] = stake[v] + r0[v] /\ r0[v] \in Nat
  BY <1>5, <1>6
<1>8. (\A v \in DOMAIN r : r0[v] = r[v]) /\ (\A v \in V \ DOMAIN r : r0[v] = 0)
  BY <1>5
<1>9. stake' = p /\ UpdateActive(status, p)
  BY <1>4
<1> HIDE DEF p, r0, Payouts, paid
<1>10. /\ active' \in SUBSET V /\ activeTotalStake' \in Int /\ activeTotalStake' = Sum(p, active')
       /\ \A x \in active' : status[x] = "Active"
  BY <1>1, <1>7, <1>9, UpdateActiveSets
<1>11. Sum(p, V) = Sum(stake, V) + Sum(r0, V)
  <2>1. \A v \in V : stake[v] \in Int /\ r0[v] \in Int /\ p[v] = stake[v] + r0[v]
    BY <1>6, <1>7
  <2> QED BY <1>6, <2>1, SumPlus DEF Sum
<1>12. Sum(r0, V) = Sum(r0, DOMAIN r)
  <2>1. \A v \in V : r0[v] \in Int
    BY <1>7
  <2> QED BY <1>5, <1>6, <1>8, <2>1, SumSupport DEF Sum
<1>13. Sum(r0, DOMAIN r) = Sum(r, DOMAIN r)
  <2>1. IsFiniteSet(DOMAIN r)
    BY <1>5, <1>6, FS_Subset
  <2> QED BY <1>8, <2>1, SumSame DEF Sum
<1>14. totalStake' = Sum(stake', V)
  <2>1. totalStake = Sum(stake, V)
    BY <1>1 DEF ManagerSums
  <2> QED BY <1>4, <1>9, <1>11, <1>12, <1>13, <2>1
<1>15. \A v \in V : status[v] = "absent" => p[v] = 0 /\ v \notin active'
  <2> SUFFICES ASSUME NEW v \in V, status[v] = "absent" PROVE p[v] = 0 /\ v \notin active'
    OBVIOUS
  <2>1. stake[v] = 0 /\ v \notin active
    BY <1>1 DEF ManagerSums
  <2>2. v \notin DOMAIN r
    BY <1>4, <2>1 DEF Payouts
  <2>3. r0[v] = 0
    BY <1>8, <2>2
  <2> QED BY <1>7, <1>10, <2>1, <2>3
<1>16. \A v \in V \ back : v \notin call.v => node[v] <= p[v]
  <2> SUFFICES ASSUME NEW v \in V \ back, v \notin call.v PROVE node[v] <= p[v]
    OBVIOUS
  <2>1. node[v] <= stake[v] /\ node[v] \in Int /\ stake[v] \in Nat /\ r0[v] \in Nat
    BY <1>1, <1>6, <1>7 DEF Covered
  <2>2. p[v] = stake[v] + r0[v]
    BY <1>7
  <2> QED BY <2>1, <2>2
<1>17. ManagerShape' /\ ManagerSums' /\ Covered'
  BY <1>1, <1>2, <1>7, <1>9, <1>10, <1>14, <1>15, <1>16 DEF ManagerShape, ManagerSums, Covered
<1> QED BY <1>3, <1>17 DEF AllInv, ManagerInv

(* What Lachesis does without the manager: a restore marks what it changes,   *)
(* and gossip adds a validator only where a restore has removed it.          *)
LEMMA LachesisKeeps ==
    ASSUME AllInv, SaveLachesis \/ RestoreLachesis \/ \E v \in V : GossipAddsNode(v)
    PROVE  AllInv'
<1>1. ManagerInv /\ DPoSInv /\ ManagerShape /\ ManagerSums /\ Covered
  BY DEF AllInv, ManagerInv
<1>2. UNCHANGED <<managerVars, call, dposVars>>
  BY DEF SaveLachesis, RestoreLachesis, GossipAddsNode
<1>3. DPoSInv'
  BY <1>1, <1>2, DPoSStutters
<1>4. /\ status' = status /\ stake' = stake /\ active' = active /\ totalStake' = totalStake
      /\ activeTotalStake' = activeTotalStake /\ call' = call
  BY <1>2 DEF managerVars
<1>5. ManagerSums'
  BY <1>1, <1>4 DEF ManagerSums
<1>6. node \in [V -> Nat \cup {NoNode}] /\ nodeState \in [V -> Nat \cup {NoNode}] /\ back \in SUBSET V
  BY <1>1 DEF ManagerShape
<1>7. /\ node' \in [V -> Nat \cup {NoNode}] /\ nodeState' \in [V -> Nat \cup {NoNode}] /\ back' \in SUBSET V
      /\ \A x \in V \ back' : x \notin back /\ node'[x] = node[x]
  <2>1. CASE SaveLachesis
    BY <1>6, <2>1 DEF SaveLachesis
  <2>2. CASE RestoreLachesis
    BY <1>6, <2>2 DEF RestoreLachesis
  <2>3. ASSUME NEW v \in V, GossipAddsNode(v)
        PROVE  /\ node' \in [V -> Nat \cup {NoNode}] /\ nodeState' \in [V -> Nat \cup {NoNode}]
               /\ back' \in SUBSET V /\ \A x \in V \ back' : x \notin back /\ node'[x] = node[x]
    <3>1. /\ v \in Known /\ v \notin call.v /\ node[v] = NoNode /\ node' = [node EXCEPT ![v] = 1]
          /\ nodeState' = nodeState /\ back' = back
      BY <2>3 DEF GossipAddsNode
    <3>2. v \in back
      BY <1>1, <3>1 DEF Covered, Known
    <3> QED BY <1>6, <3>1, <3>2
  <2> QED BY <2>1, <2>2, <2>3
<1>8. ManagerShape' /\ Covered'
  BY <1>1, <1>4, <1>7 DEF ManagerShape, Covered
<1> QED BY <1>3, <1>5, <1>8 DEF AllInv, ManagerInv

-----------------------------------------------------------------------------
(* The inductive invariant of the manager over DPoS.                         *)
THEOREM ManagerInvariant == Spec => []AllInv
<1>1. ManagerInit /\ DPoSInit => AllInv
  <2> SUFFICES ASSUME ManagerInit, DPoSInit PROVE AllInv
    OBVIOUS
  <2>1. DPoSInv
    BY DPoSInitial
  <2>2. NoStake \in [V -> Nat] /\ \A v \in V : NoStake[v] = 0
    BY DEF NoStake
  <2>3. Sum(NoStake, V) = 0 /\ Sum(NoStake, {}) = 0
    <3>1. SumFunctionOnSet(NoStake, V) = SumFunctionOnSet(NoStake, {})
      BY <2>2, SizeAssumption, SumSupport
    <3> QED BY <3>1, SumEmpty DEF Sum
  <2>4. /\ node \in [V -> Nat \cup {NoNode}] /\ nodeState = node /\ back = {}
        /\ \A v \in V : node[v] = NoNode /\ status[v] = "absent"
    BY DEF ManagerInit
  <2>5. ManagerShape
    BY <2>2, <2>4 DEF ManagerInit, ManagerShape, IsCall, Statuses
  <2>6. ManagerSums
    BY <2>2, <2>3 DEF ManagerInit, ManagerSums
  <2>7. Covered
    BY <2>2, <2>4 DEF ManagerInit, Covered, NoNode
  <2> QED BY <2>1, <2>5, <2>6, <2>7 DEF AllInv, ManagerInv
<1>2. AllInv /\ [ManagerNext]_vars => AllInv'
  <2> SUFFICES ASSUME AllInv, [ManagerNext]_vars PROVE AllInv'
    OBVIOUS
  <2>1. ASSUME NEW v \in V, NEW s \in Stakes, AddValidator(v, s) \/ UpdateStake(v, s) \/ SlashValidator(v, s)
        PROVE  AllInv'
    BY <2>1, StakeCallsKeep
  <2>2. ASSUME NEW v \in V,
               ActivateValidator(v) \/ DeactivateValidator(v) \/ JailValidator(v) \/ UnjailValidator(v)
        PROVE  AllInv'
    BY <2>2, StatusKeeps
  <2>3. CASE CallDPoS
    BY <2>3, CallDPoSKeeps
  <2>4. CASE CallLachesis
    BY <2>4, CallLachesisKeeps
  <2>5. CASE ProcessEpoch
    BY <2>5, ManagerEpochKeeps
  <2>6. ManagerInv /\ UNCHANGED <<managerVars, call, lachesisVars>> => ManagerInv'
    BY DEF ManagerInv, ManagerShape, ManagerSums, Covered, managerVars, lachesisVars
  <2>7. ASSUME NEW n \in SetSizes, SetSetSize(n), UNCHANGED <<managerVars, call, lachesisVars>> PROVE AllInv'
    <3>1. DPoSInv'
      BY <2>7, SetSizeKeeps DEF AllInv
    <3> QED BY <2>6, <2>7, <3>1 DEF AllInv
  <2>8. CASE UNCHANGED vars
    <3>1. DPoSInv'
      BY <2>8, DPoSStutters DEF AllInv, vars
    <3> QED BY <2>6, <2>8, <3>1 DEF AllInv, vars
  <2>9. ASSUME SaveLachesis \/ RestoreLachesis \/ \E v \in V : GossipAddsNode(v) PROVE AllInv'
    BY <2>9, LachesisKeeps
  <2> QED BY <2>1, <2>2, <2>3, <2>4, <2>5, <2>7, <2>8, <2>9 DEF ManagerNext
<1> QED BY <1>1, <1>2, PTL DEF Spec

(* Neither side's unsigned stakes and totals wrap around under the calls the  *)
(* manager makes.                                                            *)
THEOREM StakesNeverWrap == Spec => []TypeOK
<1>1. AllInv => TypeOK
  <2> SUFFICES ASSUME AllInv PROVE TypeOK
    OBVIOUS
  <2>1. ManagerInv /\ ManagerShape /\ ManagerSums /\ DPoSTypeOK
    BY DPoSTypes DEF AllInv, ManagerInv
  <2>2. totalStake \in Nat
    BY <2>1, ManagerFacts
  <2>3. call = NoCall => activeTotalStake >= 0
    <3> SUFFICES ASSUME call = NoCall PROVE activeTotalStake >= 0
      OBVIOUS
    <3>1. activeTotalStake = Sum(stake, active) /\ Sum(stake, active) \in Nat
      BY <2>1, StakeSum DEF ManagerShape, ManagerSums
    <3> QED BY <3>1
  <2> QED BY <2>1, <2>2, <2>3 DEF ManagerShape, TypeOK, ManagerTypeOK, Statuses
<1> QED BY <1>1, ManagerInvariant, PTL

(* Between calls the totals of the manager are the sums over its map and its  *)
(* active list.                                                              *)
THEOREM ManagerTotalsAreSums == Spec => []ManagerStakesAdd
<1>1. AllInv => ManagerStakesAdd
  BY DEF AllInv, ManagerInv, ManagerSums, ManagerStakesAdd
<1> QED BY <1>1, ManagerInvariant, PTL

(* Lachesis votes with no more stake than the manager has, but for validators *)
(* whose node a restore has changed and no change of stake has set since.     *)
THEOREM VotesAreCovered == Spec => []VoteCovered
<1>1. AllInv => VoteCovered
  <2> SUFFICES ASSUME AllInv, call = NoCall, NEW v \in Known \ back PROVE node[v] <= stake[v]
    BY DEF VoteCovered
  <2>1. v \in V /\ call.v = {}
    BY DEF Known, NoCall
  <2> QED BY <2>1 DEF AllInv, ManagerInv, Covered
<1> QED BY <1>1, ManagerInvariant, PTL

-----------------------------------------------------------------------------
(* The tally of a proposal over DPoS.                                        *)

ProposalType ==
  [status : {"none", "deleted", "Pending", "Active", "Passed", "Rejected", "Executed"}, creator : SUBSET V,
   change : Changes \cup {{}}, yes : SUBSET V, no : SUBSET V, ended : BOOLEAN]
SweepType ==
  [pc : {"idle", "next", "voters", "count", "add"}, todo : SUBSET Proposals, due : SUBSET Proposals,
   p : SUBSET Proposals, total : Int, voters : SUBSET V, count : Nat, yes : Int, disturbed : BOOLEAN]

(* A proposal that exists asks for a change that is known.                   *)
GovernanceShape ==
  /\ prop \in [Proposals -> ProposalType] /\ sweep \in SweepType
  /\ \A p \in Proposals : Exists(p) => prop[p].change \in Changes
  /\ sweep.pc = "add" => sweep.count > 0

(* What a sweep still has to look at is not deleted meanwhile.               *)
SweepOpen ==
  /\ \A x \in sweep.todo \cup sweep.p : Exists(x)
  /\ sweep.pc = "idle" => sweep.todo = {} /\ sweep.p = {}

(* The share one head has of the total stake, and the heads counted so far.   *)
Share == dTotal \div Cardinality(dActive)
Heads(p) == (prop[p].yes \ sweep.voters) \cap dActive

(* While DPoS rests, the stake counted for p is the share of the heads counted. *)
Counted(p) ==
  /\ sweep.total = dTotal /\ sweep.voters \subseteq prop[p].yes
  /\ sweep.pc = "voters" =>
       sweep.yes = IF dActive = {} THEN 0 ELSE Cardinality(Heads(p)) * Share
  /\ sweep.pc \in {"count", "add"} =>
       /\ dActive # {} /\ Cardinality(Heads(p)) > 0
       /\ sweep.yes = (Cardinality(Heads(p)) - 1) * Share
  /\ sweep.pc = "add" => sweep.count = Cardinality(dActive)

TallyInv ==
  sweep.pc \in {"voters", "count", "add"} =>
    \E p \in Proposals : sweep.p = {p} /\ (~sweep.disturbed => Counted(p))

GovernanceInv == GovernanceShape /\ SweepOpen /\ TallyInv /\ DPoSInv

(* Division by a count of validators.                                        *)
LEMMA DivInt == ASSUME NEW a \in Int, NEW b \in Nat, b > 0 PROVE a \div b \in Int
  OBVIOUS

(* With a share per head, 66 % of the stake are 66 % of the heads.           *)
LEMMA MajorityOfHeads ==
    ASSUME NEW total \in Nat, total > 0, NEW n \in Nat, NEW k \in Nat, n > 0,
           100 * (k * (total \div n)) >= 66 * total
    PROVE  100 * k >= 66 * n
<1> DEFINE d == total \div n
<1>1. d \in Nat /\ n * d <= total
  OBVIOUS
<1>2. 100 * (k * d) >= 66 * total
  OBVIOUS
<1> HIDE DEF d
<1>3. d > 0
  BY <1>1, <1>2
<1>4. 66 * (n * d) <= 100 * (k * d)
  <2> DEFINE x == n * d
             y == k * d
  <2>1. x \in Nat /\ y \in Nat /\ x <= total /\ 100 * y >= 66 * total
    BY <1>1, <1>2
  <2> HIDE DEF x, y
  <2>2. 66 * x <= 100 * y
    BY <2>1
  <2> QED BY <2>2 DEF x, y
<1> SUFFICES ASSUME 100 * k < 66 * n PROVE FALSE
  OBVIOUS
<1>5. (100 * k) * d < (66 * n) * d
  BY <1>1, <1>3
<1> QED BY <1>1, <1>4, <1>5

(* What a state tells about heads and shares.                                *)
LEMMA HeadsFacts ==
    ASSUME GovernanceInv, NEW p \in Proposals
    PROVE  /\ prop[p].yes \in SUBSET V /\ sweep.voters \in SUBSET V /\ dActive \in SUBSET V /\ dTotal \in Int
           /\ IsFiniteSet(Heads(p)) /\ Cardinality(Heads(p)) \in Nat
           /\ Cardinality(dActive) \in Nat
           /\ dActive # {} => Cardinality(dActive) > 0 /\ Share \in Int
<1>1. dActive \in SUBSET V /\ dTotal \in Int
  BY DEF GovernanceInv, DPoSInv, EngineInv, EngineShape
<1>2. prop[p].yes \in SUBSET V /\ sweep.voters \in SUBSET V
  BY DEF GovernanceInv, GovernanceShape, ProposalType, SweepType
<1>3. Heads(p) \in SUBSET V
  BY <1>1 DEF Heads
<1>4. IsFiniteSet(Heads(p)) /\ IsFiniteSet(dActive)
  BY <1>1, <1>3, FS_Subset, SizeAssumption
<1>5. Cardinality(Heads(p)) \in Nat /\ Cardinality(dActive) \in Nat
  BY <1>4, FS_CardinalityType
<1>6. ASSUME dActive # {} PROVE Cardinality(dActive) > 0 /\ Share \in Int
  <2>1. Cardinality(dActive) > 0
    BY <1>4, <1>5, <1>6, FS_EmptySet
  <2> QED BY <1>1, <1>5, <2>1, DivInt DEF Share
<1> QED BY <1>1, <1>2, <1>4, <1>5, <1>6

(* The fields of a sweep after one or two of them have changed.              *)
SweepRecord(pc, todo, due, p, total, voters, count, yes, disturbed) ==
  [pc |-> pc, todo |-> todo, due |-> due, p |-> p, total |-> total, voters |-> voters, count |-> count,
   yes |-> yes, disturbed |-> disturbed]

LEMMA SweepFields ==
    ASSUME NEW rec \in SweepType, NEW a, NEW b
    PROVE  /\ [rec EXCEPT !.todo = a] =
                SweepRecord(rec.pc, a, rec.due, rec.p, rec.total, rec.voters, rec.count, rec.yes, rec.disturbed)
           /\ [rec EXCEPT !.disturbed = a] =
                SweepRecord(rec.pc, rec.todo, rec.due, rec.p, rec.total, rec.voters, rec.count, rec.yes, a)
           /\ [rec EXCEPT !.voters = b, !.pc = a] =
                SweepRecord(a, rec.todo, rec.due, rec.p, rec.total, b, rec.count, rec.yes, rec.disturbed)
           /\ [rec EXCEPT !.pc = a, !.count = b] =
                SweepRecord(a, rec.todo, rec.due, rec.p, rec.total, rec.voters, b, rec.yes, rec.disturbed)
           /\ [rec EXCEPT !.pc = a, !.yes = b] =
                SweepRecord(a, rec.todo, rec.due, rec.p, rec.total, rec.voters, rec.count, b, rec.disturbed)
           /\ [rec EXCEPT !.pc = a, !.p = b] =
                SweepRecord(a, rec.todo, rec.due, b, rec.total, rec.voters, rec.count, rec.yes, rec.disturbed)
<1> DEFINE A == {"idle", "next", "voters", "count", "add"}
           B == SUBSET Proposals
           C == Int
           D == SUBSET V
           E == Nat
           G == BOOLEAN
<1>1. rec \in [pc : A, todo : B, due : B, p : B, total : C, voters : D, count : E, yes : C,
             disturbed : G]
  BY Zenon DEF SweepType
<1> HIDE DEF A, B, C, D, E, G
<1>2. [rec EXCEPT !.todo = a] =
      SweepRecord(rec.pc, a, rec.due, rec.p, rec.total, rec.voters, rec.count, rec.yes, rec.disturbed)
  BY <1>1 DEF SweepRecord
<1>3. [rec EXCEPT !.disturbed = a] =
      SweepRecord(rec.pc, rec.todo, rec.due, rec.p, rec.total, rec.voters, rec.count, rec.yes, a)
  BY <1>1 DEF SweepRecord
<1>4. [rec EXCEPT !.voters = b, !.pc = a] =
      SweepRecord(a, rec.todo, rec.due, rec.p, rec.total, b, rec.count, rec.yes, rec.disturbed)
  <2> DEFINE mid == [rec EXCEPT !.voters = b]
             new == [mid EXCEPT !.pc = a]
  <2>1. mid \in [pc : A, todo : B, due : B, p : B, total : C, voters : {b}, count : E, yes : C,
             disturbed : G]
    BY <1>1
  <2>2. /\ mid.voters = b /\ mid.pc = rec.pc /\ mid.todo = rec.todo /\ mid.due = rec.due /\ mid.p = rec.p
        /\ mid.total = rec.total /\ mid.count = rec.count /\ mid.yes = rec.yes /\ mid.disturbed = rec.disturbed
    BY <1>1
  <2>3. [rec EXCEPT !.voters = b, !.pc = a] = new
    OBVIOUS
  <2> HIDE DEF mid
  <2>4. new = SweepRecord(a, mid.todo, mid.due, mid.p, mid.total, mid.voters, mid.count, mid.yes, mid.disturbed)
    BY <2>1 DEF SweepRecord
  <2> HIDE DEF new
  <2> QED BY <2>2, <2>3, <2>4
<1>5. [rec EXCEPT !.pc = a, !.count = b] =
      SweepRecord(a, rec.todo, rec.due, rec.p, rec.total, rec.voters, b, rec.yes, rec.disturbed)
  <2> DEFINE mid == [rec EXCEPT !.pc = a]
             new == [mid EXCEPT !.count = b]
  <2>1. mid \in [pc : {a}, todo : B, due : B, p : B, total : C, voters : D, count : E, yes : C,
             disturbed : G]
    BY <1>1
  <2>2. /\ mid.pc = a /\ mid.todo = rec.todo /\ mid.due = rec.due /\ mid.p = rec.p /\ mid.total = rec.total
        /\ mid.voters = rec.voters /\ mid.count = rec.count /\ mid.yes = rec.yes /\ mid.disturbed = rec.disturbed
    BY <1>1
  <2>3. [rec EXCEPT !.pc = a, !.count = b] = new
    OBVIOUS
  <2> HIDE DEF mid
  <2>4. new = SweepRecord(mid.pc, mid.todo, mid.due, mid.p, mid.total, mid.voters, b, mid.yes, mid.disturbed)
    BY <2>1 DEF SweepRecord
  <2> HIDE DEF new
  <2> QED BY <2>2, <2>3, <2>4
<1>6. [rec EXCEPT !.pc = a, !.yes = b] =
      SweepRecord(a, rec.todo, rec.due, rec.p, rec.total, rec.voters, rec.count, b, rec.disturbed)
  <2> DEFINE mid == [rec EXCEPT !.pc = a]
             new == [mid EXCEPT !.yes = b]
  <2>1. mid \in [pc : {a}, todo : B, due : B, p : B, total : C, voters : D, count : E, yes : C,
             disturbed : G]
    BY <1>1
  <2>2. /\ mid.pc = a /\ mid.todo = rec.todo /\ mid.due = rec.due /\ mid.p = rec.p /\ mid.total = rec.total
        /\ mid.voters = rec.voters /\ mid.count = rec.count /\ mid.yes = rec.yes /\ mid.disturbed = rec.disturbed
    BY <1>1
  <2>3. [rec EXCEPT !.pc = a, !.yes = b] = new
    OBVIOUS
  <2> HIDE DEF mid
  <2>4. new = SweepRecord(mid.pc, mid.todo, mid.due, mid.p, mid.total, mid.voters, mid.count, b, mid.disturbed)
    BY <2>1 DEF SweepRecord
  <2> HIDE DEF new
  <2> QED BY <2>2, <2>3, <2>4
<1>7. [rec EXCEPT !.pc = a, !.p = b] =
      SweepRecord(a, rec.todo, rec.due, b, rec.total, rec.voters, rec.count, rec.yes, rec.disturbed)
  <2> DEFINE mid == [rec EXCEPT !.pc = a]
             new == [mid EXCEPT !.p = b]
  <2>1. mid \in [pc : {a}, todo : B, due : B, p : B, total : C, voters : D, count : E, yes : C,
             disturbed : G]
    BY <1>1
  <2>2. /\ mid.pc = a /\ mid.todo = rec.todo /\ mid.due = rec.due /\ mid.p = rec.p /\ mid.total = rec.total
        /\ mid.voters = rec.voters /\ mid.count = rec.count /\ mid.yes = rec.yes /\ mid.disturbed = rec.disturbed
    BY <1>1
  <2>3. [rec EXCEPT !.pc = a, !.p = b] = new
    OBVIOUS
  <2> HIDE DEF mid
  <2>4. new = SweepRecord(mid.pc, mid.todo, mid.due, b, mid.total, mid.voters, mid.count, mid.yes, mid.disturbed)
    BY <2>1 DEF SweepRecord
  <2> HIDE DEF new
  <2> QED BY <2>2, <2>3, <2>4
<1> QED BY <1>2, <1>3, <1>4, <1>5, <1>6, <1>7

(* A sweep made of its fields.                                              *)
LEMMA SweepMade ==
    ASSUME NEW pc \in {"idle", "next", "voters", "count", "add"}, NEW todo \in SUBSET Proposals,
           NEW due \in SUBSET Proposals, NEW p \in SUBSET Proposals, NEW total \in Int, NEW voters \in SUBSET V,
           NEW count \in Nat, NEW yes \in Int, NEW disturbed \in BOOLEAN
    PROVE  /\ SweepRecord(pc, todo, due, p, total, voters, count, yes, disturbed) \in SweepType
           /\ SweepRecord(pc, todo, due, p, total, voters, count, yes, disturbed).pc = pc
           /\ SweepRecord(pc, todo, due, p, total, voters, count, yes, disturbed).todo = todo
           /\ SweepRecord(pc, todo, due, p, total, voters, count, yes, disturbed).p = p
           /\ SweepRecord(pc, todo, due, p, total, voters, count, yes, disturbed).total = total
           /\ SweepRecord(pc, todo, due, p, total, voters, count, yes, disturbed).voters = voters
           /\ SweepRecord(pc, todo, due, p, total, voters, count, yes, disturbed).count = count
           /\ SweepRecord(pc, todo, due, p, total, voters, count, yes, disturbed).yes = yes
           /\ SweepRecord(pc, todo, due, p, total, voters, count, yes, disturbed).disturbed = disturbed
<1>1. SweepRecord(pc, todo, due, p, total, voters, count, yes, disturbed) \in SweepType
  BY DEF SweepRecord, SweepType
<1> QED BY <1>1 DEF SweepRecord

(* The types of the fields of a sweep.                                       *)
LEMMA SweepTypes ==
    ASSUME NEW rec \in SweepType
    PROVE  /\ rec.pc \in {"idle", "next", "voters", "count", "add"} /\ rec.todo \in SUBSET Proposals
           /\ rec.due \in SUBSET Proposals /\ rec.p \in SUBSET Proposals /\ rec.total \in Int
           /\ rec.voters \in SUBSET V /\ rec.count \in Nat /\ rec.yes \in Int /\ rec.disturbed \in BOOLEAN
<1>1. /\ rec.pc \in {"idle", "next", "voters", "count", "add"} /\ rec.todo \in SUBSET Proposals
      /\ rec.due \in SUBSET Proposals /\ rec.p \in SUBSET Proposals /\ rec.total \in Int
      /\ rec.voters \in SUBSET V /\ rec.count \in Nat /\ rec.yes \in Int
  BY DEF SweepType
<1>2. rec.disturbed \in BOOLEAN
  BY DEF SweepType
<1> QED BY <1>1, <1>2

(* The fields of a proposal after one or two of them have changed.           *)
LEMMA ProposalFields ==
    ASSUME NEW rec \in ProposalType
    PROVE  /\ \A s : [rec EXCEPT !.status = s] =
                       [status |-> s, creator |-> rec.creator, change |-> rec.change, yes |-> rec.yes,
                        no |-> rec.no, ended |-> rec.ended]
           /\ \A y, n : [rec EXCEPT !.yes = y, !.no = n] =
                       [status |-> rec.status, creator |-> rec.creator, change |-> rec.change, yes |-> y,
                        no |-> n, ended |-> rec.ended]
           /\ \A b : [rec EXCEPT !.ended = b] =
                       [status |-> rec.status, creator |-> rec.creator, change |-> rec.change, yes |-> rec.yes,
                        no |-> rec.no, ended |-> b]
<1> DEFINE A == {"none", "deleted", "Pending", "Active", "Passed", "Rejected", "Executed"}
           B == SUBSET V
           C == Changes \cup {{}}
           F == BOOLEAN
<1>1. rec \in [status : A, creator : B, change : C, yes : B, no : B, ended : F]
  BY Zenon DEF ProposalType
<1> HIDE DEF A, B, C, F
<1>2. ASSUME NEW s, NEW y, NEW n, NEW b
      PROVE  /\ [rec EXCEPT !.status = s] =
                  [status |-> s, creator |-> rec.creator, change |-> rec.change, yes |-> rec.yes,
                   no |-> rec.no, ended |-> rec.ended]
             /\ [rec EXCEPT !.yes = y, !.no = n] =
                  [status |-> rec.status, creator |-> rec.creator, change |-> rec.change, yes |-> y,
                   no |-> n, ended |-> rec.ended]
             /\ [rec EXCEPT !.ended = b] =
                  [status |-> rec.status, creator |-> rec.creator, change |-> rec.change, yes |-> rec.yes,
                   no |-> rec.no, ended |-> b]
  <2>1. [rec EXCEPT !.status = s] =
          [status |-> s, creator |-> rec.creator, change |-> rec.change, yes |-> rec.yes,
           no |-> rec.no, ended |-> rec.ended]
    BY <1>1
  <2>2. [rec EXCEPT !.ended = b] =
          [status |-> rec.status, creator |-> rec.creator, change |-> rec.change, yes |-> rec.yes,
           no |-> rec.no, ended |-> b]
    BY <1>1
  <2> DEFINE mid == [rec EXCEPT !.yes = y]
             new == [mid EXCEPT !.no = n]
  <2>3. /\ mid \in [status : A, creator : B, change : C, yes : {y}, no : B, ended : F] /\ mid.yes = y
        /\ mid.status = rec.status /\ mid.creator = rec.creator /\ mid.change = rec.change
        /\ mid.no = rec.no /\ mid.ended = rec.ended
    BY <1>1
  <2>4. [rec EXCEPT !.yes = y, !.no = n] = new
    OBVIOUS
  <2> HIDE DEF mid
  <2>5. new = [status |-> mid.status, creator |-> mid.creator, change |-> mid.change, yes |-> mid.yes,
               no |-> n, ended |-> mid.ended]
    BY <2>3
  <2> HIDE DEF new
  <2> QED BY <2>1, <2>2, <2>3, <2>4, <2>5
<1> QED BY <1>2, Zenon

(* One proposal is replaced.                                                *)
LEMMA ProposalReplaced ==
    ASSUME GovernanceShape, NEW p \in Proposals, NEW rec \in ProposalType, prop' = [prop EXCEPT ![p] = rec],
           sweep' = sweep, rec.status \notin {"none", "deleted"} => rec.change \in Changes
    PROVE  GovernanceShape'
<1>1. prop' \in [Proposals -> ProposalType]
  BY DEF GovernanceShape
<1>2. prop'[p] = rec /\ \A x \in Proposals \ {p} : prop'[x] = prop[x]
  BY DEF GovernanceShape
<1>3. \A x \in Proposals : Exists(x)' => prop'[x].change \in Changes
  <2> SUFFICES ASSUME NEW x \in Proposals, prop'[x].status \notin {"none", "deleted"}
               PROVE  prop'[x].change \in Changes
    BY DEF Exists
  <2>1. CASE x = p
    BY <1>2, <2>1
  <2>2. CASE x # p
    BY <1>2, <2>2 DEF GovernanceShape, Exists
  <2> QED BY <2>1, <2>2
<1> QED BY <1>1, <1>3 DEF GovernanceShape

(* A new status.                                                            *)
LEMMA StatusType ==
    ASSUME NEW rec \in ProposalType,
           NEW s \in {"none", "deleted", "Pending", "Active", "Passed", "Rejected", "Executed"}
    PROVE  LET new == [rec EXCEPT !.status = s]
           IN new \in ProposalType /\ new.status = s /\ new.change = rec.change /\ new.yes = rec.yes
<1> DEFINE new == [rec EXCEPT !.status = s]
<1>1. new = [status |-> s, creator |-> rec.creator, change |-> rec.change, yes |-> rec.yes,
             no |-> rec.no, ended |-> rec.ended]
  BY ProposalFields
<1>2. /\ rec.creator \in SUBSET V /\ rec.change \in Changes \cup {{}} /\ rec.yes \in SUBSET V
      /\ rec.no \in SUBSET V
  BY DEF ProposalType
<1>3. rec.ended \in BOOLEAN
  BY DEF ProposalType
<1> HIDE DEF new
<1>4. new \in ProposalType
  BY <1>1, <1>2, <1>3 DEF ProposalType
<1>5. new.status = s /\ new.change = rec.change /\ new.yes = rec.yes
  BY <1>1
<1> QED BY <1>4, <1>5 DEF new

(* What a proposal is when it is created and when it is gone.                *)
LEMMA ProposalTypes ==
    /\ NoProposal \in ProposalType /\ Deleted \in ProposalType
    /\ NoProposal.status = "none" /\ Deleted.status = "deleted"
<1>1. NoProposal = [status |-> "none", creator |-> {}, change |-> {}, yes |-> {}, no |-> {}, ended |-> FALSE]
  BY DEF NoProposal
<1>2. FALSE \in BOOLEAN
  OBVIOUS
<1>3. NoProposal \in ProposalType /\ NoProposal.status = "none"
  BY <1>1, <1>2 DEF ProposalType
<1>4. Deleted = [NoProposal EXCEPT !.status = "deleted"]
  BY DEF Deleted
<1>5. Deleted \in ProposalType /\ Deleted.status = "deleted"
  BY <1>3, <1>4, StatusType
<1> QED BY <1>3, <1>5

(* No tally is in progress before and after.                                *)
LEMMA NoTally == SweepOpen /\ sweep.pc = "idle" /\ sweep' = sweep => TallyInv' /\ SweepOpen'
  BY DEF TallyInv, SweepOpen

(* Creating, cancelling and voting: no tally is in progress.                 *)
LEMMA ProposalCallsKeep ==
    ASSUME GovernanceInv, NEW p \in Proposals, NEW v \in V,
           \/ \E change \in Changes : CreateProposal(p, v, change)
           \/ CancelProposal(p, v)
           \/ \E inFavour \in BOOLEAN : Vote(p, v, inFavour)
    PROVE  GovernanceInv'
<1>1. GovernanceShape /\ SweepOpen /\ TallyInv /\ DPoSInv /\ prop[p] \in ProposalType
  BY DEF GovernanceInv, GovernanceShape
<1>2. sweep' = sweep /\ sweep.pc = "idle" /\ UNCHANGED dposVars
  BY DEF CreateProposal, CancelProposal, Vote, MutexFree
<1>3. DPoSInv' /\ TallyInv' /\ SweepOpen'
  BY <1>1, <1>2, DPoSStutters, NoTally
<1>4. ASSUME NEW change \in Changes, CreateProposal(p, v, change) PROVE GovernanceShape'
  <2> DEFINE rec == [status |-> "Pending", creator |-> {v}, change |-> change, yes |-> {}, no |-> {},
                     ended |-> FALSE]
  <2>1. prop' = [prop EXCEPT ![p] = rec]
    BY <1>4 DEF CreateProposal
  <2>2. FALSE \in BOOLEAN
    OBVIOUS
  <2>3. rec \in ProposalType /\ rec.change = change
    BY <2>2 DEF ProposalType
  <2> HIDE DEF rec
  <2> QED BY <1>1, <1>2, <2>1, <2>3, ProposalReplaced
<1>5. ASSUME CancelProposal(p, v) PROVE GovernanceShape'
  <2> DEFINE rec == Deleted
  <2>1. prop' = [prop EXCEPT ![p] = rec]
    BY <1>5 DEF CancelProposal
  <2>2. rec \in ProposalType /\ rec.status = "deleted"
    BY ProposalTypes
  <2> HIDE DEF rec
  <2> QED BY <1>1, <1>2, <2>1, <2>2, ProposalReplaced
<1>6. ASSUME NEW inFavour \in BOOLEAN, Vote(p, v, inFavour) PROVE GovernanceShape'
  <2> DEFINE y == IF inFavour THEN prop[p].yes \cup {v} ELSE prop[p].yes \ {v}
             n == IF inFavour THEN prop[p].no \ {v} ELSE prop[p].no \cup {v}
             rec == [status |-> prop[p].status, creator |-> prop[p].creator, change |-> prop[p].change,
                     yes |-> y, no |-> n, ended |-> prop[p].ended]
  <2>1. prop' = [prop EXCEPT ![p] = [prop[p] EXCEPT !.yes = y, !.no = n]] /\ prop[p].status = "Active"
    BY <1>6 DEF Vote
  <2>2. /\ prop[p].yes \in SUBSET V /\ prop[p].no \in SUBSET V /\ prop[p].creator \in SUBSET V
        /\ prop[p].change \in Changes \cup {{}}
    BY <1>1 DEF ProposalType
  <2>3. prop[p].ended \in BOOLEAN
    BY <1>1 DEF ProposalType
  <2>4. y \in SUBSET V /\ n \in SUBSET V
    BY <2>2
  <2> HIDE DEF y, n
  <2>5. [prop[p] EXCEPT !.yes = y, !.no = n] = rec
    <3>1. \A a, b : [prop[p] EXCEPT !.yes = a, !.no = b] =
            [status |-> prop[p].status, creator |-> prop[p].creator, change |-> prop[p].change,
             yes |-> a, no |-> b, ended |-> prop[p].ended]
      BY <1>1, ProposalFields, Zenon
    <3> QED BY <3>1, Zenon
  <2>6. rec \in ProposalType
    BY <2>1, <2>2, <2>3, <2>4 DEF ProposalType
  <2>7. rec.change \in Changes
    BY <1>1, <2>1 DEF GovernanceShape, Exists
  <2> HIDE DEF rec
  <2> QED BY <1>1, <1>2, <2>1, <2>5, <2>6, <2>7, ProposalReplaced
<1> QED BY <1>3, <1>4, <1>5, <1>6 DEF GovernanceInv

(* The end of the voting may pass during a tally and changes no vote.        *)
LEMMA ElapseKeeps == ASSUME GovernanceInv, NEW p \in Proposals, Elapse(p) PROVE GovernanceInv'
<1>1. GovernanceShape /\ SweepOpen /\ TallyInv /\ DPoSInv /\ prop[p] \in ProposalType
  BY DEF GovernanceInv, GovernanceShape
<1>2. sweep' = sweep /\ UNCHANGED dposVars /\ Exists(p) /\ prop' = [prop EXCEPT ![p] = [prop[p] EXCEPT !.ended = TRUE]]
  BY DEF Elapse
<1> DEFINE rec == [status |-> prop[p].status, creator |-> prop[p].creator, change |-> prop[p].change,
                   yes |-> prop[p].yes, no |-> prop[p].no, ended |-> TRUE]
<1>3. [prop[p] EXCEPT !.ended = TRUE] = rec
  BY <1>1, ProposalFields, Zenon
<1>4. TRUE \in BOOLEAN
  OBVIOUS
<1>5. /\ rec \in ProposalType /\ rec.change = prop[p].change /\ rec.yes = prop[p].yes
      /\ rec.status = prop[p].status
  BY <1>1, <1>4 DEF ProposalType
<1> HIDE DEF rec
<1>6. prop[p].change \in Changes
  BY <1>1, <1>2 DEF GovernanceShape
<1>7. GovernanceShape'
  BY <1>1, <1>2, <1>3, <1>5, <1>6, ProposalReplaced
<1>8. \A x \in Proposals : prop'[x].yes = prop[x].yes /\ prop'[x].status = prop[x].status
  BY <1>1, <1>2, <1>3, <1>5 DEF GovernanceShape
<1>9. dTotal' = dTotal /\ dActive' = dActive
  BY <1>2 DEF dposVars, engineVars
<1>10. \A x \in Proposals : Counted(x) => Counted(x)'
  BY <1>2, <1>8, <1>9 DEF Counted, Heads, Share
<1>11. TallyInv'
  BY <1>1, <1>2, <1>10 DEF TallyInv
<1>12. SweepOpen'
  <2>1. sweep.todo \in SUBSET Proposals /\ sweep.p \in SUBSET Proposals
    BY <1>1, SweepTypes DEF GovernanceShape
  <2> QED BY <1>1, <1>2, <1>8, <2>1 DEF SweepOpen, Exists
<1> QED BY <1>1, <1>2, <1>7, <1>11, <1>12, DPoSStutters DEF GovernanceInv

(* A sweep that begins and one that has ended.                               *)
LEMMA SweepStarts ==
    ASSUME NEW todo, NEW due
    PROVE  \E no \in BOOLEAN :
             /\ NoSweep = SweepRecord("idle", {}, {}, {}, 0, {}, 0, 0, no)
             /\ [NoSweep EXCEPT !.pc = "next", !.todo = todo, !.due = due] =
                  SweepRecord("next", todo, due, {}, 0, {}, 0, 0, no)
<1>0. PICK no \in BOOLEAN : no = FALSE
  OBVIOUS
<1>1. NoSweep = [pc |-> "idle", todo |-> {}, due |-> {}, p |-> {}, total |-> 0, voters |-> {},
                 count |-> 0, yes |-> 0, disturbed |-> no]
  BY <1>0, Zenon DEF NoSweep
<1> DEFINE one == [NoSweep EXCEPT !.pc = "next"]
           two == [one EXCEPT !.todo = todo]
           three == [two EXCEPT !.due = due]
<1>2. one = [pc |-> "next", todo |-> {}, due |-> {}, p |-> {}, total |-> 0, voters |-> {},
             count |-> 0, yes |-> 0, disturbed |-> no]
  BY <1>1
<1>3. [NoSweep EXCEPT !.pc = "next", !.todo = todo, !.due = due] = three
  OBVIOUS
<1> HIDE DEF one
<1>4. two = [pc |-> "next", todo |-> todo, due |-> {}, p |-> {}, total |-> 0, voters |-> {},
             count |-> 0, yes |-> 0, disturbed |-> no]
  BY <1>2
<1> HIDE DEF two
<1>5. three = [pc |-> "next", todo |-> todo, due |-> due, p |-> {}, total |-> 0, voters |-> {},
               count |-> 0, yes |-> 0, disturbed |-> no]
  BY <1>4
<1> HIDE DEF three
<1> QED BY <1>1, <1>3, <1>5, Zenon DEF SweepRecord

(* The sweep moves on, the proposals stay.                                   *)
LEMMA SweepMoves ==
    GovernanceShape /\ prop' = prop /\ sweep' \in SweepType /\ (sweep'.pc = "add" => sweep'.count > 0)
      => GovernanceShape'
  BY DEF GovernanceShape, Exists

(* ProcessProposals and the end of its loop: no tally is in progress.        *)
LEMMA SweepEdgesKeep == ASSUME GovernanceInv, ProcessProposals \/ SweepEnd PROVE GovernanceInv'
<1>1. GovernanceShape /\ DPoSInv /\ SweepOpen
  BY DEF GovernanceInv
<1>2. prop' = prop /\ UNCHANGED dposVars
  BY DEF ProcessProposals, SweepEnd
<1>3. /\ sweep' \in SweepType /\ sweep'.pc \in {"idle", "next"} /\ sweep'.p = {}
      /\ \A x \in sweep'.todo : Exists(x)
      /\ sweep'.pc = "idle" => sweep'.todo = {}
  <2>1. CASE ProcessProposals
    <3> DEFINE todo == {p \in Proposals : Exists(p)}
               due == {p \in Proposals : prop[p].status = "Active" /\ prop[p].ended}
    <3>1. sweep' = [NoSweep EXCEPT !.pc = "next", !.todo = todo, !.due = due]
      BY <2>1 DEF ProcessProposals
    <3>2. todo \in SUBSET Proposals /\ due \in SUBSET Proposals /\ \A x \in todo : Exists(x)
      OBVIOUS
    <3> HIDE DEF todo, due
    <3>3. PICK no \in BOOLEAN : sweep' = SweepRecord("next", todo, due, {}, 0, {}, 0, 0, no)
      BY <3>1, SweepStarts, Zenon
    <3> QED BY <3>2, <3>3, SweepMade
  <2>2. CASE SweepEnd
    <3>1. sweep' = NoSweep
      BY <2>2 DEF SweepEnd
    <3>2. PICK no \in BOOLEAN : sweep' = SweepRecord("idle", {}, {}, {}, 0, {}, 0, 0, no)
      BY <3>1, SweepStarts, Zenon
    <3> QED BY <3>2, SweepMade
  <2> QED BY <2>1, <2>2
<1>4. GovernanceShape' /\ TallyInv' /\ SweepOpen'
  BY <1>1, <1>2, <1>3, SweepMoves DEF TallyInv, SweepOpen, Exists
<1> QED BY <1>1, <1>2, <1>4, DPoSStutters DEF GovernanceInv

(* A proposal of the loop: it becomes active, or its tally begins with the    *)
(* total stake of the moment and nothing counted.                            *)
LEMMA SweepNextKeeps == ASSUME GovernanceInv, NEW p \in Proposals, SweepNext(p) PROVE GovernanceInv'
<1>1. GovernanceShape /\ DPoSInv /\ SweepOpen /\ sweep \in SweepType /\ prop[p] \in ProposalType
  BY DEF GovernanceInv, GovernanceShape
<1>2. UNCHANGED dposVars /\ sweep.pc = "next" /\ p \in sweep.todo
  BY DEF SweepNext
<1>3. DPoSInv' /\ dActive' = dActive /\ dTotal' = dTotal
  BY <1>1, <1>2, DPoSStutters DEF dposVars, engineVars
<1>4. /\ sweep.todo \in SUBSET Proposals /\ sweep.due \in SUBSET Proposals /\ sweep.p \in SUBSET Proposals
      /\ sweep.total \in Int /\ sweep.voters \in SUBSET V /\ sweep.count \in Nat /\ sweep.yes \in Int
      /\ sweep.disturbed \in BOOLEAN
  BY <1>1, SweepTypes
<1>5. prop[p].yes \in SUBSET V /\ dTotal \in Int /\ dActive \in SUBSET V
  BY HeadsFacts
<1>6. CASE p \in sweep.due
  <2> DEFINE y == prop[p].yes
             t == sweep.todo \ {p}
             d == sweep.due
             no == FALSE
  <2>1. /\ prop' = prop
        /\ sweep' = SweepRecord("voters", t, d, {p}, dTotal, y, 0, 0, no)
    BY <1>6, Zenon DEF SweepNext, SweepRecord
  <2>2. t \in SUBSET Proposals /\ d \in SUBSET Proposals /\ y \in SUBSET V /\ {p} \in SUBSET Proposals
    BY <1>4, <1>5
  <2>4. no \in BOOLEAN
    OBVIOUS
  <2> HIDE DEF t, d, no
  <2>5. /\ sweep' \in SweepType /\ sweep'.pc = "voters" /\ sweep'.p = {p} /\ sweep'.total = dTotal
        /\ sweep'.voters = y /\ sweep'.yes = 0 /\ sweep'.todo = t
    BY <1>5, <2>1, <2>2, <2>4, SweepMade
  <2>6. GovernanceShape'
    BY <1>1, <2>1, <2>5, SweepMoves
  <2>7. Heads(p)' = {}
    BY <2>1, <2>5 DEF Heads
  <2>8. Cardinality(Heads(p)') = 0
    BY <2>7, FS_EmptySet
  <2>9. Share \in Int \/ dActive = {}
    BY HeadsFacts
  <2>10. sweep'.yes = IF dActive' = {} THEN 0 ELSE Cardinality(Heads(p)') * Share'
    <3>1. Share' = Share
      BY <1>3 DEF Share
    <3> QED BY <1>3, <2>5, <2>8, <2>9, <3>1
  <2>11. Counted(p)'
    BY <1>3, <2>1, <2>5, <2>10 DEF Counted
  <2>12. TallyInv'
    BY <2>5, <2>11 DEF TallyInv
  <2>13. SweepOpen'
    <3>1. t \subseteq sweep.todo
      BY DEF t
    <3> QED BY <1>1, <1>2, <2>1, <2>5, <3>1 DEF SweepOpen, Exists
  <2> QED BY <1>3, <2>6, <2>12, <2>13 DEF GovernanceInv
<1>7. CASE p \notin sweep.due
  <2> DEFINE t == sweep.todo \ {p}
             s == IF prop[p].status = "Pending" THEN "Active" ELSE prop[p].status
             rec == [prop[p] EXCEPT !.status = s]
  <2>1. prop' = [prop EXCEPT ![p] = rec] /\ sweep' = [sweep EXCEPT !.todo = t]
    BY <1>7 DEF SweepNext
  <2>2. t \in SUBSET Proposals
    BY <1>4
  <2> HIDE DEF t
  <2>3. sweep' = SweepRecord(sweep.pc, t, sweep.due, sweep.p, sweep.total, sweep.voters, sweep.count, sweep.yes,
                             sweep.disturbed)
    BY <1>1, <2>1, SweepFields, Zenon
  <2>4. sweep' \in SweepType /\ sweep'.pc = "next" /\ sweep'.todo = t /\ sweep'.p = sweep.p
    BY <1>2, <1>4, <2>2, <2>3, SweepMade
  <2>5. /\ s \in {"none", "deleted", "Pending", "Active", "Passed", "Rejected", "Executed"}
        /\ s \in {"none", "deleted"} <=> prop[p].status \in {"none", "deleted"}
    BY <1>1 DEF ProposalType
  <2> HIDE DEF s
  <2>6. rec \in ProposalType /\ rec.status = s /\ rec.change = prop[p].change
    BY <1>1, <2>5, StatusType
  <2> HIDE DEF rec
  <2>7. prop' \in [Proposals -> ProposalType] /\ prop'[p] = rec /\ \A x \in Proposals \ {p} : prop'[x] = prop[x]
    BY <1>1, <2>1, <2>6 DEF GovernanceShape
  <2>8. \A x \in Proposals : prop'[x].status \notin {"none", "deleted"} => prop'[x].change \in Changes
    BY <1>1, <2>5, <2>6, <2>7 DEF GovernanceShape, Exists
  <2>9. GovernanceShape'
    BY <2>4, <2>7, <2>8 DEF GovernanceShape, Exists
  <2>10. TallyInv'
    BY <2>4 DEF TallyInv
  <2>11. \A x \in Proposals : Exists(x) => Exists(x)'
    BY <2>5, <2>6, <2>7 DEF Exists
  <2>12. SweepOpen'
    <3>1. t \subseteq sweep.todo
      BY DEF t
    <3> QED BY <1>1, <1>4, <2>4, <2>11, <3>1 DEF SweepOpen
  <2> QED BY <1>3, <2>9, <2>10, <2>12 DEF GovernanceInv
<1> QED BY <1>6, <1>7

(* The fields of the sweep and the proposal in the middle of a tally.        *)
LEMMA InTally ==
    ASSUME GovernanceInv, sweep.pc \in {"voters", "count", "add"}
    PROVE  /\ sweep \in SweepType /\ GovernanceShape /\ SweepOpen /\ DPoSInv
           /\ sweep.todo \in SUBSET Proposals /\ sweep.due \in SUBSET Proposals /\ sweep.p \in SUBSET Proposals
           /\ sweep.total \in Int /\ sweep.voters \in SUBSET V /\ sweep.count \in Nat /\ sweep.yes \in Int
           /\ sweep.disturbed \in BOOLEAN
           /\ \E p \in Proposals : sweep.p = {p} /\ (~sweep.disturbed => Counted(p))
<1>1. sweep \in SweepType /\ GovernanceShape /\ SweepOpen /\ DPoSInv
  BY DEF GovernanceInv, GovernanceShape
<1>2. \E p \in Proposals : sweep.p = {p} /\ (~sweep.disturbed => Counted(p))
  BY DEF GovernanceInv, TallyInv
<1> QED BY <1>1, <1>2, SweepTypes

(* A voter is taken: counted if it is active.                                *)
LEMMA TallyActiveKeeps == ASSUME GovernanceInv, NEW v \in V, TallyActive(v) PROVE GovernanceInv'
<1> DEFINE w == sweep.voters \ {v}
           c == IF v \in dActive THEN "count" ELSE "voters"
<1>1. /\ sweep.pc = "voters" /\ v \in sweep.voters /\ prop' = prop /\ UNCHANGED dposVars
      /\ sweep' = [sweep EXCEPT !.voters = w, !.pc = c]
  BY DEF TallyActive
<1>2. /\ sweep \in SweepType /\ GovernanceShape /\ SweepOpen /\ DPoSInv
      /\ sweep.todo \in SUBSET Proposals /\ sweep.due \in SUBSET Proposals /\ sweep.p \in SUBSET Proposals
      /\ sweep.total \in Int /\ sweep.voters \in SUBSET V /\ sweep.count \in Nat /\ sweep.yes \in Int
      /\ sweep.disturbed \in BOOLEAN
  BY <1>1, InTally
<1>3. DPoSInv' /\ dActive' = dActive /\ dTotal' = dTotal
  BY <1>1, <1>2, DPoSStutters DEF dposVars, engineVars
<1>4. c \in {"count", "voters"} /\ w \in SUBSET V /\ (c = "count" <=> v \in dActive)
  BY <1>2
<1>5. w \subseteq sweep.voters /\ v \notin w
  OBVIOUS
<1> HIDE DEF c
<1>6. sweep' = SweepRecord(c, sweep.todo, sweep.due, sweep.p, sweep.total, w, sweep.count, sweep.yes,
                           sweep.disturbed)
  <2>1. sweep \in SweepType /\ sweep' = [sweep EXCEPT !.voters = w, !.pc = c]
    BY <1>1, <1>2
  <2> HIDE DEF w
  <2>2. [sweep EXCEPT !.voters = w, !.pc = c] =
          SweepRecord(c, sweep.todo, sweep.due, sweep.p, sweep.total, w, sweep.count, sweep.yes, sweep.disturbed)
    BY <2>1, SweepFields, Zenon
  <2> QED BY <2>1, <2>2, Zenon
<1>7. /\ sweep' \in SweepType /\ sweep'.pc = c /\ sweep'.p = sweep.p /\ sweep'.todo = sweep.todo
      /\ sweep'.total = sweep.total
      /\ sweep'.voters = w /\ sweep'.yes = sweep.yes /\ (sweep'.disturbed <=> sweep.disturbed)
  <2> HIDE DEF w
  <2> QED BY <1>2, <1>4, <1>6, SweepMade
<1>8. GovernanceShape'
  BY <1>1, <1>2, <1>4, <1>7, SweepMoves
<1>9. PICK p \in Proposals : sweep.p = {p} /\ (~sweep.disturbed => Counted(p))
  BY <1>1, InTally
<1>10. ASSUME ~sweep.disturbed PROVE Counted(p)'
  <2>1. /\ sweep.total = dTotal /\ sweep.voters \subseteq prop[p].yes
        /\ sweep.yes = IF dActive = {} THEN 0 ELSE Cardinality(Heads(p)) * Share
    BY <1>1, <1>9, <1>10 DEF Counted
  <2>2. v \in prop[p].yes /\ v \notin Heads(p)
    BY <1>1, <2>1 DEF Heads
  <2>3. IsFiniteSet(Heads(p)) /\ Cardinality(Heads(p)) \in Nat
    BY HeadsFacts
  <2>4. Share' = Share
    BY <1>3 DEF Share
  <2>5. CASE v \in dActive
    <3>1. Heads(p)' = Heads(p) \cup {v}
      BY <1>1, <1>3, <1>7, <2>2, <2>5 DEF Heads
    <3>2. Cardinality(Heads(p)') = Cardinality(Heads(p)) + 1
      BY <2>2, <2>3, <3>1, FS_AddElement
    <3>3. Cardinality(Heads(p)') > 0 /\ Cardinality(Heads(p)') - 1 = Cardinality(Heads(p)) /\ dActive # {}
      BY <2>3, <2>5, <3>2
    <3>4. sweep'.pc = "count"
      BY <1>4, <1>7, <2>5
    <3> QED BY <1>1, <1>3, <1>5, <1>7, <2>1, <2>4, <3>3, <3>4 DEF Counted
  <2>6. CASE v \notin dActive
    <3>1. Heads(p)' = Heads(p)
      BY <1>1, <1>3, <1>7, <2>2, <2>6 DEF Heads
    <3>2. sweep'.pc = "voters"
      BY <1>4, <1>7, <2>6
    <3> QED BY <1>1, <1>3, <1>5, <1>7, <2>1, <2>4, <3>1, <3>2 DEF Counted
  <2> QED BY <2>5, <2>6
<1>11. TallyInv'
  BY <1>7, <1>9, <1>10 DEF TallyInv
<1>12. SweepOpen'
  BY <1>1, <1>2, <1>4, <1>7 DEF SweepOpen, Exists
<1> QED BY <1>3, <1>8, <1>11, <1>12 DEF GovernanceInv

(* The number of active validators is read.                                  *)
LEMMA TallyCountKeeps == ASSUME GovernanceInv, TallyCount PROVE GovernanceInv'
<1> DEFINE n == Cardinality(dActive)
           c == IF dActive = {} THEN "voters" ELSE "add"
<1>1. /\ sweep.pc = "count" /\ prop' = prop /\ UNCHANGED dposVars
      /\ sweep' = [sweep EXCEPT !.pc = c, !.count = n]
  BY DEF TallyCount
<1>2. /\ sweep \in SweepType /\ GovernanceShape /\ SweepOpen /\ DPoSInv
      /\ sweep.todo \in SUBSET Proposals /\ sweep.due \in SUBSET Proposals /\ sweep.p \in SUBSET Proposals
      /\ sweep.total \in Int /\ sweep.voters \in SUBSET V /\ sweep.count \in Nat /\ sweep.yes \in Int
      /\ sweep.disturbed \in BOOLEAN
  BY <1>1, InTally
<1>3. DPoSInv' /\ dActive' = dActive /\ dTotal' = dTotal
  BY <1>1, <1>2, DPoSStutters DEF dposVars, engineVars
<1>4. PICK p \in Proposals : sweep.p = {p} /\ (~sweep.disturbed => Counted(p))
  BY <1>1, InTally
<1>5. n \in Nat /\ (dActive # {} => n > 0)
  BY HeadsFacts
<1>6. c \in {"voters", "add"} /\ (c = "add" <=> dActive # {})
  OBVIOUS
<1> HIDE DEF c, n
<1>7. sweep' = SweepRecord(c, sweep.todo, sweep.due, sweep.p, sweep.total, sweep.voters, n, sweep.yes,
                           sweep.disturbed)
  BY <1>1, <1>2, SweepFields, Zenon
<1>8. /\ sweep' \in SweepType /\ sweep'.pc = c /\ sweep'.p = sweep.p /\ sweep'.todo = sweep.todo
      /\ sweep'.total = sweep.total
      /\ sweep'.voters = sweep.voters /\ sweep'.count = n /\ sweep'.yes = sweep.yes
      /\ (sweep'.disturbed <=> sweep.disturbed)
  BY <1>2, <1>5, <1>6, <1>7, SweepMade
<1>9. GovernanceShape'
  BY <1>1, <1>2, <1>5, <1>6, <1>8, SweepMoves
<1>10. ASSUME ~sweep.disturbed PROVE Counted(p)'
  <2>1. /\ sweep.total = dTotal /\ sweep.voters \subseteq prop[p].yes
        /\ dActive # {} /\ Cardinality(Heads(p)) > 0
        /\ sweep.yes = (Cardinality(Heads(p)) - 1) * Share
    BY <1>1, <1>4, <1>10 DEF Counted
  <2>2. Share' = Share /\ Heads(p)' = Heads(p)
    BY <1>1, <1>3, <1>8 DEF Share, Heads
  <2>3. sweep'.pc = "add" /\ sweep'.count = Cardinality(dActive)
    BY <1>6, <1>8, <2>1 DEF n
  <2> QED BY <1>1, <1>3, <1>8, <2>1, <2>2, <2>3 DEF Counted
<1>11. TallyInv'
  BY <1>4, <1>8, <1>10 DEF TallyInv
<1>12. SweepOpen'
  BY <1>1, <1>2, <1>6, <1>8 DEF SweepOpen, Exists
<1> QED BY <1>3, <1>9, <1>11, <1>12 DEF GovernanceInv

(* The share of a head is added.                                             *)
LEMMA TallyAddKeeps == ASSUME GovernanceInv, TallyAdd PROVE GovernanceInv'
<1> DEFINE y == sweep.yes + dTotal \div sweep.count
<1>1. /\ sweep.pc = "add" /\ prop' = prop /\ UNCHANGED dposVars
      /\ sweep' = [sweep EXCEPT !.pc = "voters", !.yes = y]
  BY DEF TallyAdd
<1>2. /\ sweep \in SweepType /\ GovernanceShape /\ SweepOpen /\ DPoSInv
      /\ sweep.todo \in SUBSET Proposals /\ sweep.due \in SUBSET Proposals /\ sweep.p \in SUBSET Proposals
      /\ sweep.total \in Int /\ sweep.voters \in SUBSET V /\ sweep.count \in Nat /\ sweep.yes \in Int
      /\ sweep.disturbed \in BOOLEAN
  BY <1>1, InTally
<1>3. DPoSInv' /\ dActive' = dActive /\ dTotal' = dTotal
  BY <1>1, <1>2, DPoSStutters DEF dposVars, engineVars
<1>4. PICK p \in Proposals : sweep.p = {p} /\ (~sweep.disturbed => Counted(p))
  BY <1>1, InTally
<1>5. dTotal \div sweep.count \in Int
  <2>1. dTotal \in Int /\ sweep.count > 0
    BY <1>1, <1>2, HeadsFacts DEF GovernanceShape
  <2> QED BY <1>2, <2>1, DivInt
<1>6. y \in Int
  BY <1>2, <1>5
<1> HIDE DEF y
<1>7. sweep' = SweepRecord("voters", sweep.todo, sweep.due, sweep.p, sweep.total, sweep.voters, sweep.count, y,
                           sweep.disturbed)
  BY <1>1, <1>2, SweepFields, Zenon
<1>8. /\ sweep' \in SweepType /\ sweep'.pc = "voters" /\ sweep'.p = sweep.p /\ sweep'.todo = sweep.todo
      /\ sweep'.total = sweep.total
      /\ sweep'.voters = sweep.voters /\ sweep'.yes = y /\ (sweep'.disturbed <=> sweep.disturbed)
  BY <1>2, <1>6, <1>7, SweepMade
<1>9. GovernanceShape'
  BY <1>1, <1>2, <1>8, SweepMoves
<1>10. ASSUME ~sweep.disturbed PROVE Counted(p)'
  <2> DEFINE k == Cardinality(Heads(p))
  <2>1. /\ sweep.total = dTotal /\ sweep.voters \subseteq prop[p].yes
        /\ dActive # {} /\ sweep.yes = (k - 1) * Share /\ sweep.count = Cardinality(dActive)
    BY <1>1, <1>4, <1>10 DEF Counted
  <2>2. y = (k - 1) * Share + Share /\ k \in Nat /\ Share \in Int
    BY <2>1, HeadsFacts DEF y, Share
  <2>3. Share' = Share /\ Heads(p)' = Heads(p)
    BY <1>1, <1>3, <1>8 DEF Share, Heads
  <2>4. y = k * Share
    <3> DEFINE x == Share
    <3>1. x \in Int /\ y = (k - 1) * x + x
      BY <2>2
    <3> HIDE DEF k, x
    <3>2. (k - 1) * x + x = k * x
      BY <2>2, <3>1
    <3> QED BY <3>1, <3>2 DEF x
  <2> QED BY <1>1, <1>3, <1>8, <2>1, <2>3, <2>4 DEF Counted
<1>11. TallyInv'
  BY <1>4, <1>8, <1>10 DEF TallyInv
<1>12. SweepOpen'
  BY <1>1, <1>2, <1>8 DEF SweepOpen, Exists
<1> QED BY <1>3, <1>9, <1>11, <1>12 DEF GovernanceInv

(* The proposal gets its result, and the loop goes on.                       *)
LEMMA TallyEndKeeps == ASSUME GovernanceInv, TallyEnd PROVE GovernanceInv'
<1> DEFINE s == IF Majority(sweep.yes, sweep.total) THEN "Passed" ELSE "Rejected"
           e == {}
<1>1. /\ sweep.pc = "voters" /\ UNCHANGED dposVars /\ sweep' = [sweep EXCEPT !.pc = "next", !.p = e]
      /\ \E p \in sweep.p : prop' = [prop EXCEPT ![p] = [prop[p] EXCEPT !.status = s]]
  BY DEF TallyEnd
<1>2. /\ sweep \in SweepType /\ GovernanceShape /\ SweepOpen /\ DPoSInv
      /\ sweep.todo \in SUBSET Proposals /\ sweep.due \in SUBSET Proposals /\ sweep.p \in SUBSET Proposals
      /\ sweep.total \in Int /\ sweep.voters \in SUBSET V /\ sweep.count \in Nat /\ sweep.yes \in Int
      /\ sweep.disturbed \in BOOLEAN
  BY <1>1, InTally
<1>3. DPoSInv'
  BY <1>1, <1>2, DPoSStutters
<1>4. e \in SUBSET Proposals
  OBVIOUS
<1> HIDE DEF e
<1>5. sweep' = SweepRecord("next", sweep.todo, sweep.due, e, sweep.total, sweep.voters, sweep.count, sweep.yes,
                           sweep.disturbed)
  BY <1>1, <1>2, SweepFields, Zenon
<1>6. sweep' \in SweepType /\ sweep'.pc = "next" /\ sweep'.todo = sweep.todo /\ sweep'.p = e
  BY <1>2, <1>4, <1>5, SweepMade
<1>7. PICK p \in sweep.p : prop' = [prop EXCEPT ![p] = [prop[p] EXCEPT !.status = s]]
  BY <1>1
<1>8. p \in Proposals /\ prop[p] \in ProposalType /\ prop[p].change \in Changes
  BY <1>2 DEF GovernanceShape, SweepOpen
<1>9. /\ s \in {"none", "deleted", "Pending", "Active", "Passed", "Rejected", "Executed"}
      /\ s \notin {"none", "deleted"}
  OBVIOUS
<1> HIDE DEF s
<1> DEFINE rec == [prop[p] EXCEPT !.status = s]
<1>10. rec \in ProposalType /\ rec.change = prop[p].change /\ rec.status = s
  BY <1>8, <1>9, StatusType
<1>11. prop' = [prop EXCEPT ![p] = rec]
  BY <1>7
<1> HIDE DEF rec
<1>12. prop' \in [Proposals -> ProposalType] /\ prop'[p] = rec /\ \A x \in Proposals \ {p} : prop'[x] = prop[x]
  BY <1>2, <1>8, <1>10, <1>11 DEF GovernanceShape
<1>13. \A x \in Proposals : prop'[x].status \notin {"none", "deleted"} => prop'[x].change \in Changes
  BY <1>2, <1>8, <1>9, <1>10, <1>12 DEF GovernanceShape, Exists
<1>14. \A x \in Proposals : Exists(x) => Exists(x)'
  BY <1>9, <1>10, <1>12 DEF Exists
<1>15. GovernanceShape'
  BY <1>6, <1>12, <1>13 DEF GovernanceShape, Exists
<1>16. TallyInv' /\ SweepOpen'
  <2>1. \A x \in sweep'.todo \cup sweep'.p : Exists(x)'
    BY <1>2, <1>6, <1>14 DEF SweepOpen, e
  <2> QED BY <1>6, <2>1 DEF TallyInv, SweepOpen
<1> QED BY <1>3, <1>15, <1>16 DEF GovernanceInv

(* A passed proposal is executed, its change to DPoS included.               *)
LEMMA ExecuteKeeps == ASSUME GovernanceInv, NEW p \in Proposals, ExecuteProposal(p) PROVE GovernanceInv'
<1>1. /\ GovernanceShape /\ SweepOpen /\ DPoSInv /\ prop[p] \in ProposalType
  BY DEF GovernanceInv, GovernanceShape
<1>2. sweep' = sweep /\ sweep.pc = "idle" /\ prop[p].status = "Passed"
  BY DEF ExecuteProposal, MutexFree
<1>3. prop[p].change \in Changes
  BY <1>1, <1>2 DEF GovernanceShape, Exists
<1>4. DPoSInv'
  <2>1. CASE executeConsensusChange(p)
    <3>1. SetSetSize(prop[p].change.size) /\ prop[p].change.kind = "setSize"
      BY <2>1 DEF executeConsensusChange
    <3>2. prop[p].change \in Change
      BY <1>3, ChangeAssumption
    <3>3. prop[p].change.size \in SetSizes
      BY <3>1, <3>2 DEF Change
    <3> QED BY <1>1, <3>1, <3>3, SetSizeKeeps
  <2>2. CASE executeOther(p)
    BY <1>1, <2>2, DPoSStutters DEF executeOther
  <2> QED BY <2>1, <2>2 DEF ExecuteProposal
<1>5. prop' = [prop EXCEPT ![p] = [prop[p] EXCEPT !.status = "Executed"]]
  BY DEF ExecuteProposal, executeConsensusChange, executeOther
<1> DEFINE rec == [prop[p] EXCEPT !.status = "Executed"]
<1>6. rec \in ProposalType /\ rec.change = prop[p].change
  BY <1>1, StatusType
<1>7. prop' = [prop EXCEPT ![p] = rec]
  BY <1>5
<1> HIDE DEF rec
<1>8. GovernanceShape'
  BY <1>1, <1>2, <1>3, <1>6, <1>7, ProposalReplaced
<1> QED BY <1>1, <1>2, <1>4, <1>8, NoTally DEF GovernanceInv

(* Old proposals go while no sweep is in progress.                           *)
LEMMA CleanupKeeps == ASSUME GovernanceInv, CleanupOldProposals PROVE GovernanceInv'
<1>1. GovernanceShape /\ SweepOpen /\ DPoSInv
  BY DEF GovernanceInv
<1>2. sweep' = sweep /\ sweep.pc = "idle" /\ UNCHANGED dposVars
  BY DEF CleanupOldProposals, MutexFree
<1> DEFINE old == {p \in Proposals : prop[p].status \in {"Rejected", "Executed"} /\ prop[p].ended}
<1>3. prop' = [p \in Proposals |-> IF p \in old THEN Deleted ELSE prop[p]]
  BY DEF CleanupOldProposals
<1> HIDE DEF old
<1>4. Deleted \in ProposalType /\ Deleted.status = "deleted"
  BY ProposalTypes
<1>5. prop' \in [Proposals -> ProposalType] /\ \A x \in Proposals : prop'[x] = Deleted \/ prop'[x] = prop[x]
  BY <1>1, <1>3, <1>4 DEF GovernanceShape
<1>6. \A x \in Proposals : prop'[x].status \notin {"none", "deleted"} => prop'[x].change \in Changes
  BY <1>1, <1>4, <1>5 DEF GovernanceShape, Exists
<1>7. GovernanceShape'
  BY <1>1, <1>2, <1>5, <1>6 DEF GovernanceShape, Exists
<1> QED BY <1>1, <1>2, <1>7, NoTally, DPoSStutters DEF GovernanceInv

(* A change of DPoS during a sweep is noted.                                 *)
LEMMA DPoSGoesOnKeeps == ASSUME GovernanceInv, DPoSGoesOn PROVE GovernanceInv'
<1> DEFINE d == sweep.pc # "idle"
<1>1. GovernanceShape /\ SweepOpen /\ TallyInv /\ DPoSInv /\ sweep \in SweepType
  BY DEF GovernanceInv, GovernanceShape
<1>2. prop' = prop /\ sweep' = [sweep EXCEPT !.disturbed = d]
  BY DEF DPoSGoesOn
<1>3. DPoSInv'
  <2>1. ASSUME NEW n \in SetSizes, SetSetSize(n) PROVE DPoSInv'
    BY <1>1, <2>1, SetSizeKeeps
  <2>2. ASSUME NEW v \in V, NEW s \in Stakes, DPoSAddValidator(v, s) \/ DPoSUpdateStake(v, s) PROVE DPoSInv'
    BY <1>1, <2>2, StakeAssumption, DPoSAddKeeps, DPoSUpdateKeeps
  <2>3. CASE DPoSProcessEpoch
    BY <1>1, <2>3, EpochKeeps
  <2> QED BY <2>1, <2>2, <2>3 DEF DPoSGoesOn
<1>4. d \in BOOLEAN /\ (d <=> sweep.pc # "idle")
  OBVIOUS
<1> HIDE DEF d
<1>5. /\ sweep.pc \in {"idle", "next", "voters", "count", "add"} /\ sweep.todo \in SUBSET Proposals
      /\ sweep.due \in SUBSET Proposals /\ sweep.p \in SUBSET Proposals /\ sweep.total \in Int
      /\ sweep.voters \in SUBSET V /\ sweep.count \in Nat /\ sweep.yes \in Int
  BY <1>1, SweepTypes
<1>6. sweep' = SweepRecord(sweep.pc, sweep.todo, sweep.due, sweep.p, sweep.total, sweep.voters, sweep.count,
                           sweep.yes, d)
  BY <1>1, <1>2, SweepFields, Zenon
<1>7. /\ sweep' \in SweepType /\ sweep'.pc = sweep.pc /\ sweep'.todo = sweep.todo /\ sweep'.p = sweep.p
      /\ sweep'.count = sweep.count /\ (sweep'.disturbed <=> d)
  BY <1>4, <1>5, <1>6, SweepMade
<1>8. GovernanceShape'
  BY <1>1, <1>2, <1>7, SweepMoves DEF GovernanceShape
<1>9. SweepOpen'
  BY <1>1, <1>2, <1>7 DEF SweepOpen, Exists
<1>10. TallyInv'
  <2>1. ASSUME sweep'.pc \in {"voters", "count", "add"} PROVE sweep'.disturbed
    BY <1>4, <1>7, <2>1
  <2> QED BY <1>1, <1>7, <2>1 DEF TallyInv
<1> QED BY <1>3, <1>8, <1>9, <1>10 DEF GovernanceInv

-----------------------------------------------------------------------------
(* The inductive invariant of governance over DPoS.                          *)
THEOREM GovernanceInvariant == GovernanceSpec => []GovernanceInv
<1>1. GovernanceInit /\ DPoSInit => GovernanceInv
  <2> SUFFICES ASSUME GovernanceInit, DPoSInit PROVE GovernanceInv
    OBVIOUS
  <2>1. NoProposal \in ProposalType /\ NoProposal.status = "none"
    BY ProposalTypes
  <2>2. prop \in [Proposals -> ProposalType] /\ \A x \in Proposals : prop[x].status = "none"
    BY <2>1 DEF GovernanceInit
  <2>3. PICK no \in BOOLEAN : sweep = SweepRecord("idle", {}, {}, {}, 0, {}, 0, 0, no)
    <3>1. sweep = NoSweep
      BY DEF GovernanceInit
    <3> QED BY <3>1, SweepStarts, Zenon
  <2>4. sweep \in SweepType /\ sweep.pc = "idle" /\ sweep.todo = {} /\ sweep.p = {}
    BY <2>3, SweepMade
  <2>5. GovernanceShape /\ SweepOpen /\ TallyInv
    BY <2>2, <2>4 DEF GovernanceShape, SweepOpen, TallyInv, Exists
  <2> QED BY <2>5, DPoSInitial DEF GovernanceInv
<1>2. GovernanceInv /\ [GovernanceNext]_<<govVars, dposVars>> => GovernanceInv'
  <2> SUFFICES ASSUME GovernanceInv, [GovernanceNext]_<<govVars, dposVars>> PROVE GovernanceInv'
    OBVIOUS
  <2>1. ASSUME NEW p \in Proposals, NEW v \in V,
               \/ \E change \in Changes : CreateProposal(p, v, change)
               \/ CancelProposal(p, v)
               \/ \E inFavour \in BOOLEAN : Vote(p, v, inFavour)
        PROVE  GovernanceInv'
    BY <2>1, ProposalCallsKeep
  <2>2. ASSUME NEW p \in Proposals, Elapse(p) PROVE GovernanceInv'
    BY <2>2, ElapseKeeps
  <2>3. ASSUME NEW p \in Proposals, SweepNext(p) PROVE GovernanceInv'
    BY <2>3, SweepNextKeeps
  <2>4. ASSUME NEW p \in Proposals, ExecuteProposal(p) PROVE GovernanceInv'
    BY <2>4, ExecuteKeeps
  <2>5. CASE ProcessProposals \/ SweepEnd
    BY <2>5, SweepEdgesKeep
  <2>6. CASE TallyCount
    BY <2>6, TallyCountKeeps
  <2>7. CASE TallyAdd
    BY <2>7, TallyAddKeeps
  <2>8. CASE TallyEnd
    BY <2>8, TallyEndKeeps
  <2>9. ASSUME NEW v \in V, TallyActive(v) PROVE GovernanceInv'
    BY <2>9, TallyActiveKeeps
  <2>10. CASE CleanupOldProposals
    BY <2>10, CleanupKeeps
  <2>11. CASE DPoSGoesOn
    BY <2>11, DPoSGoesOnKeeps
  <2>12. CASE UNCHANGED <<govVars, dposVars>>
    <3>1. prop' = prop /\ sweep' = sweep /\ UNCHANGED dposVars /\ dActive' = dActive /\ dTotal' = dTotal
      BY <2>12 DEF govVars, dposVars, engineVars
    <3>2. DPoSInv'
      BY <3>1, DPoSStutters DEF GovernanceInv
    <3>3. GovernanceShape' /\ SweepOpen' /\ TallyInv'
      BY <3>1 DEF GovernanceInv, GovernanceShape, SweepOpen, TallyInv, Exists, Counted, Heads, Share
    <3> QED BY <3>2, <3>3 DEF GovernanceInv
  <2> QED BY <2>1, <2>2, <2>3, <2>4, <2>5, <2>6, <2>7, <2>8, <2>9, <2>10, <2>11, <2>12 DEF GovernanceNext
<1> QED BY <1>1, <1>2, PTL DEF GovernanceSpec

(* The step at which x passes.                                               *)
Passes(x) == prop[x].status = "Active" /\ prop'[x].status = "Passed"

(* Replacing a proposal by one that has not passed lets none pass.           *)
LEMMA NonePasses ==
    ASSUME GovernanceInv, NEW p \in Proposals, NEW rec, prop' = [prop EXCEPT ![p] = rec],
           rec.status # "Passed" \/ rec.status = prop[p].status, NEW x \in Proposals
    PROVE  ~Passes(x)
<1>1. prop'[p] = rec /\ (x # p => prop'[x] = prop[x])
  BY DEF GovernanceInv, GovernanceShape
<1>2. CASE x = p
  BY <1>1, <1>2 DEF Passes
<1>3. CASE x # p
  BY <1>1, <1>3 DEF Passes
<1> QED BY <1>2, <1>3

(* Only the end of a tally lets a proposal pass.                             *)
LEMMA OnlyTallyPasses ==
    ASSUME GovernanceInv, [GovernanceNext]_<<govVars, dposVars>>, NEW x \in Proposals, Passes(x)
    PROVE  TallyEnd
<1>1. \A p \in Proposals : prop[p] \in ProposalType
  BY DEF GovernanceInv, GovernanceShape
<1>2. prop' # prop
  BY DEF Passes
<1>3. ASSUME NEW p \in Proposals, NEW v \in V, NEW change \in Changes, CreateProposal(p, v, change) PROVE FALSE
  <2> DEFINE rec == [status |-> "Pending", creator |-> {v}, change |-> change, yes |-> {}, no |-> {},
                     ended |-> FALSE]
  <2>1. prop' = [prop EXCEPT ![p] = rec] /\ rec.status # "Passed"
    BY <1>3 DEF CreateProposal
  <2> HIDE DEF rec
  <2> QED BY <2>1, NonePasses
<1>4. ASSUME NEW p \in Proposals, NEW v \in V, CancelProposal(p, v) PROVE FALSE
  <2>1. prop' = [prop EXCEPT ![p] = Deleted] /\ Deleted.status # "Passed"
    BY <1>4, ProposalTypes DEF CancelProposal
  <2> QED BY <2>1, NonePasses
<1>5. ASSUME NEW p \in Proposals, NEW v \in V, NEW inFavour \in BOOLEAN, Vote(p, v, inFavour) PROVE FALSE
  <2> DEFINE y == IF inFavour THEN prop[p].yes \cup {v} ELSE prop[p].yes \ {v}
             n == IF inFavour THEN prop[p].no \ {v} ELSE prop[p].no \cup {v}
             rec == [prop[p] EXCEPT !.yes = y, !.no = n]
  <2>1. prop' = [prop EXCEPT ![p] = rec]
    BY <1>5 DEF Vote
  <2> HIDE DEF y, n
  <2>2. rec.status = prop[p].status
    <3>1. rec = [status |-> prop[p].status, creator |-> prop[p].creator, change |-> prop[p].change,
                 yes |-> y, no |-> n, ended |-> prop[p].ended]
      <4>1. \A a, b : [prop[p] EXCEPT !.yes = a, !.no = b] =
              [status |-> prop[p].status, creator |-> prop[p].creator, change |-> prop[p].change,
               yes |-> a, no |-> b, ended |-> prop[p].ended]
        BY <1>1, ProposalFields, Zenon
      <4> QED BY <4>1, Zenon
    <3> HIDE DEF rec
    <3> QED BY <3>1
  <2> HIDE DEF rec
  <2> QED BY <2>1, <2>2, NonePasses
<1>6. ASSUME NEW p \in Proposals, Elapse(p) PROVE FALSE
  <2> DEFINE b == TRUE
             rec == [prop[p] EXCEPT !.ended = b]
  <2>1. prop' = [prop EXCEPT ![p] = rec]
    BY <1>6 DEF Elapse
  <2> HIDE DEF b
  <2>2. rec = [status |-> prop[p].status, creator |-> prop[p].creator, change |-> prop[p].change,
               yes |-> prop[p].yes, no |-> prop[p].no, ended |-> b]
    BY <1>1, ProposalFields, Zenon
  <2> HIDE DEF rec
  <2>3. rec.status = prop[p].status
    BY <2>2
  <2> QED BY <2>1, <2>3, NonePasses
<1>7. ASSUME NEW p \in Proposals, SweepNext(p) PROVE FALSE
  <2> DEFINE s == IF prop[p].status = "Pending" THEN "Active" ELSE prop[p].status
             rec == [prop[p] EXCEPT !.status = s]
  <2>1. prop' = [prop EXCEPT ![p] = rec]
    BY <1>2, <1>7 DEF SweepNext
  <2>2. /\ s \in {"none", "deleted", "Pending", "Active", "Passed", "Rejected", "Executed"}
        /\ s # "Passed" \/ s = prop[p].status
    BY <1>1 DEF ProposalType
  <2> HIDE DEF s
  <2>3. rec.status = s
    BY <1>1, <2>2, StatusType
  <2> HIDE DEF rec
  <2> QED BY <2>1, <2>2, <2>3, NonePasses
<1>8. ASSUME NEW p \in Proposals, ExecuteProposal(p) PROVE FALSE
  <2> DEFINE rec == [prop[p] EXCEPT !.status = "Executed"]
  <2>1. prop' = [prop EXCEPT ![p] = rec]
    BY <1>8 DEF ExecuteProposal, executeConsensusChange, executeOther
  <2>2. rec.status = "Executed"
    BY <1>1, StatusType
  <2> HIDE DEF rec
  <2> QED BY <2>1, <2>2, NonePasses
<1>9. ~(ProcessProposals \/ SweepEnd \/ TallyCount \/ TallyAdd \/ DPoSGoesOn)
  BY <1>2 DEF ProcessProposals, SweepEnd, TallyCount, TallyAdd, DPoSGoesOn
<1>10. ASSUME NEW v \in V, TallyActive(v) PROVE FALSE
  BY <1>2, <1>10 DEF TallyActive
<1>11. ~CleanupOldProposals
  <2> SUFFICES ASSUME CleanupOldProposals PROVE FALSE
    OBVIOUS
  <2>1. prop'[x] = Deleted \/ prop'[x] = prop[x]
    BY DEF CleanupOldProposals
  <2> QED BY <2>1, ProposalTypes DEF Passes
<1>12. ~UNCHANGED <<govVars, dposVars>>
  BY <1>2 DEF govVars
<1> QED BY <1>3, <1>4, <1>5, <1>6, <1>7, <1>8, <1>9, <1>10, <1>11, <1>12 DEF GovernanceNext

(* At the end of an undisturbed tally every vote of an active validator has   *)
(* counted once, with the same share.                                        *)
LEMMA MajorityAtEnd ==
    ASSUME GovernanceInv, TallyEnd, NEW x \in Proposals, Passes(x), ~sweep.disturbed, dTotal > 0
    PROVE  100 * Cardinality(prop[x].yes \cap dActive) >= 66 * Cardinality(dActive)
<1> DEFINE s == IF Majority(sweep.yes, sweep.total) THEN "Passed" ELSE "Rejected"
<1>1. sweep.pc = "voters" /\ sweep.voters = {}
  BY DEF TallyEnd
<1>2. PICK q \in Proposals : sweep.p = {q} /\ (~sweep.disturbed => Counted(q))
  BY <1>1, InTally
<1>3. prop' = [prop EXCEPT ![q] = [prop[q] EXCEPT !.status = s]]
  BY <1>2 DEF TallyEnd
<1>4. prop \in [Proposals -> ProposalType] /\ prop[q] \in ProposalType
  BY DEF GovernanceInv, GovernanceShape
<1>5. s \in {"none", "deleted", "Pending", "Active", "Passed", "Rejected", "Executed"}
  OBVIOUS
<1>6. s = "Passed" => Majority(sweep.yes, sweep.total)
  OBVIOUS
<1> HIDE DEF s
<1> DEFINE rec == [prop[q] EXCEPT !.status = s]
<1>7. rec.status = s
  BY <1>4, <1>5, StatusType
<1>8. prop' = [prop EXCEPT ![q] = rec]
  BY <1>3
<1> HIDE DEF rec
<1>9. x = q
  BY <1>4, <1>8 DEF Passes
<1>10. Majority(sweep.yes, sweep.total)
  BY <1>4, <1>6, <1>7, <1>8, <1>9 DEF Passes
<1>11. Heads(x) = prop[x].yes \cap dActive
  BY <1>1 DEF Heads
<1> DEFINE k == Cardinality(Heads(x))
           n == Cardinality(dActive)
<1>12. k \in Nat /\ n \in Nat /\ dTotal \in Int /\ (dActive # {} => n > 0)
  BY HeadsFacts
<1>13. sweep.total = dTotal /\ sweep.yes = IF dActive = {} THEN 0 ELSE k * (dTotal \div n)
  BY <1>1, <1>2, <1>9 DEF Counted, Share
<1>14. CASE dActive = {}
  <2>1. n = 0
    BY <1>14, FS_EmptySet
  <2> HIDE DEF k, n
  <2>2. 100 * k >= 66 * n
    BY <1>12, <2>1
  <2> QED BY <1>11, <2>2 DEF k, n
<1>15. CASE dActive # {}
  <2>1. 100 * (k * (dTotal \div n)) >= 66 * dTotal
    BY <1>10, <1>13, <1>15 DEF Majority
  <2>2. dTotal \in Nat
    BY <1>12
  <2> HIDE DEF k, n
  <2>3. 100 * k >= 66 * n
    BY <1>12, <1>15, <2>1, <2>2, MajorityOfHeads
  <2> QED BY <1>11, <2>3 DEF k, n
<1> QED BY <1>14, <1>15

(* A proposal passes only with the votes of 66 % of the validators that are   *)
(* active when it is tallied, whatever the stakes, the set sizes and the      *)
(* changes of DPoS before the tally.                                         *)
THEOREM PassedByHeads == GovernanceSpec => PassNeedsHeads
<1>1. GovernanceInv /\ [GovernanceNext]_<<govVars, dposVars>> =>
        [\A p \in Proposals :
           prop[p].status = "Active" /\ prop'[p].status = "Passed" /\ ~sweep.disturbed /\ dTotal > 0
             => 100 * Cardinality(prop[p].yes \cap dActive) >= 66 * Cardinality(dActive)]_govVars
  BY OnlyTallyPasses, MajorityAtEnd DEF Passes
<1> QED BY <1>1, GovernanceInvariant, PTL DEF GovernanceSpec, PassNeedsHeads
=============================================================================
