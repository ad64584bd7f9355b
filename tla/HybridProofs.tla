---------------------------- MODULE HybridProofs ----------------------------
(***************************************************************************)
(* Proofs about the hybrid consensus, for any number of goroutines, events,  *)
(* error codes, any intervals and limits: blocks are applied without a gap   *)
(* and covered by the count of PoH, a recovery that nobody disturbs restores *)
(* everything or nothing, an event that verifies has the count of its record *)
(* and the recovery manager keeps to its limits and breakers.                *)
(***************************************************************************)
EXTENDS HybridConsensus, PoH, RecoveryManager, FiniteTheorems

(***************************************************************************)
(* Proof of History.  Until a recovery sets the state, the state has been    *)
(* hashed as often as the count says, so the length of a state is the count  *)
(* it was read at.                                                          *)
(***************************************************************************)
Hashed == {"tick", "data"} \X (Nat \cup Events \cup {"block"})
EventPCs == {"state", "count", "record", "done"}
PairPCs == {"state", "count", "read"}

PoHShape ==
  /\ chain \in Seq(Hashed) /\ count \in Nat /\ synced \in BOOLEAN
  /\ event \in [Events -> [pc : EventPCs, state : Seq(Hashed), cnt : Nat, proof : Seq(Hashed), at : Nat]]
  /\ pair \in [Readers -> [pc : PairPCs, state : Seq(Hashed), cnt : Nat]]

CountIsLength ==
  ~synced =>
    /\ Len(chain) = count
    /\ \A e \in Events :
         /\ event[e].pc = "count" => Len(event[e].state) <= count
         /\ event[e].pc = "record" => Len(event[e].state) <= event[e].cnt /\ event[e].cnt <= count
         /\ event[e].pc = "done" =>
              /\ Len(event[e].state) <= event[e].cnt /\ event[e].cnt < event[e].at
              /\ Len(event[e].proof) = event[e].at

PoHInv == PoHShape /\ CountIsLength

(* Record hashes its data, after a tick if one is due.                      *)
LEMMA RecordGrows ==
    ASSUME PoHInv, NEW d \in Hashed, Record(d)
    PROVE  /\ chain' \in Seq(Hashed) /\ count' \in Nat /\ count' > count
           /\ ~synced => Len(chain') = count'
<1>1. PICK due \in {0, 1} :
        /\ chain' = Append(IF due = 1 THEN advanceState(chain, count + 1) ELSE chain, d)
        /\ count' = count + due + 1
  BY DEF Record
<1>2. /\ chain \in Seq(Hashed) /\ count \in Nat
      /\ ~synced => Len(chain) = count
  BY DEF PoHInv, PoHShape, CountIsLength
<1>3. <<"tick", count + 1>> \in Hashed
  BY <1>2 DEF Hashed
<1>4. /\ advanceState(chain, count + 1) \in Seq(Hashed)
      /\ Len(advanceState(chain, count + 1)) = Len(chain) + 1
  BY <1>2, <1>3 DEF advanceState
<1> HIDE DEF Hashed
<1> QED BY <1>1, <1>2, <1>4

(* Every step keeps the count and the length together.                      *)
LEMMA PoHStep ==
    ASSUME PoHInv, [PoHNext]_pohVars
    PROVE  PoHInv'
<1> USE DEF EventPCs, PairPCs
<1>0. PoHShape /\ CountIsLength
  BY DEF PoHInv
<1>1. CASE PoHTick
  <2>1. /\ chain \in Seq(Hashed) /\ count \in Nat
        /\ chain' = Append(chain, <<"tick", count + 1>>) /\ count' = count + 1
        /\ UNCHANGED <<event, pair, synced>>
    BY <1>0, <1>1 DEF PoHShape, PoHTick, advanceState
  <2>2. <<"tick", count + 1>> \in Hashed
    BY <2>1 DEF Hashed
  <2>3. chain' \in Seq(Hashed) /\ Len(chain') = Len(chain) + 1
    BY <2>1, <2>2
  <2>4. PoHShape'
    BY <1>0, <2>1, <2>3 DEF PoHShape
  <2>5. CountIsLength'
    BY <1>0, <2>1, <2>3 DEF PoHShape, CountIsLength
  <2> QED BY <2>4, <2>5 DEF PoHInv
<1>2. CASE RecordBlock
  <2>1. <<"data", "block">> \in Hashed
    BY DEF Hashed
  <2>2. Record(<<"data", "block">>) /\ UNCHANGED <<event, pair, synced>>
    BY <1>2 DEF RecordBlock
  <2>3. /\ chain' \in Seq(Hashed) /\ count' \in Nat /\ count' > count
        /\ ~synced => Len(chain') = count'
    BY <2>1, <2>2, RecordGrows
  <2>4. PoHShape'
    BY <1>0, <2>2, <2>3 DEF PoHShape
  <2>5. CountIsLength'
    BY <1>0, <2>2, <2>3 DEF PoHShape, CountIsLength
  <2> QED BY <2>4, <2>5 DEF PoHInv
<1>3. ASSUME NEW e \in Events, CreateState(e) PROVE PoHInv'
  <2>1. PoHShape'
    BY <1>0, <1>3 DEF PoHShape, CreateState
  <2>2. CountIsLength'
    BY <1>0, <1>3 DEF PoHShape, CreateState, CountIsLength
  <2> QED BY <2>1, <2>2 DEF PoHInv
<1>4. ASSUME NEW e \in Events, CreateCount(e) PROVE PoHInv'
  <2>1. PoHShape'
    BY <1>0, <1>4 DEF PoHShape, CreateCount
  <2>2. CountIsLength'
    BY <1>0, <1>4 DEF PoHShape, CreateCount, CountIsLength
  <2> QED BY <2>1, <2>2 DEF PoHInv
<1>5. ASSUME NEW e \in Events, CreateRecord(e) PROVE PoHInv'
  <2>1. <<"data", e>> \in Hashed
    BY DEF Hashed
  <2>2. /\ chain' \in Seq(Hashed) /\ count' \in Nat /\ count' > count
        /\ ~synced => Len(chain') = count'
    BY <1>5, <2>1, RecordGrows DEF CreateRecord
  <2>3. /\ event[e].pc = "record" /\ UNCHANGED <<pair, synced>>
        /\ event' = [event EXCEPT ![e].pc = "done", ![e].proof = chain', ![e].at = count']
    BY <1>5 DEF CreateRecord
  <2> HIDE DEF Hashed
  <2>4. [event[e] EXCEPT !.pc = "done", !.proof = chain', !.at = count']
          \in [pc : EventPCs, state : Seq(Hashed), cnt : Nat, proof : Seq(Hashed), at : Nat]
    BY <1>0, <2>2 DEF PoHShape
  <2>5. PoHShape'
    BY <1>0, <2>2, <2>3, <2>4 DEF PoHShape
  <2>6. CountIsLength'
    BY <1>0, <2>2, <2>3 DEF PoHShape, CountIsLength
  <2> QED BY <2>5, <2>6 DEF PoHInv
<1>6. ASSUME NEW r \in Readers, ReadState(r) \/ ReadCount(r) PROVE PoHInv'
  <2> HIDE DEF Hashed
  <2>1. PoHShape'
    <3>1. CASE ReadState(r)
      BY <1>0, <3>1 DEF PoHShape, ReadState
    <3>2. CASE ReadCount(r)
      BY <1>0, <3>2 DEF PoHShape, ReadCount
    <3> QED BY <1>6, <3>1, <3>2
  <2>2. CountIsLength'
    BY <1>0, <1>6 DEF CountIsLength, ReadState, ReadCount
  <2> QED BY <2>1, <2>2 DEF PoHInv
<1>7. ASSUME NEW r \in Readers, Synchronize(r) PROVE PoHInv'
  BY <1>0, <1>7 DEF PoHInv, PoHShape, CountIsLength, Synchronize
<1>8. CASE UNCHANGED pohVars
  BY <1>8 DEF PoHInv, PoHShape, CountIsLength, pohVars
<1> QED BY <1>1, <1>2, <1>3, <1>4, <1>5, <1>6, <1>7, <1>8 DEF PoHNext

(* The count of PoH is the number of its hashes until a recovery sets it.   *)
THEOREM PoHInvariant == PoHSpec => []PoHInv
<1>1. PoHInit => PoHInv
  <2>1. <<>> \in Seq(Hashed) /\ Len(<<>>) = 0
    OBVIOUS
  <2>2. PoHInit => PoHShape
    <3>1. NoEvent \in [pc : EventPCs, state : Seq(Hashed), cnt : Nat, proof : Seq(Hashed), at : Nat]
      BY <2>1 DEF NoEvent, EventPCs
    <3>2. NoPair \in [pc : PairPCs, state : Seq(Hashed), cnt : Nat]
      BY <2>1 DEF NoPair, PairPCs
    <3> DEFINE EventSet == [pc : EventPCs, state : Seq(Hashed), cnt : Nat, proof : Seq(Hashed), at : Nat]
               PairSet == [pc : PairPCs, state : Seq(Hashed), cnt : Nat]
    <3>3. [e \in Events |-> NoEvent] \in [Events -> EventSet] /\ [r \in Readers |-> NoPair] \in [Readers -> PairSet]
      <4> HIDE DEF EventSet, PairSet
      <4> QED BY <3>1, <3>2 DEF EventSet, PairSet
    <3>4. PoHInit => chain \in Seq(Hashed) /\ count \in Nat
      BY <2>1 DEF PoHInit
    <3>5. PoHInit => synced \in BOOLEAN
      BY DEF PoHInit
    <3> QED BY <3>3, <3>4, <3>5 DEF PoHInit, PoHShape
  <2>3. PoHInit => CountIsLength
    <3>1. PoHInit => Len(chain) = count /\ \A e \in Events : event[e].pc = "state"
      BY <2>1 DEF PoHInit, NoEvent
    <3> QED BY <3>1 DEF CountIsLength
  <2> QED BY <2>2, <2>3 DEF PoHInv
<1>2. PoHInv /\ [PoHNext]_pohVars => PoHInv'
  BY PoHStep
<1> QED BY <1>1, <1>2, PTL DEF PoHSpec

(* Until a recovery sets the state, an event that verifies carries the count *)
(* its record was made at, whatever came between the calls of CreateEvent.   *)
THEOREM VerifiedEventsAtTheirCount == PoHSpec => []VerifiedAtItsCount
<1>1. PoHInv => VerifiedAtItsCount
  <2> SUFFICES ASSUME PoHInv, NEW e \in Events, event[e].pc = "done", Verify(e), ~synced
               PROVE  event[e].at = event[e].cnt + 1
    BY DEF VerifiedAtItsCount
  <2>1. /\ event[e].state \in Seq(Hashed) /\ event[e].cnt \in Nat /\ event[e].at \in Nat
        /\ Len(event[e].state) <= event[e].cnt /\ event[e].cnt < event[e].at
        /\ Len(event[e].proof) = event[e].at
    BY DEF PoHInv, PoHShape, CountIsLength
  <2>2. <<"data", e>> \in Hashed /\ event[e].proof = Append(event[e].state, <<"data", e>>)
    BY DEF Hashed, Verify
  <2>3. Len(event[e].proof) = Len(event[e].state) + 1
    BY <2>1, <2>2
  <2> QED BY <2>1, <2>3
<1> QED BY <1>1, PoHInvariant, PTL
(***************************************************************************)
(* The recovery manager.  A goroutine adds itself to those allowed an        *)
(* attempt only when the attempts counted so far are below the limit, so     *)
(* together they pass it by at most the other goroutines; one that got past  *)
(* the breaker found it closed, closed it, or came before it opened.         *)
(***************************************************************************)
CallPCs == {"idle", "breaker", "delete", "strategy", "attempts", "activate", "increment", "apply",
            "isRunning", "stop", "stopping", "zero", "start"}
HandlingSet == [pc : CallPCs, code : Codes \cup {NoCode}, strategy : Strategies \cup {"none"}, at : Nat]

RMShape ==
  /\ recoveryAttempts \in [Codes -> Nat] /\ circuitBreakers \in [Codes -> Nat \cup {Closed}]
  /\ recoveryStrategies \in [Codes -> Strategies] /\ maxRecoveryAttempts \in Limits
  /\ clock \in Nat
  /\ hcall \in [Callers -> HandlingSet]
  /\ \A c \in Callers : hcall[c].pc # "idle" => hcall[c].code \in Codes

PastBreaker ==
  \A c \in Callers :
    hcall[c].pc \notin {"idle", "breaker"} =>
      /\ hcall[c].at <= clock
      /\ \/ hcall[c].pc = "delete" \/ circuitBreakers[hcall[c].code] = Closed
         \/ hcall[c].at <= circuitBreakers[hcall[c].code]

RMInv == RMShape /\ PastBreaker /\ AttemptsBounded

(* The goroutines allowed an attempt are goroutines.                        *)
LEMMA AllowedBounded ==
    \A e \in Codes : /\ IsFiniteSet(Allowed(e)) /\ Cardinality(Allowed(e)) \in Nat
                     /\ Cardinality(Allowed(e)) <= Cardinality(Callers)
<1> SUFFICES ASSUME NEW e \in Codes
             PROVE  /\ IsFiniteSet(Allowed(e)) /\ Cardinality(Allowed(e)) \in Nat
                    /\ Cardinality(Allowed(e)) <= Cardinality(Callers)
  OBVIOUS
<1>1. Allowed(e) \subseteq Callers /\ IsFiniteSet(Callers)
  BY RecoveryAssumption DEF Allowed
<1> QED BY <1>1, FS_Subset, FS_CardinalityType

(* The largest limit is one of them and at least 1.                         *)
LEMMA LargestLimit ==
    /\ Max(Limits) \in Nat /\ Max(Limits) >= 1 /\ Max(Limits) \in Limits
    /\ \A l \in Limits : l \in Nat /\ l <= Max(Limits)
<1> DEFINE f == [l \in Limits |-> l]
<1>1. \E m \in Limits : \A l \in Limits : f[l] <= f[m]
  <2>1. IsFiniteSet(Limits) /\ Limits # {} /\ \A l \in Limits : f[l] \in Int
    BY RecoveryAssumption
  <2> HIDE DEF f
  <2> QED BY <2>1, HighestOf
<1>2. \A l \in Limits : l \in Nat /\ l >= 1
  BY RecoveryAssumption
<1>3. \E m \in Limits : \A l \in Limits : m >= l
  BY <1>1, <1>2
<1>4. Max(Limits) \in Limits /\ \A l \in Limits : Max(Limits) >= l
  BY <1>3 DEF Max
<1> QED BY <1>2, <1>4

(* A step that adds nobody to those allowed and counts nothing.             *)
LEMMA NobodyAllowed ==
    ASSUME RMShape, AttemptsBounded, recoveryAttempts' = recoveryAttempts,
           \A e \in Codes : Allowed(e)' \subseteq Allowed(e)
    PROVE  AttemptsBounded'
<1> SUFFICES ASSUME NEW e \in Codes
             PROVE  (recoveryAttempts[e] + Cardinality(Allowed(e)) <= Max(Limits) - 1 + Cardinality(Callers))'
  BY DEF AttemptsBounded
<1>1. IsFiniteSet(Allowed(e)) /\ Cardinality(Allowed(e)) \in Nat
  BY AllowedBounded
<1>2. Cardinality(Allowed(e)') \in Nat /\ Cardinality(Allowed(e)') <= Cardinality(Allowed(e))
  BY <1>1, FS_Subset, FS_CardinalityType
<1>3. recoveryAttempts[e] \in Nat
  BY DEF RMShape
<1>4. Cardinality(Callers) \in Nat
  BY RecoveryAssumption, FS_CardinalityType
<1>5. recoveryAttempts[e] + Cardinality(Allowed(e)) <= Max(Limits) - 1 + Cardinality(Callers)
  BY DEF AttemptsBounded
<1>6. recoveryAttempts'[e] + Cardinality(Allowed(e)') <= Max(Limits) - 1 + Cardinality(Callers)
  BY <1>1, <1>2, <1>3, <1>4, <1>5, LargestLimit
<1> QED BY <1>6

(* A call of HandleError that moves on without counting an attempt.         *)
LEMMA CallMoves ==
    ASSUME RMInv, NEW c \in Callers, NEW h \in HandlingSet,
           h.pc # "idle" => h.code \in Codes, h.pc # "increment",
           hcall' = [hcall EXCEPT ![c] = h],
           UNCHANGED <<recoveryAttempts, recoveryStrategies, maxRecoveryAttempts, clock>>,
           circuitBreakers' \in [Codes -> Nat \cup {Closed}],
           h.pc \notin {"idle", "breaker"} =>
             /\ h.at <= clock
             /\ \/ h.pc = "delete" \/ circuitBreakers'[h.code] = Closed
                \/ h.at <= circuitBreakers'[h.code],
           \A e \in Codes : circuitBreakers'[e] \in {circuitBreakers[e], clock, Closed}
    PROVE  RMInv'
<1>1. RMShape /\ PastBreaker /\ AttemptsBounded
  BY DEF RMInv
<1>2. RMShape'
  BY <1>1 DEF RMShape
<1>3. PastBreaker'
  <2> SUFFICES ASSUME NEW d \in Callers, hcall'[d].pc \notin {"idle", "breaker"}
               PROVE  /\ hcall'[d].at <= clock
                      /\ \/ hcall'[d].pc = "delete" \/ circuitBreakers'[hcall'[d].code] = Closed
                         \/ hcall'[d].at <= circuitBreakers'[hcall'[d].code]
    BY DEF PastBreaker
  <2>1. CASE d = c
    BY <1>1, <2>1 DEF RMShape
  <2>2. CASE d # c
    <3>1. hcall'[d] = hcall[d] /\ hcall[d].code \in Codes /\ clock \in Nat /\ hcall[d].at \in Nat
      BY <1>1, <2>2 DEF RMShape, HandlingSet
    <3>2. /\ hcall[d].at <= clock
          /\ \/ hcall[d].pc = "delete" \/ circuitBreakers[hcall[d].code] = Closed
             \/ hcall[d].at <= circuitBreakers[hcall[d].code]
      BY <1>1, <3>1 DEF PastBreaker
    <3> QED BY <3>1, <3>2
  <2> QED BY <2>1, <2>2
<1>4. \A e \in Codes : Allowed(e)' \subseteq Allowed(e)
  BY <1>1 DEF Allowed, RMShape
<1> QED BY <1>1, <1>2, <1>3, <1>4, NobodyAllowed DEF RMInv

(* A call past its breaker moves on, ...                                    *)
LEMMA CallGoesOn ==
    ASSUME RMInv, NEW c \in Callers, hcall[c].pc \notin {"idle", "breaker", "delete"},
           NEW p \in CallPCs \ {"increment", "delete"}, hcall' = [hcall EXCEPT ![c].pc = p],
           UNCHANGED <<recoveryAttempts, recoveryStrategies, maxRecoveryAttempts, clock, circuitBreakers>>
    PROVE  RMInv'
<1> DEFINE h == [hcall[c] EXCEPT !.pc = p]
<1>1. RMShape /\ PastBreaker
  BY DEF RMInv
<1>2. h \in HandlingSet /\ h.code = hcall[c].code /\ h.at = hcall[c].at /\ h.pc = p
  BY <1>1 DEF RMShape, HandlingSet
<1>3. hcall' = [hcall EXCEPT ![c] = h]
  OBVIOUS
<1>4. /\ hcall[c].code \in Codes /\ hcall[c].at <= clock
      /\ \/ circuitBreakers[hcall[c].code] = Closed
         \/ hcall[c].at <= circuitBreakers[hcall[c].code]
  BY <1>1 DEF RMShape, PastBreaker
<1>5. circuitBreakers' \in [Codes -> Nat \cup {Closed}]
  BY <1>1 DEF RMShape
<1> HIDE DEF h
<1> QED BY <1>2, <1>3, <1>4, <1>5, CallMoves

(* ... and a call ends.                                                     *)
LEMMA CallEnds ==
    ASSUME RMInv, NEW c \in Callers, hcall' = [hcall EXCEPT ![c] = NoHandling],
           UNCHANGED <<recoveryAttempts, recoveryStrategies, maxRecoveryAttempts, clock>>,
           circuitBreakers' \in [Codes -> Nat \cup {Closed}],
           \A e \in Codes : circuitBreakers'[e] \in {circuitBreakers[e], clock, Closed}
    PROVE  RMInv'
<1>1. NoHandling \in HandlingSet /\ NoHandling.pc = "idle"
  BY DEF NoHandling, HandlingSet, CallPCs
<1> QED BY <1>1, CallMoves

(* The looks at the breaker and its deletion.                               *)
LEMMA BreakerStep ==
    ASSUME RMInv, NEW c \in Callers, CheckBreaker(c) \/ DeleteBreaker(c)
    PROVE  RMInv'
<1>1. /\ RMShape /\ PastBreaker
      /\ UNCHANGED <<recoveryAttempts, recoveryStrategies, maxRecoveryAttempts, clock>>
  BY DEF RMInv, CheckBreaker, DeleteBreaker, cfgVars
<1>2. /\ hcall[c] \in HandlingSet /\ clock \in Nat
      /\ circuitBreakers \in [Codes -> Nat \cup {Closed}]
  BY <1>1 DEF RMShape
<1>3. CASE UNCHANGED <<hcall, circuitBreakers>>
  <2>1. RMShape'
    BY <1>1, <1>3 DEF RMShape
  <2>2. PastBreaker'
    BY <1>1, <1>3 DEF PastBreaker
  <2>3. \A e \in Codes : Allowed(e)' \subseteq Allowed(e)
    BY <1>3 DEF Allowed
  <2> QED BY <1>1, <2>1, <2>2, <2>3, NobodyAllowed DEF RMInv
<1>4. CASE CheckBreaker(c) /\ hcall' # hcall
  <2> DEFINE p == IF circuitBreakers[hcall[c].code] = Closed THEN "strategy" ELSE "delete"
             h == [hcall[c] EXCEPT !.at = clock, !.pc = p]
  <2>1. hcall[c].pc = "breaker" /\ circuitBreakers' = circuitBreakers
    BY <1>4 DEF CheckBreaker
  <2>2. \/ hcall' = [hcall EXCEPT ![c] = NoHandling]
        \/ hcall' = [hcall EXCEPT ![c] = h]
    BY <1>4 DEF CheckBreaker
  <2>3. hcall[c].code \in Codes
    BY <1>1, <2>1 DEF RMShape
  <2>4. h \in HandlingSet /\ h.at = clock /\ h.pc = p /\ h.code = hcall[c].code
    BY <1>2 DEF HandlingSet, CallPCs
  <2>5. CASE hcall' = [hcall EXCEPT ![c] = NoHandling]
    BY <1>1, <1>2, <2>1, <2>5, CallEnds
  <2>6. CASE hcall' = [hcall EXCEPT ![c] = h]
    <3>1. /\ p \in {"strategy", "delete"}
          /\ p = "strategy" => circuitBreakers[hcall[c].code] = Closed
      OBVIOUS
    <3> HIDE DEF h, p
    <3>2. \A e \in Codes : circuitBreakers'[e] \in {circuitBreakers[e], clock, Closed}
      BY <2>1
    <3>3. h.pc \notin {"idle", "breaker"} =>
             /\ h.at <= clock
             /\ \/ h.pc = "delete" \/ circuitBreakers'[h.code] = Closed
                \/ h.at <= circuitBreakers'[h.code]
      BY <1>2, <2>1, <2>4, <3>1
    <3>4. h.pc # "increment" /\ circuitBreakers' \in [Codes -> Nat \cup {Closed}]
      BY <1>2, <2>1, <2>4, <3>1
    <3> QED BY <1>1, <2>3, <2>4, <2>6, <3>2, <3>3, <3>4, CallMoves
  <2> QED BY <2>2, <2>5, <2>6
<1>5. CASE DeleteBreaker(c) /\ hcall' # hcall
  <2> DEFINE h == [hcall[c] EXCEPT !.pc = "strategy"]
  <2>1. /\ hcall[c].pc = "delete" /\ hcall' = [hcall EXCEPT ![c] = h]
        /\ circuitBreakers' = [circuitBreakers EXCEPT ![hcall[c].code] = Closed]
    BY <1>5 DEF DeleteBreaker, Deleting, To
  <2>2. hcall[c].code \in Codes /\ hcall[c].at <= clock
    BY <1>1, <2>1 DEF RMShape, PastBreaker
  <2>3. h \in HandlingSet /\ h.at = hcall[c].at /\ h.pc = "strategy" /\ h.code = hcall[c].code
    BY <1>2 DEF HandlingSet, CallPCs
  <2> HIDE DEF h
  <2>4. /\ circuitBreakers' \in [Codes -> Nat \cup {Closed}] /\ circuitBreakers'[h.code] = Closed
        /\ \A e \in Codes : circuitBreakers'[e] \in {circuitBreakers[e], clock, Closed}
    BY <1>2, <2>1, <2>2, <2>3
  <2> QED BY <1>1, <2>1, <2>2, <2>3, <2>4, CallMoves
<1>6. CASE hcall' = hcall
  <2>1. CASE CheckBreaker(c)
    BY <1>3, <1>6, <2>1 DEF CheckBreaker
  <2>2. CASE DeleteBreaker(c)
    <3>1. CASE circuitBreakers' = circuitBreakers
      BY <1>3, <1>6, <3>1
    <3>2. CASE circuitBreakers' # circuitBreakers
      <4>1. hcall[c].pc = "delete" /\ hcall' = [hcall EXCEPT ![c].pc = "strategy"]
        BY <2>2, <3>2 DEF DeleteBreaker, Deleting, To
      <4>2. hcall'[c].pc = "strategy"
        BY <1>1, <4>1 DEF RMShape, HandlingSet
      <4> QED BY <1>6, <4>1, <4>2
    <3> QED BY <3>1, <3>2
  <2> QED BY <2>1, <2>2
<1> QED BY <1>4, <1>5, <1>6

(* ReadAttempts lets a goroutine make an attempt.                           *)
LEMMA AllowStep ==
    ASSUME RMInv, NEW c \in Callers, ReadAttempts(c)
    PROVE  RMInv'
<1>1. /\ RMShape /\ PastBreaker /\ AttemptsBounded
      /\ hcall[c].pc = "attempts" /\ hcall[c].code \in Codes
      /\ UNCHANGED <<recoveryAttempts, circuitBreakers, recoveryStrategies, maxRecoveryAttempts, clock>>
  BY DEF RMInv, RMShape, ReadAttempts, cfgVars
<1>2. CASE Exhausted(hcall[c].code)
  <2>1. "activate" \in CallPCs \ {"increment", "delete"}
    BY DEF CallPCs
  <2>2. hcall' = [hcall EXCEPT ![c].pc = "activate"]
    BY <1>2 DEF ReadAttempts, To
  <2> QED BY <1>1, <2>1, <2>2, CallGoesOn
<1>3. CASE ~Exhausted(hcall[c].code)
  <2> DEFINE h == [hcall[c] EXCEPT !.pc = "increment"]
  <2>1. hcall' = [hcall EXCEPT ![c] = h] /\ recoveryAttempts[hcall[c].code] < maxRecoveryAttempts
    <3>1. recoveryAttempts[hcall[c].code] \in Nat /\ maxRecoveryAttempts \in Nat
      BY <1>1, LargestLimit DEF RMShape
    <3>2. hcall' = [hcall EXCEPT ![c] = h]
      BY <1>3 DEF ReadAttempts, To
    <3>3. recoveryAttempts[hcall[c].code] < maxRecoveryAttempts
      BY <1>3, <3>1 DEF Exhausted
    <3> QED BY <3>2, <3>3
  <2>2. h \in HandlingSet /\ h.code = hcall[c].code /\ h.at = hcall[c].at /\ h.pc = "increment"
    BY <1>1 DEF RMShape, HandlingSet, CallPCs
  <2> HIDE DEF h
  <2>3. RMShape'
    BY <1>1, <2>1, <2>2 DEF RMShape
  <2>4. PastBreaker'
    BY <1>1, <2>1, <2>2 DEF PastBreaker, RMShape
  <2>5. AttemptsBounded'
    <3> SUFFICES ASSUME NEW e \in Codes
                 PROVE  recoveryAttempts'[e] + Cardinality(Allowed(e)') <= Max(Limits) - 1 + Cardinality(Callers)
      BY DEF AttemptsBounded
    <3>1. /\ recoveryAttempts[e] \in Nat /\ maxRecoveryAttempts \in Nat /\ maxRecoveryAttempts <= Max(Limits)
          /\ Max(Limits) \in Nat /\ Cardinality(Callers) \in Nat
      BY <1>1, LargestLimit, RecoveryAssumption, FS_CardinalityType DEF RMShape
    <3>2. CASE e = hcall[c].code
      <4>1. Allowed(e)' \subseteq Callers
        BY DEF Allowed
      <4>2. Cardinality(Allowed(e)') \in Nat /\ Cardinality(Allowed(e)') <= Cardinality(Callers)
        BY <4>1, FS_Subset, FS_CardinalityType, RecoveryAssumption
      <4>3. recoveryAttempts'[e] < maxRecoveryAttempts /\ recoveryAttempts'[e] = recoveryAttempts[e]
        BY <1>1, <2>1, <3>2
      <4> QED BY <3>1, <4>2, <4>3
    <3>3. CASE e # hcall[c].code
      <4>1. Allowed(e)' = Allowed(e)
        BY <1>1, <2>1, <2>2, <3>3 DEF Allowed, RMShape
      <4>2. recoveryAttempts[e] + Cardinality(Allowed(e)) <= Max(Limits) - 1 + Cardinality(Callers)
        BY <1>1 DEF AttemptsBounded
      <4> QED BY <1>1, <4>1, <4>2
    <3> QED BY <3>2, <3>3
  <2> QED BY <2>3, <2>4, <2>5 DEF RMInv
<1> QED BY <1>2, <1>3

(* IncrementAttempts turns a goroutine that was allowed an attempt into one. *)
LEMMA IncrementStep ==
    ASSUME RMInv, NEW c \in Callers, IncrementAttempts(c)
    PROVE  RMInv'
<1> DEFINE p == IF hcall[c].strategy \in {"reset", "restart"} THEN "isRunning" ELSE "apply"
           h == [hcall[c] EXCEPT !.pc = p]
           k == hcall[c].code
<1>1. /\ RMShape /\ PastBreaker /\ AttemptsBounded
      /\ hcall[c].pc = "increment" /\ k \in Codes /\ p \in {"isRunning", "apply"}
      /\ UNCHANGED <<circuitBreakers, recoveryStrategies, maxRecoveryAttempts, clock>>
      /\ recoveryAttempts' = [recoveryAttempts EXCEPT ![k] = @ + 1]
      /\ hcall' = [hcall EXCEPT ![c] = h]
  BY DEF RMInv, RMShape, IncrementAttempts, cfgVars, To
<1> HIDE DEF p
<1>2. h \in HandlingSet /\ h.code = k /\ h.at = hcall[c].at /\ h.pc = p
  BY <1>1 DEF RMShape, HandlingSet, CallPCs
<1> HIDE DEF h
<1>3. RMShape'
  BY <1>1, <1>2 DEF RMShape
<1>4. PastBreaker'
  BY <1>1, <1>2 DEF PastBreaker, RMShape
<1>5. AttemptsBounded'
  <2> SUFFICES ASSUME NEW e \in Codes
               PROVE  recoveryAttempts'[e] + Cardinality(Allowed(e)') <= Max(Limits) - 1 + Cardinality(Callers)
    BY DEF AttemptsBounded
  <2>1. recoveryAttempts[e] + Cardinality(Allowed(e)) <= Max(Limits) - 1 + Cardinality(Callers)
    BY <1>1 DEF AttemptsBounded
  <2>2. IsFiniteSet(Allowed(e)) /\ Cardinality(Allowed(e)) \in Nat
    BY AllowedBounded
  <2>3. CASE e = k
    <3>1. Allowed(e)' = Allowed(e) \ {c} /\ c \in Allowed(e)
      BY <1>1, <1>2, <2>3 DEF Allowed, RMShape
    <3>2. Cardinality(Allowed(e)') = Cardinality(Allowed(e)) - 1
      BY <2>2, <3>1, FS_RemoveElement
    <3>3. recoveryAttempts'[e] = recoveryAttempts[e] + 1 /\ recoveryAttempts[e] \in Nat
      BY <1>1, <2>3 DEF RMShape
    <3> QED BY <2>1, <2>2, <3>2, <3>3
  <2>4. CASE e # k
    <3>1. Allowed(e)' = Allowed(e) /\ recoveryAttempts'[e] = recoveryAttempts[e]
      BY <1>1, <1>2, <2>4 DEF Allowed, RMShape
    <3> QED BY <2>1, <3>1
  <2> QED BY <2>3, <2>4
<1> QED BY <1>3, <1>4, <1>5 DEF RMInv

(* The other steps of a call.                                               *)
LEMMA OtherCallStep ==
    ASSUME RMInv, NEW c \in Callers,
           \/ ChooseStrategy(c) \/ ActivateBreaker(c) \/ ApplyStrategy(c) \/ StopCheck(c)
           \/ StopOnce(c) \/ StopReturned(c) \/ ZeroHeights(c) \/ Restart(c)
    PROVE  RMInv'
<1>1. /\ RMShape /\ PastBreaker
      /\ UNCHANGED <<recoveryAttempts, recoveryStrategies, maxRecoveryAttempts, clock>>
  BY DEF RMInv, ChooseStrategy, ActivateBreaker, ApplyStrategy, StopCheck, StopOnce, StopReturned,
         ZeroHeights, Restart, cfgVars
<1>2. /\ circuitBreakers \in [Codes -> Nat \cup {Closed}] /\ clock \in Nat
      /\ hcall[c] \in HandlingSet
  BY <1>1 DEF RMShape
<1>3. CASE ActivateBreaker(c)
  <2>1. /\ circuitBreakers' = [circuitBreakers EXCEPT ![hcall[c].code] = clock]
        /\ hcall' = [hcall EXCEPT ![c] = NoHandling]
    BY <1>3 DEF ActivateBreaker, Done
  <2>2. /\ circuitBreakers' \in [Codes -> Nat \cup {Closed}]
        /\ \A e \in Codes : circuitBreakers'[e] \in {circuitBreakers[e], clock, Closed}
    BY <1>2, <2>1
  <2> QED BY <1>1, <2>1, <2>2, CallEnds
<1>4. CASE circuitBreakers' = circuitBreakers /\ hcall' = [hcall EXCEPT ![c] = NoHandling]
  <2>1. /\ circuitBreakers' \in [Codes -> Nat \cup {Closed}]
        /\ \A e \in Codes : circuitBreakers'[e] \in {circuitBreakers[e], clock, Closed}
    BY <1>2, <1>4
  <2> QED BY <1>1, <1>4, <2>1, CallEnds
<1>5. CASE ChooseStrategy(c) /\ hcall' # [hcall EXCEPT ![c] = NoHandling]
  <2> DEFINE h == [hcall[c] EXCEPT !.pc = "attempts", !.strategy = recoveryStrategies[hcall[c].code]]
  <2>1. /\ hcall[c].pc = "strategy" /\ circuitBreakers' = circuitBreakers
        /\ hcall' = [hcall EXCEPT ![c] = h]
    BY <1>5 DEF ChooseStrategy
  <2>2. /\ hcall[c].code \in Codes /\ hcall[c].at <= clock
        /\ recoveryStrategies[hcall[c].code] \in Strategies
        /\ \/ circuitBreakers[hcall[c].code] = Closed
           \/ hcall[c].at <= circuitBreakers[hcall[c].code]
    BY <1>1, <2>1 DEF RMShape, PastBreaker
  <2>3. h \in HandlingSet /\ h.at = hcall[c].at /\ h.pc = "attempts" /\ h.code = hcall[c].code
    BY <1>2, <2>2 DEF HandlingSet, CallPCs
  <2> HIDE DEF h
  <2>4. \A e \in Codes : circuitBreakers'[e] \in {circuitBreakers[e], clock, Closed}
    BY <2>1
  <2>5. circuitBreakers' \in [Codes -> Nat \cup {Closed}]
    BY <1>2, <2>1
  <2> QED BY <1>1, <2>1, <2>2, <2>3, <2>4, <2>5, CallMoves
<1>6. ASSUME NEW p \in {"stop", "zero", "start", "stopping"},
             circuitBreakers' = circuitBreakers, hcall[c].pc \in {"isRunning", "stop", "stopping", "zero"},
             hcall' = [hcall EXCEPT ![c].pc = p]
      PROVE  RMInv'
  <2>1. p \in CallPCs \ {"increment", "delete"}
    BY <1>6 DEF CallPCs
  <2> QED BY <1>1, <1>6, <2>1, CallGoesOn
<1>7. CASE ApplyStrategy(c) \/ Restart(c)
  BY <1>4, <1>7 DEF ApplyStrategy, Restart, Done
<1>8. CASE StopCheck(c)
  BY <1>4, <1>6, <1>8 DEF StopCheck, To, Done
<1>9. CASE StopOnce(c)
  BY <1>4, <1>6, <1>9 DEF StopOnce, To, Stopped
<1>10. CASE StopReturned(c)
  BY <1>4, <1>6, <1>10 DEF StopReturned, To, Done, Stopped
<1>11. CASE ZeroHeights(c)
  BY <1>6, <1>11 DEF ZeroHeights, To
<1>12. CASE ChooseStrategy(c) /\ hcall' = [hcall EXCEPT ![c] = NoHandling]
  BY <1>4, <1>12 DEF ChooseStrategy
<1> QED BY <1>3, <1>5, <1>7, <1>8, <1>9, <1>10, <1>11, <1>12

(* A report comes in, the clock moves or an operator steps in.              *)
LEMMA OperatorStep ==
    ASSUME RMInv,
           \/ \E c \in Callers, e \in Codes : Report(c, e)
           \/ ResetRecoveryAttempts \/ ResetCircuitBreakers \/ Configure \/ RMTick
    PROVE  RMInv'
<1>1. RMShape /\ PastBreaker /\ AttemptsBounded
  BY DEF RMInv
<1>2. ASSUME NEW c \in Callers, NEW e \in Codes, Report(c, e) PROVE RMInv'
  <2> DEFINE h == [NoHandling EXCEPT !.pc = "breaker", !.code = e]
  <2>1. /\ hcall' = [hcall EXCEPT ![c] = h]
        /\ UNCHANGED <<recoveryAttempts, recoveryStrategies, maxRecoveryAttempts, clock, circuitBreakers>>
    BY <1>2 DEF Report, cfgVars
  <2>2. h \in HandlingSet /\ h.pc = "breaker" /\ h.code = e
    BY DEF HandlingSet, CallPCs, NoHandling
  <2> HIDE DEF h
  <2>3. /\ circuitBreakers' \in [Codes -> Nat \cup {Closed}]
        /\ \A k \in Codes : circuitBreakers'[k] \in {circuitBreakers[k], clock, Closed}
    BY <1>1, <2>1 DEF RMShape
  <2> QED BY <2>1, <2>2, <2>3, CallMoves
<1>3. CASE ResetRecoveryAttempts
  <2>1. /\ recoveryAttempts' = [e \in Codes |-> 0]
        /\ UNCHANGED <<circuitBreakers, recoveryStrategies, maxRecoveryAttempts, hcall, clock>>
    BY <1>3 DEF ResetRecoveryAttempts
  <2>2. RMShape' /\ PastBreaker'
    BY <1>1, <2>1 DEF RMShape, PastBreaker
  <2>3. AttemptsBounded'
    <3> SUFFICES ASSUME NEW e \in Codes
                 PROVE  recoveryAttempts'[e] + Cardinality(Allowed(e)') <= Max(Limits) - 1 + Cardinality(Callers)
      BY DEF AttemptsBounded
    <3>1. Allowed(e)' = Allowed(e) /\ recoveryAttempts'[e] = 0
      BY <2>1 DEF Allowed
    <3>2. Cardinality(Callers) \in Nat
      BY RecoveryAssumption, FS_CardinalityType
    <3> QED BY <3>1, <3>2, AllowedBounded, LargestLimit
  <2> QED BY <2>2, <2>3 DEF RMInv
<1>4. CASE ResetCircuitBreakers \/ Configure \/ RMTick
  <2>1. /\ UNCHANGED <<recoveryAttempts, hcall>>
        /\ clock' \in Nat /\ clock <= clock'
        /\ circuitBreakers' \in [Codes -> Nat \cup {Closed}]
        /\ \A e \in Codes : circuitBreakers'[e] \in {circuitBreakers[e], Closed}
        /\ maxRecoveryAttempts' \in Limits
    BY <1>1, <1>4 DEF ResetCircuitBreakers, Configure, RMTick, RMShape, cfgVars
  <2>2. recoveryStrategies' \in [Codes -> Strategies]
    BY <1>1, <1>4 DEF ResetCircuitBreakers, Configure, RMTick, RMShape, cfgVars
  <2>3. RMShape'
    BY <1>1, <2>1, <2>2 DEF RMShape
  <2>4. PastBreaker'
    <3> SUFFICES ASSUME NEW d \in Callers, hcall[d].pc \notin {"idle", "breaker"}
                 PROVE  /\ hcall[d].at <= clock'
                        /\ \/ hcall[d].pc = "delete" \/ circuitBreakers'[hcall[d].code] = Closed
                           \/ hcall[d].at <= circuitBreakers'[hcall[d].code]
      BY <2>1 DEF PastBreaker
    <3>1. hcall[d].code \in Codes /\ clock \in Nat /\ hcall[d].at \in Nat
      BY <1>1 DEF RMShape, HandlingSet
    <3>2. /\ hcall[d].at <= clock
          /\ \/ hcall[d].pc = "delete" \/ circuitBreakers[hcall[d].code] = Closed
             \/ hcall[d].at <= circuitBreakers[hcall[d].code]
      BY <1>1 DEF PastBreaker
    <3> QED BY <2>1, <3>1, <3>2
  <2>5. \A e \in Codes : Allowed(e)' \subseteq Allowed(e)
    BY <2>1 DEF Allowed
  <2> QED BY <1>1, <2>1, <2>3, <2>4, <2>5, NobodyAllowed DEF RMInv
<1> QED BY <1>2, <1>3, <1>4

(* The invariant of the recovery manager.                                   *)
THEOREM RecoveryManagerInvariant == RMSpec => []RMInv
<1>1. RMInit => RMInv
  <2> SUFFICES ASSUME RMInit PROVE RMInv
    OBVIOUS
  <2>1. NoHandling \in HandlingSet /\ NoHandling.pc = "idle"
    BY DEF NoHandling, HandlingSet, CallPCs
  <2>2. hcall = [c \in Callers |-> NoHandling] /\ \A c \in Callers : hcall[c].pc = "idle"
    BY <2>1 DEF RMInit
  <2>3. RMShape
    BY <2>1, <2>2, LargestLimit, RecoveryAssumption DEF RMInit, RMShape
  <2>4. PastBreaker
    BY <2>2 DEF PastBreaker
  <2>5. AttemptsBounded
    <3> SUFFICES ASSUME NEW e \in Codes
                 PROVE  recoveryAttempts[e] + Cardinality(Allowed(e)) <= Max(Limits) - 1 + Cardinality(Callers)
      BY DEF AttemptsBounded
    <3>1. recoveryAttempts[e] = 0 /\ Cardinality(Callers) \in Nat
      BY RecoveryAssumption, FS_CardinalityType DEF RMInit
    <3> QED BY <3>1, AllowedBounded, LargestLimit
  <2> QED BY <2>3, <2>4, <2>5 DEF RMInv
<1>2. RMInv /\ [RMNext]_rmVars => RMInv'
  <2> SUFFICES ASSUME RMInv, [RMNext]_rmVars PROVE RMInv'
    OBVIOUS
  <2>1. CASE UNCHANGED rmVars
    <3>1. UNCHANGED <<recoveryAttempts, circuitBreakers, recoveryStrategies, maxRecoveryAttempts, hcall, clock>>
      BY <2>1 DEF rmVars, cfgVars
    <3>2. RMShape' /\ PastBreaker'
      BY <3>1 DEF RMInv, RMShape, PastBreaker
    <3>3. \A e \in Codes : Allowed(e)' \subseteq Allowed(e)
      BY <3>1 DEF Allowed
    <3> QED BY <3>1, <3>2, <3>3, NobodyAllowed DEF RMInv
  <2> QED BY <2>1, BreakerStep, AllowStep, IncrementStep, OtherCallStep, OperatorStep DEF RMNext, CallStep
<1> QED BY <1>1, <1>2, PTL DEF RMSpec

(* A code gets at most one attempt more than its limit for each other        *)
(* goroutine, although the count is read and raised under different locks.   *)
THEOREM AttemptsNearLimit == RMSpec => []AttemptsBounded
<1>1. RMInv => AttemptsBounded
  BY DEF RMInv
<1> QED BY <1>1, RecoveryManagerInvariant, PTL

(* Nobody recovers behind an open breaker who looked after it had opened.   *)
THEOREM BreakerKeepsOut == RMSpec => []OpenBreakerAdmitsNobody
<1>1. RMInv => OpenBreakerAdmitsNobody
  BY DEF RMInv, PastBreaker, OpenBreakerAdmitsNobody, BreakerOpen
<1> QED BY <1>1, RecoveryManagerInvariant, PTL

(***************************************************************************)
(* The hybrid consensus.  Top is the highest block applied; every number a   *)
(* goroutine, a checkpoint or a recovery holds is covered by Top and by the  *)
(* count of PoH, which both only grow, so no order of their steps gets       *)
(* ahead of either.                                                         *)
(***************************************************************************)
Top == Cardinality(applied)

CheckpointSet == [block : Nat, lach : Int, dpos : Int, poh : Nat]
WorkerPCs == {"idle", "start", "handle", "recover", "produce", "validate", "apply", "getLachesis",
              "store", "stuck", "done"}
WorkerSet == [pc : WorkerPCs, bn : Nat, lach : Int, result : BOOLEAN]
RecPCs == {"none", "lachesis", "dpos", "poh", "height", "undoLachesis", "undoDPoS", "ok", "failed"}
RecSet == [pc : RecPCs, ck : CheckpointSet, lach : Int, dpos : Int, lost : SUBSET {"lachesis", "dpos"},
           quiet : BOOLEAN]

\* A goroutine x, where p is the count of PoH and t the highest block applied.
WorkerFine(x, p, t) ==
  /\ x \in WorkerSet /\ x.bn <= t + 1 /\ x.bn <= p + 1
  /\ x.pc \notin {"idle", "done"} => x.bn >= 1
  /\ x.pc \in {"validate", "apply", "getLachesis", "store"} => x.bn <= p
  /\ x.pc \in {"getLachesis", "store"} => x.bn <= t

CheckpointFine(c, t) == c \in CheckpointSet /\ c.block <= t /\ c.block <= c.poh

RecFine(x, p, t) ==
  /\ x \in RecSet /\ CheckpointFine(x.ck, t)
  /\ x.pc = "height" => x.ck.poh <= p

\* A recovery x that nobody disturbed, where l and d are the states of Lachesis and DPoS.
AtomFine(x, l, d) ==
  x.quiet =>
    /\ x.pc \in {"dpos", "poh", "height", "ok"} => l = x.ck.lach
    /\ x.pc \in {"poh", "height", "ok"} => d = x.ck.dpos
    /\ x.pc = "undoDPoS" => l = x.lach \/ "lachesis" \in x.lost
    /\ x.pc = "failed" /\ x.ck # NoCheckpoint =>
         (l = x.lach \/ "lachesis" \in x.lost) /\ (d = x.dpos \/ "dpos" \in x.lost)

Numbers ==
  /\ lach \in Int /\ dpos \in Int /\ version \in Nat
  /\ height \in Nat /\ poh \in Nat /\ Top \in Nat
  /\ height <= Top /\ height <= poh

WorkersInv == worker \in [W -> WorkerSet] /\ \A w \in W : WorkerFine(worker[w], poh, Top)
CheckpointsInv ==
  \A n \in DOMAIN checkpoints : CheckpointFine(checkpoints[n], Top) /\ checkpoints[n].block = n
RecoveriesInv == rec \in [Actors -> RecSet] /\ \A a \in Actors : RecFine(rec[a], poh, Top)
AtomInv == \A a \in Actors : AtomFine(rec[a], lach, dpos)
RecoveringInv == \A w \in W : rec[w].pc # "none" => worker[w].pc = "recover"

HybridInv ==
  /\ Numbers /\ NoGap /\ WorkersInv /\ CheckpointsInv
  /\ RecoveriesInv /\ AtomInv /\ RecoveringInv

\* At most one goroutine changes, it stays covered by p and t and it is in no recovery.
WorkerMoves(p, t) ==
  \/ worker' = worker
  \/ \E w, x : /\ WorkerFine(x, p, t) /\ worker' = [worker EXCEPT ![w] = x]
               /\ w \in W => rec'[w].pc = "none"

(* What is covered stays covered while PoH and the chain grow.              *)
LEMMA CoverGrows ==
    ASSUME NEW p \in Nat, NEW t \in Nat, NEW q \in Nat, NEW u \in Nat, p <= q, t <= u
    PROVE  /\ \A x : WorkerFine(x, p, t) => WorkerFine(x, q, u)
           /\ \A c : CheckpointFine(c, t) => CheckpointFine(c, u)
           /\ \A x : RecFine(x, p, t) => RecFine(x, q, u)
<1>1. ASSUME NEW x, WorkerFine(x, p, t) PROVE WorkerFine(x, q, u)
  <2>1. x.bn \in Nat
    BY <1>1 DEF WorkerFine, WorkerSet
  <2> QED BY <1>1, <2>1 DEF WorkerFine
<1>2. ASSUME NEW c, CheckpointFine(c, t) PROVE CheckpointFine(c, u)
  <2>1. c.block \in Nat
    BY <1>2 DEF CheckpointFine, CheckpointSet
  <2> QED BY <1>2, <2>1 DEF CheckpointFine
<1>3. ASSUME NEW x, RecFine(x, p, t) PROVE RecFine(x, q, u)
  <2>1. x.ck.poh \in Nat /\ CheckpointFine(x.ck, u)
    BY <1>2, <1>3 DEF RecFine, CheckpointFine, CheckpointSet
  <2> QED BY <1>3, <2>1 DEF RecFine
<1> QED BY <1>1, <1>2, <1>3

(* A goroutine that returns is idle or leaves its result.                   *)
LEMMA ReturnMoves ==
    ASSUME NEW w, NEW ok \in BOOLEAN, NEW p \in Nat, NEW t \in Nat, Return(w, ok),
           w \in W => rec'[w].pc = "none"
    PROVE  WorkerMoves(p, t)
<1>1. WorkerFine(Idle, p, t)
  BY DEF WorkerFine, Idle, WorkerSet, WorkerPCs
<1>2. WorkerFine(Result(TRUE), p, t)
  BY DEF WorkerFine, Result, WorkerSet, WorkerPCs
<1>3. WorkerFine(Result(FALSE), p, t)
  BY DEF WorkerFine, Result, WorkerSet, WorkerPCs
<1>4. worker' = [worker EXCEPT ![w] = Idle] \/ worker' = [worker EXCEPT ![w] = Result(ok)]
  BY DEF Return
<1> QED BY <1>1, <1>2, <1>3, <1>4 DEF WorkerMoves

(* A goroutine that goes on keeps its number.                               *)
LEMMA GoMoves ==
    ASSUME NEW w, NEW pc \in WorkerPCs, NEW p \in Nat, NEW t \in Nat,
           WorkerFine(worker[w], p, t), Go(w, pc),
           pc \notin {"idle", "done"} => worker[w].bn >= 1,
           pc \in {"validate", "apply", "getLachesis", "store"} => worker[w].bn <= p,
           pc \in {"getLachesis", "store"} => worker[w].bn <= t,
           w \in W => rec'[w].pc = "none"
    PROVE  WorkerMoves(p, t)
<1> DEFINE x == [worker[w] EXCEPT !.pc = pc]
<1>1. x \in WorkerSet /\ x.bn = worker[w].bn /\ x.pc = pc
  BY DEF WorkerFine, WorkerSet
<1>2. worker' = [worker EXCEPT ![w] = x]
  BY DEF Go
<1> HIDE DEF x
<1>3. WorkerFine(x, p, t)
  BY <1>1 DEF WorkerFine
<1> QED BY <1>2, <1>3 DEF WorkerMoves

(* How the parts of the invariant come out of a step.                       *)
LEMMA WorkersKept ==
    ASSUME Numbers, WorkersInv, Numbers', poh <= poh', Top <= Top', WorkerMoves(poh', Top')
    PROVE  WorkersInv'
<1>1. \A w \in W : WorkerFine(worker[w], poh', Top')
  BY CoverGrows DEF Numbers, WorkersInv
<1>2. CASE worker' = worker
  BY <1>1, <1>2 DEF WorkersInv
<1>3. CASE worker' # worker
  <2>0. PICK w, x : /\ WorkerFine(x, poh', Top') /\ worker' = [worker EXCEPT ![w] = x]
                    /\ w \in W => rec'[w].pc = "none"
    BY <1>3 DEF WorkerMoves
  <2>1. x \in WorkerSet
    BY <2>0 DEF WorkerFine
  <2>2. worker' \in [W -> WorkerSet] /\ \A u \in W : worker'[u] = worker[u] \/ worker'[u] = x
    BY <2>0, <2>1 DEF WorkersInv
  <2> QED BY <1>1, <2>0, <2>2 DEF WorkersInv
<1> QED BY <1>2, <1>3

(* A goroutine in a recovery stays there until the recovery ends.           *)
LEMMA RecoveringKept ==
    ASSUME WorkersInv, RecoveringInv, NEW p, NEW t, WorkerMoves(p, t),
           \A w \in W : rec'[w].pc # "none" => rec[w].pc # "none" \/ worker[w].pc = "recover"
    PROVE  RecoveringInv'
<1>1. CASE worker' = worker
  BY <1>1 DEF RecoveringInv
<1>2. CASE worker' # worker
  <2>0. PICK w, x : /\ WorkerFine(x, p, t) /\ worker' = [worker EXCEPT ![w] = x]
                    /\ w \in W => rec'[w].pc = "none"
    BY <1>2 DEF WorkerMoves
  <2>1. \A u \in W : u # w => worker'[u] = worker[u]
    BY <2>0 DEF WorkersInv
  <2> QED BY <2>0, <2>1 DEF RecoveringInv
<1> QED BY <1>1, <1>2

(* The recoveries whose step this is not.                                   *)
LEMMA RecoveriesKept ==
    ASSUME Numbers, RecoveriesInv, Numbers', poh <= poh', Top <= Top'
    PROVE  \A a \in Actors : RecFine(rec[a], poh', Top')
BY CoverGrows DEF Numbers, RecoveriesInv

LEMMA CheckpointsKept ==
    ASSUME Numbers, CheckpointsInv, Numbers', poh <= poh', Top <= Top', checkpoints' = checkpoints
    PROVE  CheckpointsInv'
BY CoverGrows DEF Numbers, CheckpointsInv

(* A step that leaves the recoveries and what they restore alone.           *)
LEMMA NoRecoveryStep ==
    ASSUME HybridInv, Numbers', NoGap', poh <= poh', Top <= Top', WorkerMoves(poh', Top'),
           CheckpointsInv', UNCHANGED <<rec, lach, dpos>>
    PROVE  HybridInv'
<1>1. Numbers /\ WorkersInv /\ RecoveriesInv /\ AtomInv /\ RecoveringInv
  BY DEF HybridInv
<1>2. WorkersInv'
  BY <1>1, WorkersKept
<1>3. RecoveriesInv'
  BY <1>1, RecoveriesKept DEF RecoveriesInv
<1>4. AtomInv'
  BY <1>1 DEF AtomInv
<1>5. RecoveringInv'
  BY <1>1, RecoveringKept
<1> QED BY <1>2, <1>3, <1>4, <1>5 DEF HybridInv

(* A step of the goroutines only.                                           *)
LEMMA WorkerOnlyStep ==
    ASSUME HybridInv, UNCHANGED <<chainVars, poh, stateVars, checkpoints, rec>>, WorkerMoves(poh, Top)
    PROVE  HybridInv'
<1>1. /\ Numbers /\ NoGap /\ CheckpointsInv
      /\ UNCHANGED <<height, applied, poh, lach, dpos, version, checkpoints, rec>>
  BY DEF HybridInv, chainVars, stateVars
<1>2. Top' = Top /\ poh' = poh
  BY <1>1 DEF Top
<1>3. Numbers' /\ NoGap' /\ CheckpointsInv'
  BY <1>1, <1>2 DEF Numbers, NoGap, CheckpointsInv
<1>4. poh <= poh' /\ Top <= Top'
  BY <1>1, <1>2 DEF Numbers
<1>5. WorkerMoves(poh', Top')
  BY <1>2
<1> QED BY <1>1, <1>3, <1>4, <1>5, NoRecoveryStep

(* The life of the consensus and the production loop, except its recovery.  *)
LEMMA LoopSteps ==
    ASSUME HybridInv, Start \/ Stop \/ LoopSpawn \/ LoopTimeout \/ LoopResult \/ LoopExit
    PROVE  HybridInv'
<1>1. UNCHANGED <<chainVars, poh, stateVars, checkpoints, rec>>
  BY DEF Start, Stop, LoopSpawn, LoopTimeout, LoopResult, LoopExit, ckVars
<1>2. Numbers /\ WorkersInv /\ RecoveringInv /\ rec' = rec
  BY <1>1 DEF HybridInv
<1>3. WorkerFine(Idle, poh, Top)
  BY <1>2 DEF WorkerFine, Idle, WorkerSet, WorkerPCs, Numbers
<1>4. CASE Start \/ Stop \/ LoopExit
  BY <1>1, <1>4, WorkerOnlyStep DEF Start, Stop, LoopExit, WorkerMoves
<1>5. CASE LoopSpawn
  <2> DEFINE x == [Idle EXCEPT !.pc = "start", !.bn = height + 1]
             w == CHOOSE w \in W : worker[w] = Idle
  <2>1. worker' = [worker EXCEPT ![w] = x] /\ worker[w] = Idle
    BY <1>5 DEF LoopSpawn
  <2>2. x \in WorkerSet /\ x.bn = height + 1 /\ x.pc = "start"
    <3>1. Idle \in WorkerSet /\ height \in Nat
      BY <1>2, <1>3 DEF WorkerFine, Numbers
    <3>2. "start" \in WorkerPCs /\ height + 1 \in Nat
      BY <3>1 DEF WorkerPCs
    <3> QED BY <3>1, <3>2 DEF WorkerSet
  <2> HIDE DEF x, w
  <2>3. WorkerFine(x, poh, Top)
    BY <1>2, <2>2 DEF Numbers, WorkerFine
  <2>4. w \in W => rec'[w].pc = "none"
    BY <1>2, <2>1 DEF RecoveringInv, Idle
  <2>5. WorkerMoves(poh, Top)
    BY <2>1, <2>3, <2>4 DEF WorkerMoves
  <2> QED BY <1>1, <2>5, WorkerOnlyStep
<1>6. CASE LoopTimeout \/ LoopResult
  <2>1. \/ worker' = [worker EXCEPT ![loop.w] = Idle] /\ worker[loop.w].pc = "done"
        \/ worker' = [worker EXCEPT ![loop.w] = worker[loop.w]]
    BY <1>6 DEF LoopTimeout, LoopResult
  <2>2. [worker EXCEPT ![loop.w] = worker[loop.w]] = worker
    BY <1>2 DEF WorkersInv
  <2>3. worker[loop.w].pc = "done" /\ loop.w \in W => rec'[loop.w].pc = "none"
    BY <1>2 DEF RecoveringInv
  <2>4. WorkerMoves(poh, Top)
    BY <1>3, <2>1, <2>2, <2>3 DEF WorkerMoves
  <2> QED BY <1>1, <2>4, WorkerOnlyStep
<1> QED BY <1>4, <1>5, <1>6

(* The steps of ProcessBlock that only look.                                *)
LEMMA LookingSteps ==
    ASSUME HybridInv, NEW w \in W,
           WorkerStart(w) \/ HandleError(w) \/ WorkerValidate(w) \/ CheckpointLachesis(w)
    PROVE  HybridInv'
<1>1. UNCHANGED <<chainVars, poh, stateVars, checkpoints, rec>>
  BY DEF WorkerStart, HandleError, WorkerValidate, CheckpointLachesis, ckVars
<1>2. Numbers /\ WorkerFine(worker[w], poh, Top) /\ worker[w].bn \in Nat
  BY DEF HybridInv, WorkersInv, WorkerFine, WorkerSet
<1>3. /\ poh \in Nat /\ Top \in Nat
      /\ worker[w].pc # "recover" => rec'[w].pc = "none"
  BY <1>1, <1>2 DEF Numbers, HybridInv, RecoveringInv
<1>4. ASSUME NEW ok \in BOOLEAN, Return(w, ok), worker[w].pc # "recover" PROVE HybridInv'
  BY <1>1, <1>3, <1>4, ReturnMoves, WorkerOnlyStep
<1>5. ASSUME NEW pc \in WorkerPCs, Go(w, pc), worker[w].pc \notin {"idle", "done", "recover"},
             pc = "apply" => worker[w].pc = "validate", pc \notin {"validate", "getLachesis", "store"}
      PROVE  HybridInv'
  <2>1. worker[w].bn >= 1 /\ (worker[w].pc = "validate" => worker[w].bn <= poh)
    BY <1>2, <1>5 DEF WorkerFine
  <2>2. WorkerMoves(poh, Top)
    BY <1>2, <1>3, <1>5, <2>1, GoMoves
  <2> QED BY <1>1, <2>2, WorkerOnlyStep
<1>6. {"produce", "handle", "recover", "apply"} \subseteq WorkerPCs
  BY DEF WorkerPCs
<1>7. CASE WorkerStart(w)
  BY <1>4, <1>5, <1>6, <1>7 DEF WorkerStart
<1>8. CASE HandleError(w)
  BY <1>4, <1>5, <1>6, <1>8 DEF HandleError
<1>9. CASE WorkerValidate(w)
  BY <1>4, <1>5, <1>6, <1>9 DEF WorkerValidate
<1>10. CASE CheckpointLachesis(w) /\ ~Return(w, TRUE)
  <2> DEFINE x == [worker[w] EXCEPT !.pc = "store", !.lach = lach]
  <2>1. worker' = [worker EXCEPT ![w] = x] /\ worker[w].pc = "getLachesis"
    BY <1>10 DEF CheckpointLachesis
  <2>2. x \in WorkerSet /\ x.bn = worker[w].bn /\ x.pc = "store"
    BY <1>2 DEF WorkerFine, Numbers, WorkerSet, WorkerPCs
  <2> HIDE DEF x
  <2>3. WorkerFine(x, poh, Top)
    BY <1>2, <2>1, <2>2 DEF WorkerFine
  <2>4. WorkerMoves(poh, Top)
    BY <1>3, <2>1, <2>3 DEF WorkerMoves
  <2> QED BY <1>1, <2>4, WorkerOnlyStep
<1>11. CASE CheckpointLachesis(w) /\ Return(w, TRUE)
  BY <1>4, <1>11 DEF CheckpointLachesis
<1> QED BY <1>7, <1>8, <1>9, <1>10, <1>11

(* PoH counts.                                                              *)
LEMMA TickStep ==
    ASSUME HybridInv, Tick
    PROVE  HybridInv'
<1>1. /\ Numbers /\ NoGap /\ CheckpointsInv /\ poh' = poh + 1
      /\ UNCHANGED <<height, applied, lach, dpos, version, checkpoints, rec, worker>>
  BY DEF HybridInv, Tick, chainVars, stateVars, ckVars
<1>2. Top' = Top
  BY <1>1 DEF Top
<1>3. Numbers' /\ NoGap' /\ poh <= poh' /\ Top <= Top'
  BY <1>1, <1>2 DEF Numbers, NoGap
<1>4. CheckpointsInv'
  BY <1>1, <1>3, CheckpointsKept
<1>5. WorkerMoves(poh', Top')
  BY <1>1 DEF WorkerMoves
<1> QED BY <1>1, <1>3, <1>4, <1>5, NoRecoveryStep

(* The recoveries disturbed by a stay covered, and claim nothing any more.  *)
LEMMA DisturbKeeps ==
    ASSUME HybridInv, NEW a, NEW p \in Nat, NEW t \in Nat, poh <= p, Top <= t
    PROVE  /\ Disturb(a) \in [Actors -> RecSet]
           /\ \A b \in Actors : RecFine(Disturb(a)[b], p, t)
           /\ \A b \in Actors : b # a => \A l, d : AtomFine(Disturb(a)[b], l, d)
           /\ \A b \in Actors : b = a => Disturb(a)[b] = rec[b]
           /\ \A b \in Actors : Disturb(a)[b].pc = rec[b].pc
<1>1. Numbers /\ RecoveriesInv
  BY DEF HybridInv
<1>2. \A b \in Actors : rec[b] \in RecSet /\ RecFine(rec[b], p, t)
  BY <1>1, CoverGrows DEF Numbers, RecoveriesInv
<1>3. ASSUME NEW b \in Actors PROVE
        /\ Disturb(a)[b] \in RecSet /\ RecFine(Disturb(a)[b], p, t)
        /\ b # a => \A l, d : AtomFine(Disturb(a)[b], l, d)
        /\ b = a => Disturb(a)[b] = rec[b]
        /\ Disturb(a)[b].pc = rec[b].pc
  <2> DEFINE y == [rec[b] EXCEPT !.quiet = FALSE]
  <2>1. y \in RecSet /\ y.ck = rec[b].ck /\ y.pc = rec[b].pc /\ ~y.quiet
    BY <1>2 DEF RecSet
  <2>2. Disturb(a)[b] = IF b # a /\ rec[b].pc # "none" THEN y ELSE rec[b]
    BY DEF Disturb
  <2> HIDE DEF y
  <2>3. RecFine(y, p, t) /\ \A l, d : AtomFine(y, l, d)
    BY <1>2, <2>1 DEF RecFine, AtomFine
  <2>4. rec[b].pc = "none" => \A l, d : AtomFine(rec[b], l, d)
    BY DEF AtomFine
  <2> QED BY <1>2, <2>1, <2>2, <2>3, <2>4
<1>4. Disturb(a) = [b \in Actors |-> Disturb(a)[b]]
  BY DEF Disturb
<1> HIDE DEF Disturb
<1> QED BY <1>3, <1>4

(* Lachesis or DPoS change from outside.                                    *)
LEMMA OutsideStep ==
    ASSUME HybridInv, Outside
    PROVE  HybridInv'
<1>1. /\ Numbers /\ NoGap /\ CheckpointsInv /\ WorkersInv /\ RecoveringInv
      /\ UNCHANGED <<height, applied, poh, checkpoints, worker>> /\ rec' = Disturb(None)
  BY DEF HybridInv, Outside, chainVars, ckVars
<1>2. Top' = Top
  BY <1>1 DEF Top
<1>3. version' \in Nat /\ lach' \in Int /\ dpos' \in Int
  BY <1>1 DEF Outside, Numbers
<1>4. Numbers' /\ NoGap' /\ WorkersInv' /\ CheckpointsInv'
  BY <1>1, <1>2, <1>3 DEF Numbers, NoGap, WorkersInv, CheckpointsInv
<1>5. None \notin Actors
  BY LoopAssumption DEF None, Actors
<1>6. RecoveriesInv' /\ AtomInv' /\ RecoveringInv'
  <2>1. poh \in Nat /\ Top \in Nat /\ poh <= poh /\ Top <= Top
    BY <1>1 DEF Numbers
  <2>2. /\ Disturb(None) \in [Actors -> RecSet]
        /\ \A b \in Actors : RecFine(Disturb(None)[b], poh, Top)
        /\ \A b \in Actors : b # None => \A l, d : AtomFine(Disturb(None)[b], l, d)
        /\ \A b \in Actors : Disturb(None)[b].pc = rec[b].pc
    BY <2>1, DisturbKeeps
  <2> QED BY <1>1, <1>2, <1>5, <2>2 DEF RecoveriesInv, AtomInv, RecoveringInv, Actors
<1> QED BY <1>4, <1>6 DEF HybridInv

(* ProcessEpoch changes DPoS, and the block is recorded in PoH or not.      *)
LEMMA ProduceSteps ==
    ASSUME HybridInv, NEW w \in W, WorkerNoProducer(w) \/ WorkerProduce(w)
    PROVE  HybridInv'
<1>1. /\ Numbers /\ NoGap /\ CheckpointsInv /\ WorkersInv /\ RecoveriesInv /\ AtomInv
      /\ RecoveringInv /\ rec[w].pc = "none" /\ worker[w].pc = "produce" /\ ProcessEpoch(w)
      /\ UNCHANGED <<height, applied, checkpoints, lach>>
  BY DEF HybridInv, RecoveringInv, WorkerNoProducer, WorkerProduce, ProcessEpoch, chainVars, ckVars
<1>2. Top' = Top
  BY <1>1 DEF Top
<1>3. /\ poh' \in Nat /\ poh <= poh' /\ Top <= Top' /\ Top' \in Nat /\ lach' \in Int
      /\ WorkerProduce(w) => poh' = poh + 1
  <2>1. WorkerNoProducer(w) => poh' = poh
    BY DEF WorkerNoProducer
  <2>2. WorkerProduce(w) => poh' = poh + 1
    BY DEF WorkerProduce
  <2>3. poh \in Nat /\ Top \in Nat /\ lach' \in Int
    BY <1>1 DEF Numbers
  <2> QED BY <1>2, <2>1, <2>2, <2>3
<1>4. version' \in Nat /\ dpos' \in Int
  BY <1>1 DEF ProcessEpoch, Numbers
<1>5. Numbers' /\ NoGap'
  BY <1>1, <1>2, <1>3, <1>4 DEF Numbers, NoGap
<1>6. CheckpointsInv'
  BY <1>1, <1>3, <1>5, CheckpointsKept
<1>7. WorkerFine(worker[w], poh, Top) /\ worker[w].bn \in Nat /\ worker[w].bn >= 1 /\ worker[w].bn <= poh + 1
  BY <1>1 DEF WorkersInv, WorkerFine, WorkerSet
<1>8. WorkerMoves(poh', Top')
  <2>0. rec'[w].pc = "none"
    <3>1. Disturb(w)[w] = rec[w]
      BY <1>1, <1>3, DisturbKeeps DEF Actors, Numbers
    <3> QED BY <1>1, <3>1 DEF ProcessEpoch
  <2>1. CASE WorkerNoProducer(w)
    <3>1. Return(w, FALSE)
      BY <2>1 DEF WorkerNoProducer
    <3> QED BY <1>3, <2>0, <3>1, ReturnMoves
  <2>2. CASE WorkerProduce(w)
    <3>1. Go(w, "validate") /\ "validate" \in WorkerPCs
      BY <2>2 DEF WorkerProduce, WorkerPCs
    <3>2. WorkerFine(worker[w], poh', Top') /\ worker[w].bn <= poh'
      BY <1>1, <1>3, <1>7, <2>2, CoverGrows DEF Numbers
    <3> QED BY <1>3, <1>7, <2>0, <3>1, <3>2, GoMoves
  <2> QED BY <2>1, <2>2
<1>9. WorkersInv'
  BY <1>1, <1>3, <1>5, <1>8, WorkersKept
<1>10. CASE UNCHANGED <<dpos, rec>>
  BY <1>1, <1>3, <1>5, <1>6, <1>8, <1>10, NoRecoveryStep
<1>11. CASE rec' = Disturb(w)
  <2>1. /\ Disturb(w) \in [Actors -> RecSet]
        /\ \A b \in Actors : RecFine(Disturb(w)[b], poh', Top')
        /\ \A b \in Actors : b # w => \A l, d : AtomFine(Disturb(w)[b], l, d)
        /\ \A b \in Actors : b = w => Disturb(w)[b] = rec[b]
        /\ \A b \in Actors : Disturb(w)[b].pc = rec[b].pc
    BY <1>3, DisturbKeeps
  <2>2. RecoveriesInv'
    BY <1>11, <2>1 DEF RecoveriesInv
  <2>3. AtomFine(rec[w], lach', dpos')
    BY <1>1 DEF AtomFine
  <2>4. AtomInv'
    BY <1>11, <2>1, <2>3 DEF AtomInv, Actors
  <2>5. RecoveringInv'
    BY <1>1, <1>8, <1>11, <2>1, RecoveringKept DEF Actors
  <2> QED BY <1>5, <1>6, <1>9, <2>2, <2>4, <2>5 DEF HybridInv
<1> QED BY <1>1, <1>10, <1>11 DEF ProcessEpoch

(* A block is applied: numbers up to the next one are covered.              *)
LEMMA ApplyStep ==
    ASSUME HybridInv, NEW w \in W, WorkerApply(w)
    PROVE  HybridInv'
<1> DEFINE n == worker[w].bn
<1>1. /\ Numbers /\ NoGap /\ CheckpointsInv /\ WorkersInv /\ rec[w].pc = "none"
      /\ worker[w].pc = "apply" /\ height' = n /\ applied' = applied \cup {n}
      /\ UNCHANGED <<poh, lach, dpos, version, checkpoints, rec>>
  BY DEF HybridInv, RecoveringInv, WorkerApply, AfterApply, stateVars, ckVars
<1>2. WorkerFine(worker[w], poh, Top) /\ n \in Nat /\ n >= 1 /\ n <= poh /\ n <= Top + 1
  BY <1>1 DEF WorkersInv, WorkerFine, WorkerSet
<1> HIDE DEF n
<1>3. applied = 1..Top /\ Top \in Nat /\ poh \in Nat
  BY <1>1 DEF NoGap, Numbers, Top
<1>4. PICK t \in Nat : t = (IF n = Top + 1 THEN Top + 1 ELSE Top) /\ applied' = 1..t
  <2>1. CASE n = Top + 1
    <3>1. applied' = 1..(Top + 1)
      BY <1>1, <1>2, <1>3, <2>1
    <3> QED BY <1>3, <2>1, <3>1
  <2>2. CASE n # Top + 1
    <3>1. n \in 1..Top
      BY <1>2, <1>3, <2>2
    <3> QED BY <1>1, <1>3, <2>2, <3>1
  <2> QED BY <2>1, <2>2
<1>5. Top' = t
  BY <1>4, FS_Interval DEF Top
<1>6. Top' \in Nat /\ Top <= Top' /\ n <= Top' /\ poh' = poh /\ poh <= poh'
  BY <1>1, <1>2, <1>3, <1>4, <1>5
<1>7. Numbers' /\ NoGap'
  <2>1. applied' = 1..Top'
    BY <1>4, <1>5
  <2>2. NoGap'
    BY <2>1 DEF NoGap, Top
  <2> QED BY <1>1, <1>2, <1>6, <2>2 DEF Numbers
<1>8. CheckpointsInv'
  BY <1>1, <1>6, <1>7, CheckpointsKept
<1>9. WorkerMoves(poh', Top')
  <2>1. WorkerFine(worker[w], poh', Top')
    BY <1>2, <1>3, <1>6, CoverGrows
  <2>2. CASE Return(w, TRUE)
    BY <1>1, <1>3, <1>6, <2>2, ReturnMoves
  <2>3. CASE Go(w, "getLachesis")
    <3>1. "getLachesis" \in WorkerPCs
      BY DEF WorkerPCs
    <3> QED BY <1>1, <1>2, <1>3, <1>6, <2>1, <2>3, <3>1, GoMoves DEF n
  <2> QED BY <2>2, <2>3 DEF WorkerApply, AfterApply
<1> QED BY <1>1, <1>6, <1>7, <1>8, <1>9, NoRecoveryStep

(* A checkpoint is stored.                                                  *)
LEMMA StoreStep ==
    ASSUME HybridInv, NEW w \in W, CheckpointStore(w)
    PROVE  HybridInv'
<1> DEFINE n == worker[w].bn
           c == [block |-> n, lach |-> worker[w].lach, dpos |-> dpos, poh |-> poh]
<1>1. /\ Numbers /\ NoGap /\ CheckpointsInv /\ WorkersInv /\ rec[w].pc = "none"
      /\ worker[w].pc = "store"
      /\ checkpoints' = [m \in DOMAIN checkpoints \cup {n} |-> IF m = n THEN c ELSE checkpoints[m]]
      /\ UNCHANGED <<height, applied, poh, lach, dpos, version, rec>>
  BY DEF HybridInv, RecoveringInv, CheckpointStore, stateVars, chainVars
<1>2. /\ WorkerFine(worker[w], poh, Top) /\ n \in Nat /\ n >= 1 /\ n <= poh /\ n <= Top
      /\ worker[w].lach \in Int
  BY <1>1 DEF WorkersInv, WorkerFine, WorkerSet
<1>3. CheckpointFine(c, Top) /\ c.block = n
  BY <1>1, <1>2 DEF CheckpointFine, CheckpointSet, Numbers
<1> HIDE DEF c, n
<1>4. Top' = Top /\ poh' = poh /\ poh <= poh' /\ Top <= Top' /\ poh \in Nat /\ Top \in Nat
  BY <1>1 DEF Top, Numbers
<1>5. Numbers' /\ NoGap'
  BY <1>1, <1>4 DEF Numbers, NoGap
<1>6. CheckpointsInv'
  <2> SUFFICES ASSUME NEW m \in DOMAIN checkpoints'
               PROVE  CheckpointFine(checkpoints'[m], Top) /\ checkpoints'[m].block = m
    BY <1>4 DEF CheckpointsInv
  <2> QED BY <1>1, <1>3 DEF CheckpointsInv
<1>7. WorkerMoves(poh', Top')
  <2>1. CASE Return(w, TRUE)
    BY <1>1, <1>4, <2>1, ReturnMoves
  <2>2. CASE Go(w, "stuck")
    <3>1. "stuck" \in WorkerPCs
      BY DEF WorkerPCs
    <3> QED BY <1>1, <1>2, <1>4, <2>2, <3>1, GoMoves DEF n
  <2> QED BY <2>1, <2>2 DEF CheckpointStore
<1> QED BY <1>1, <1>4, <1>5, <1>6, <1>7, NoRecoveryStep

(* One recovery changes, and possibly the states it restores, of which the   *)
(* others are told.                                                         *)
LEMMA OneRecovery ==
    ASSUME HybridInv, NEW a \in Actors, NEW x,
           Numbers', NoGap', CheckpointsInv', poh <= poh', Top <= Top', WorkerMoves(poh', Top'),
           RecFine(x, poh', Top'), AtomFine(x, lach', dpos'),
           \/ rec' = [rec EXCEPT ![a] = x] /\ UNCHANGED <<lach, dpos>>
           \/ rec' = [Disturb(a) EXCEPT ![a] = x],
           a \in W /\ x.pc # "none" => rec[a].pc # "none" \/ worker[a].pc = "recover"
    PROVE  HybridInv'
<1>1. Numbers /\ WorkersInv /\ RecoveriesInv /\ AtomInv /\ RecoveringInv
  BY DEF HybridInv
<1>2. WorkersInv'
  BY <1>1, WorkersKept
<1>3. x \in RecSet
  BY DEF RecFine
<1>4. /\ rec \in [Actors -> RecSet] /\ \A b \in Actors : RecFine(rec[b], poh', Top')
  BY <1>1, RecoveriesKept DEF RecoveriesInv
<1>5. /\ Disturb(a) \in [Actors -> RecSet]
      /\ \A b \in Actors : RecFine(Disturb(a)[b], poh', Top')
      /\ \A b \in Actors : b # a => \A l, d : AtomFine(Disturb(a)[b], l, d)
      /\ \A b \in Actors : Disturb(a)[b].pc = rec[b].pc
  BY DisturbKeeps DEF Numbers
<1>6. /\ rec' \in [Actors -> RecSet] /\ rec'[a] = x
      /\ \A b \in Actors : b # a => RecFine(rec'[b], poh', Top') /\ rec'[b].pc = rec[b].pc
  BY <1>3, <1>4, <1>5
<1>7. \A b \in Actors : b # a => AtomFine(rec'[b], lach', dpos')
  BY <1>1, <1>4, <1>5 DEF AtomInv
<1>8. RecoveriesInv' /\ AtomInv'
  BY <1>6, <1>7 DEF RecoveriesInv, AtomInv
<1>9. RecoveringInv'
  <2>1. \A w \in W : rec'[w].pc # "none" => rec[w].pc # "none" \/ worker[w].pc = "recover"
    BY <1>6 DEF Actors
  <2> QED BY <1>1, <2>1, RecoveringKept
<1> QED BY <1>2, <1>8, <1>9 DEF HybridInv

(* A recovery ends, in a goroutine or in the loop.                          *)
LEMMA RecoveredSteps ==
    ASSUME HybridInv, LoopRecovered \/ \E w \in W : WorkerRecovered(w)
    PROVE  HybridInv'
<1>1. /\ Numbers /\ NoGap /\ CheckpointsInv /\ WorkersInv /\ RecoveriesInv
      /\ UNCHANGED <<height, applied, poh, lach, dpos, version, checkpoints>>
  BY DEF HybridInv, LoopRecovered, WorkerRecovered, chainVars, stateVars, ckVars
<1>2. Top' = Top /\ poh' = poh /\ poh <= poh' /\ Top <= Top' /\ poh \in Nat /\ Top \in Nat
  BY <1>1 DEF Top, Numbers
<1>3. Numbers' /\ NoGap' /\ CheckpointsInv'
  BY <1>1, <1>2 DEF Numbers, NoGap, CheckpointsInv
<1>4. /\ RecFine(NoRecovery, poh', Top') /\ AtomFine(NoRecovery, lach', dpos')
      /\ NoRecovery.pc = "none"
  <2>1. /\ NoRecovery.pc = "none" /\ NoRecovery.ck = NoCheckpoint
    BY DEF NoRecovery
  <2>2. NoCheckpoint \in CheckpointSet /\ NoCheckpoint.block = 0 /\ NoCheckpoint.poh = 0
    BY DEF NoCheckpoint, CheckpointSet
  <2>3. NoRecovery \in RecSet
    BY <2>2 DEF NoRecovery, RecSet, RecPCs, NoBackup
  <2>4. CheckpointFine(NoCheckpoint, Top)
    BY <1>2, <2>2 DEF CheckpointFine
  <2> QED BY <1>2, <2>1, <2>3, <2>4 DEF RecFine, AtomFine
<1>5. CASE LoopRecovered
  <2>1. rec' = [rec EXCEPT !["loop"] = NoRecovery] /\ worker' = worker
    BY <1>5 DEF LoopRecovered
  <2>2. "loop" \in Actors /\ WorkerMoves(poh', Top')
    BY <2>1 DEF Actors, WorkerMoves
  <2> QED BY <1>1, <1>2, <1>3, <1>4, <2>1, <2>2, OneRecovery
<1>6. ASSUME NEW w \in W, WorkerRecovered(w) PROVE HybridInv'
  <2>1. rec' = [rec EXCEPT ![w] = NoRecovery] /\ worker[w].pc = "recover" /\ w \in Actors
    BY <1>6 DEF WorkerRecovered, Actors
  <2>2. rec'[w].pc = "none"
    BY <1>1, <1>4, <2>1 DEF RecoveriesInv
  <2>3. WorkerFine(worker[w], poh', Top') /\ worker[w].bn >= 1
    BY <1>1, <1>2, <2>1 DEF WorkersInv, WorkerFine
  <2>4. CASE Return(w, FALSE)
    <3>1. WorkerMoves(poh', Top')
      BY <1>2, <2>2, <2>4, ReturnMoves
    <3> QED BY <1>1, <1>2, <1>3, <1>4, <2>1, <3>1, OneRecovery
  <2>5. CASE Go(w, "produce")
    <3>1. "produce" \in WorkerPCs
      BY DEF WorkerPCs
    <3>2. WorkerMoves(poh', Top')
      BY <1>2, <2>2, <2>3, <2>5, <3>1, GoMoves
    <3> QED BY <1>1, <1>2, <1>3, <1>4, <2>1, <3>2, OneRecovery
  <2> QED BY <1>6, <2>4, <2>5 DEF WorkerRecovered
<1> QED BY <1>5, <1>6

(* The steps of recoverFromError.                                           *)
LEMMA RecoverSteps ==
    ASSUME HybridInv, NEW a \in Actors, RecoverStep(a)
    PROVE  HybridInv'
<1>1. /\ Numbers /\ NoGap /\ CheckpointsInv /\ WorkersInv /\ RecoveriesInv /\ AtomInv /\ RecoveringInv
      /\ UNCHANGED <<applied, version, checkpoints, worker>>
  BY DEF HybridInv, RecoverStep, RecoverBegin, RecoverLachesis, RecoverDPoS, RecoverPoH, UndoLachesis,
         UndoDPoS, RecoverHeight, chainVars, stateVars, ckVars
<1>2. /\ Top' = Top /\ Top <= Top' /\ poh \in Nat /\ Top \in Nat /\ lach \in Int /\ dpos \in Int
      /\ WorkerMoves(poh', Top') /\ NoGap'
  BY <1>1 DEF Top, Numbers, WorkerMoves, NoGap
<1>3. CheckpointsInv'
  BY <1>1, <1>2 DEF CheckpointsInv
<1>4. /\ rec[a] \in RecSet /\ RecFine(rec[a], poh, Top) /\ AtomFine(rec[a], lach, dpos)
      /\ rec[a].ck \in CheckpointSet /\ CheckpointFine(rec[a].ck, Top)
  BY <1>1 DEF RecoveriesInv, AtomInv, RecFine, CheckpointFine
<1>5. /\ rec[a].ck.block \in Nat /\ rec[a].ck.lach \in Int /\ rec[a].ck.dpos \in Int
      /\ rec[a].ck.poh \in Nat /\ rec[a].lach \in Int /\ rec[a].dpos \in Int
      /\ rec[a].ck.block <= Top /\ rec[a].ck.block <= rec[a].ck.poh
  BY <1>4 DEF RecSet, CheckpointSet, CheckpointFine
<1>6. ASSUME NEW pc \in RecPCs, pc # "height"
      PROVE  /\ RecFine([rec[a] EXCEPT !.pc = pc], poh, Top)
             /\ [rec[a] EXCEPT !.pc = pc].pc = pc
             /\ [rec[a] EXCEPT !.pc = pc].ck = rec[a].ck
             /\ [rec[a] EXCEPT !.pc = pc].lach = rec[a].lach
             /\ [rec[a] EXCEPT !.pc = pc].dpos = rec[a].dpos
             /\ [rec[a] EXCEPT !.pc = pc].lost = rec[a].lost
             /\ [rec[a] EXCEPT !.pc = pc].quiet = rec[a].quiet
  <2> DEFINE x == [rec[a] EXCEPT !.pc = pc]
  <2>1. /\ x \in RecSet /\ x.pc = pc /\ x.ck = rec[a].ck
        /\ x.lach = rec[a].lach /\ x.dpos = rec[a].dpos /\ x.lost = rec[a].lost /\ x.quiet = rec[a].quiet
    BY <1>4 DEF RecSet
  <2> HIDE DEF x
  <2>2. RecFine(x, poh, Top)
    BY <1>4, <1>6, <2>1 DEF RecFine
  <2> QED BY <2>1, <2>2 DEF x
<1>7. Disturb(a)[a] = rec[a]
  BY <1>2, DisturbKeeps
<1>8. ASSUME NEW pc \in RecPCs, pc # "height", rec[a].pc # "none", poh' = poh, height' = height,
             lach' \in Int, dpos' \in Int,
             \/ rec' = Rec(a, pc) /\ UNCHANGED <<lach, dpos>>
             \/ rec' = [Disturb(a) EXCEPT ![a].pc = pc],
             AtomFine([rec[a] EXCEPT !.pc = pc], lach', dpos')
      PROVE  HybridInv'
  <2> DEFINE x == [rec[a] EXCEPT !.pc = pc]
  <2>1. Numbers'
    BY <1>1, <1>2, <1>8 DEF Numbers
  <2>2. RecFine(x, poh', Top') /\ poh <= poh'
    BY <1>2, <1>6, <1>8
  <2>3. \/ rec' = [rec EXCEPT ![a] = x] /\ UNCHANGED <<lach, dpos>>
        \/ rec' = [Disturb(a) EXCEPT ![a] = x]
    BY <1>7, <1>8 DEF Rec
  <2>4. AtomFine(x, lach', dpos')
    BY <1>8
  <2> HIDE DEF x
  <2> QED BY <1>2, <1>3, <1>8, <2>1, <2>2, <2>3, <2>4, OneRecovery
<1>9. CASE RecoverBegin(a)
  <2>1. /\ Recovering(a) /\ rec[a].pc = "none" /\ UNCHANGED <<height, poh, lach, dpos>>
    BY <1>9 DEF RecoverBegin, chainVars, stateVars
  <2>2. Numbers' /\ poh' = poh /\ poh <= poh'
    BY <1>1, <1>2, <2>1 DEF Numbers
  <2>3. ASSUME NEW x, RecFine(x, poh', Top'), AtomFine(x, lach', dpos'), rec' = [rec EXCEPT ![a] = x]
        PROVE  HybridInv'
    <3>1. a \in W => worker[a].pc = "recover"
      BY <2>1, LoopAssumption DEF Recovering
    <3> QED BY <1>2, <1>3, <2>1, <2>2, <2>3, <3>1, OneRecovery
  <2>4. CASE lastCheckpoint \in DOMAIN checkpoints
    <3> DEFINE c == checkpoints[lastCheckpoint]
               y(l, d) == [pc |-> "lachesis", ck |-> c, lach |-> l, dpos |-> d, lost |-> {}, quiet |-> TRUE]
    <3>0. PICK l \in {lach, NoBackup}, d \in {dpos, NoBackup} : rec' = [rec EXCEPT ![a] = y(l, d)]
      BY <1>9, <2>4 DEF RecoverBegin
    <3> DEFINE x == y(l, d)
    <3>1. rec' = [rec EXCEPT ![a] = x] /\ l \in Int /\ d \in Int
      BY <1>2, <3>0 DEF NoBackup
    <3>2. c \in CheckpointSet /\ CheckpointFine(c, Top')
      BY <1>1, <1>2, <2>4 DEF CheckpointsInv, CheckpointFine
    <3> HIDE DEF c
    <3>3. x \in RecSet /\ x.pc = "lachesis" /\ x.ck = c
      BY <3>1, <3>2 DEF RecSet, RecPCs
    <3> HIDE DEF x
    <3>4. RecFine(x, poh', Top') /\ AtomFine(x, lach', dpos')
      BY <3>2, <3>3 DEF RecFine, AtomFine
    <3> QED BY <2>3, <3>1, <3>4
  <2>5. CASE lastCheckpoint \notin DOMAIN checkpoints
    <3> DEFINE x == [NoRecovery EXCEPT !.pc = "failed"]
    <3>1. rec' = [rec EXCEPT ![a] = x]
      BY <1>9, <2>5 DEF RecoverBegin
    <3>2. NoCheckpoint \in CheckpointSet /\ NoCheckpoint.block = 0 /\ NoCheckpoint.poh = 0
      BY DEF NoCheckpoint, CheckpointSet
    <3>3. NoRecovery \in RecSet /\ NoRecovery.ck = NoCheckpoint
      BY <3>2 DEF NoRecovery, RecSet, RecPCs, NoBackup
    <3>4. x \in RecSet /\ x.pc = "failed" /\ x.ck = NoCheckpoint
      BY <3>3 DEF RecSet, RecPCs
    <3> HIDE DEF x
    <3>5. CheckpointFine(NoCheckpoint, Top')
      BY <1>2, <3>2 DEF CheckpointFine
    <3>6. RecFine(x, poh', Top') /\ AtomFine(x, lach', dpos')
      BY <3>4, <3>5 DEF RecFine, AtomFine
    <3> QED BY <2>3, <3>1, <3>6
  <2> QED BY <2>4, <2>5
<1>10. CASE RecoverLachesis(a)
  <2>1. rec[a].pc = "lachesis" /\ UNCHANGED <<height, poh, dpos>>
    BY <1>10 DEF RecoverLachesis, chainVars
  <2>2. {"dpos", "undoLachesis"} \subseteq RecPCs
    BY DEF RecPCs
  <2>3. CASE lach' = rec[a].ck.lach /\ rec' = [Disturb(a) EXCEPT ![a].pc = "dpos"]
    <3>1. AtomFine([rec[a] EXCEPT !.pc = "dpos"], lach', dpos')
      BY <1>6, <2>1, <2>2, <2>3 DEF AtomFine
    <3> QED BY <1>2, <1>5, <1>8, <2>1, <2>2, <2>3, <3>1
  <2>4. CASE lach' = Torn /\ rec' = [Disturb(a) EXCEPT ![a].pc = "undoLachesis"]
    <3>1. AtomFine([rec[a] EXCEPT !.pc = "undoLachesis"], lach', dpos')
      BY <1>6, <2>2 DEF AtomFine
    <3>2. lach' \in Int
      BY <2>4 DEF Torn
    <3> QED BY <1>2, <1>8, <2>1, <2>2, <2>4, <3>1, <3>2
  <2> QED BY <1>10, <2>3, <2>4 DEF RecoverLachesis
<1>11. CASE RecoverDPoS(a)
  <2>1. rec[a].pc = "dpos" /\ UNCHANGED <<height, poh, lach>>
    BY <1>11 DEF RecoverDPoS, chainVars
  <2>2. {"poh", "undoLachesis"} \subseteq RecPCs
    BY DEF RecPCs
  <2>3. CASE dpos' = rec[a].ck.dpos /\ rec' = [Disturb(a) EXCEPT ![a].pc = "poh"]
    <3>1. rec[a].quiet => lach = rec[a].ck.lach
      BY <1>4, <2>1 DEF AtomFine
    <3>2. AtomFine([rec[a] EXCEPT !.pc = "poh"], lach', dpos')
      BY <1>6, <2>1, <2>2, <2>3, <3>1 DEF AtomFine
    <3> QED BY <1>2, <1>5, <1>8, <2>1, <2>2, <2>3, <3>2
  <2>4. CASE dpos' = Torn /\ rec' = [Disturb(a) EXCEPT ![a].pc = "undoLachesis"]
    <3>1. AtomFine([rec[a] EXCEPT !.pc = "undoLachesis"], lach', dpos')
      BY <1>6, <2>2 DEF AtomFine
    <3>2. dpos' \in Int
      BY <2>4 DEF Torn
    <3> QED BY <1>2, <1>8, <2>1, <2>2, <2>4, <3>1, <3>2
  <2> QED BY <1>11, <2>3, <2>4 DEF RecoverDPoS
<1>12. CASE RecoverPoH(a)
  <2>1. rec[a].pc = "poh" /\ UNCHANGED <<height, lach, dpos>>
    BY <1>12 DEF RecoverPoH, chainVars, stateVars
  <2>2. CASE rec' = Rec(a, "undoLachesis") /\ UNCHANGED poh
    <3>1. "undoLachesis" \in RecPCs
      BY DEF RecPCs
    <3>2. AtomFine([rec[a] EXCEPT !.pc = "undoLachesis"], lach', dpos')
      BY <1>6, <3>1 DEF AtomFine
    <3> QED BY <1>2, <1>8, <2>1, <2>2, <3>1, <3>2
  <2>3. CASE rec[a].ck.poh >= poh /\ poh' = rec[a].ck.poh /\ rec' = Rec(a, "height")
    <3> DEFINE x == [rec[a] EXCEPT !.pc = "height"]
    <3>1. /\ x \in RecSet /\ x.pc = "height" /\ x.ck = rec[a].ck /\ x.quiet = rec[a].quiet
          /\ rec' = [rec EXCEPT ![a] = x]
      BY <1>4, <2>3 DEF RecSet, RecPCs, Rec
    <3> HIDE DEF x
    <3>2. poh' \in Nat /\ poh <= poh' /\ Numbers'
      BY <1>1, <1>2, <1>5, <2>1, <2>3 DEF Numbers
    <3>3. RecFine(x, poh', Top')
      BY <1>2, <1>4, <1>5, <2>3, <3>1 DEF RecFine
    <3>4. AtomFine(x, lach', dpos')
      BY <1>4, <2>1, <3>1 DEF AtomFine
    <3> QED BY <1>2, <1>3, <2>1, <3>1, <3>2, <3>3, <3>4, OneRecovery
  <2> QED BY <1>12, <2>2, <2>3 DEF RecoverPoH
<1>13. ASSUME NEW pc \in RecPCs, NEW lost \in SUBSET {"lachesis", "dpos"}, rec[a].pc # "none", pc # "height",
              UNCHANGED <<height, poh>>, lach' \in Int, dpos' \in Int, rec' = Undone(a, pc, lost),
              \A x : /\ x.pc = pc /\ x.lost = rec[a].lost \cup lost /\ x.ck = rec[a].ck
                     /\ x.lach = rec[a].lach /\ x.dpos = rec[a].dpos /\ x.quiet = rec[a].quiet
                     => AtomFine(x, lach', dpos')
       PROVE  HybridInv'
  <2> DEFINE x == [rec[a] EXCEPT !.pc = pc, !.lost = @ \cup lost]
  <2>1. rec' = [Disturb(a) EXCEPT ![a] = x]
    BY <1>7, <1>13 DEF Undone
  <2>2. /\ x \in RecSet /\ x.pc = pc /\ x.lost = rec[a].lost \cup lost /\ x.ck = rec[a].ck
        /\ x.lach = rec[a].lach /\ x.dpos = rec[a].dpos /\ x.quiet = rec[a].quiet
    BY <1>4, <1>13 DEF RecSet
  <2> HIDE DEF x
  <2>3. AtomFine(x, lach', dpos')
    BY <1>13, <2>2
  <2>4. RecFine(x, poh, Top)
    BY <1>4, <1>13, <2>2 DEF RecFine
  <2>5. Numbers' /\ poh <= poh' /\ RecFine(x, poh', Top')
    BY <1>1, <1>2, <1>13, <2>4 DEF Numbers
  <2> QED BY <1>2, <1>3, <1>13, <2>1, <2>3, <2>5, OneRecovery
<1>14. CASE UndoLachesis(a)
  <2>1. rec[a].pc = "undoLachesis" /\ UNCHANGED <<height, poh, dpos>>
    BY <1>14 DEF UndoLachesis, chainVars
  <2>2. "undoDPoS" \in RecPCs /\ {} \in SUBSET {"lachesis", "dpos"} /\ {"lachesis"} \in SUBSET {"lachesis", "dpos"}
    BY DEF RecPCs
  <2>3. CASE lach' = rec[a].lach /\ rec' = Undone(a, "undoDPoS", {})
    <3>1. \A x : x.pc = "undoDPoS" /\ x.lach = rec[a].lach => AtomFine(x, lach', dpos')
      BY <2>3 DEF AtomFine
    <3> QED BY <1>2, <1>5, <1>13, <2>1, <2>2, <2>3, <3>1
  <2>4. CASE lach' = NotUndone(rec[a].lach, lach) /\ rec' = Undone(a, "undoDPoS", {"lachesis"})
    <3>1. \A x : x.pc = "undoDPoS" /\ x.lost = rec[a].lost \cup {"lachesis"} => AtomFine(x, lach', dpos')
      BY DEF AtomFine
    <3>2. lach' \in Int
      BY <1>2, <2>4 DEF NotUndone, Torn
    <3> QED BY <1>2, <1>13, <2>1, <2>2, <2>4, <3>1, <3>2
  <2> QED BY <1>14, <2>3, <2>4 DEF UndoLachesis
<1>15. CASE UndoDPoS(a)
  <2>1. rec[a].pc = "undoDPoS" /\ UNCHANGED <<height, poh, lach>>
    BY <1>15 DEF UndoDPoS, chainVars
  <2>2. "failed" \in RecPCs /\ {} \in SUBSET {"lachesis", "dpos"} /\ {"dpos"} \in SUBSET {"lachesis", "dpos"}
    BY DEF RecPCs
  <2>3. rec[a].quiet => lach' = rec[a].lach \/ "lachesis" \in rec[a].lost
    BY <1>4, <2>1 DEF AtomFine
  <2>4. ASSUME NEW x, NEW lost, x.pc = "failed", x.lost = rec[a].lost \cup lost, x.lach = rec[a].lach,
               x.dpos = rec[a].dpos, x.quiet = rec[a].quiet, dpos' = rec[a].dpos \/ "dpos" \in lost
        PROVE  AtomFine(x, lach', dpos')
    <3>1. x.quiet => lach' = x.lach \/ "lachesis" \in x.lost
      BY <2>3, <2>4
    <3>2. dpos' = x.dpos \/ "dpos" \in x.lost
      BY <2>4
    <3> QED BY <2>4, <3>1, <3>2, Zenon DEF AtomFine
  <2>5. CASE dpos' = rec[a].dpos /\ rec' = Undone(a, "failed", {})
    <3>1. \A x : /\ x.pc = "failed" /\ x.lost = rec[a].lost \cup {} /\ x.lach = rec[a].lach
                 /\ x.dpos = rec[a].dpos /\ x.quiet = rec[a].quiet
                 => AtomFine(x, lach', dpos')
      BY <2>5, <2>4, Zenon
    <3> QED BY <1>2, <1>5, <1>13, <2>1, <2>2, <2>5, <3>1
  <2>6. CASE dpos' = NotUndone(rec[a].dpos, dpos) /\ rec' = Undone(a, "failed", {"dpos"})
    <3>1. \A x : /\ x.pc = "failed" /\ x.lost = rec[a].lost \cup {"dpos"} /\ x.lach = rec[a].lach
                 /\ x.dpos = rec[a].dpos /\ x.quiet = rec[a].quiet
                 => AtomFine(x, lach', dpos')
      <4>1. "dpos" \in {"dpos"}
        OBVIOUS
      <4> QED BY <2>4, <4>1, Zenon
    <3>2. dpos' \in Int
      BY <1>2, <2>6 DEF NotUndone, Torn
    <3> QED BY <1>2, <1>13, <2>1, <2>2, <2>6, <3>1, <3>2
  <2> QED BY <1>15, <2>5, <2>6 DEF UndoDPoS
<1>16. CASE RecoverHeight(a)
  <2> DEFINE x == [rec[a] EXCEPT !.pc = "ok"]
  <2>1. /\ rec[a].pc = "height" /\ height' = rec[a].ck.block /\ UNCHANGED <<poh, lach, dpos>>
        /\ rec' = [rec EXCEPT ![a] = x]
    BY <1>16 DEF RecoverHeight, stateVars, Rec
  <2>2. rec[a].ck.poh <= poh
    BY <1>4, <2>1 DEF RecFine
  <2>3. Numbers' /\ poh <= poh'
    BY <1>1, <1>2, <1>5, <2>1, <2>2 DEF Numbers
  <2>4. "ok" \in RecPCs
    BY DEF RecPCs
  <2>5. RecFine(x, poh', Top') /\ AtomFine(x, lach', dpos')
    BY <1>2, <1>4, <1>6, <2>1, <2>4 DEF AtomFine
  <2> HIDE DEF x
  <2> QED BY <1>2, <1>3, <2>1, <2>3, <2>5, OneRecovery
<1> QED BY <1>9, <1>10, <1>11, <1>12, <1>14, <1>16, <1>15 DEF RecoverStep

(* The locks of DPoS.                                                       *)
LEMMA JamStep ==
    ASSUME HybridInv, NEW a \in Actors, DPoSJams(a)
    PROVE  HybridInv'
BY WorkerOnlyStep DEF DPoSJams, WorkerMoves

(* The invariant of block production and recovery.                          *)
THEOREM HybridInvariant == Spec => []HybridInv
<1>1. Init => HybridInv
  <2> SUFFICES ASSUME Init PROVE HybridInv
    OBVIOUS
  <2>1. /\ height = 0 /\ applied = {} /\ poh = 0 /\ lach = 0 /\ dpos = 0 /\ version = 0
        /\ DOMAIN checkpoints = {} /\ worker = [w \in W |-> Idle] /\ rec = [a \in Actors |-> NoRecovery]
    BY DEF Init
  <2>2. Top = 0 /\ NoGap
    BY <2>1, FS_EmptySet DEF Top, NoGap
  <2>3. Numbers /\ CheckpointsInv
    BY <2>1, <2>2 DEF Numbers, CheckpointsInv
  <2>4. WorkerFine(Idle, 0, 0) /\ Idle \in WorkerSet
    BY DEF WorkerFine, Idle, WorkerSet, WorkerPCs
  <2>5. WorkersInv
    BY <2>1, <2>2, <2>4 DEF WorkersInv
  <2>6. NoCheckpoint \in CheckpointSet /\ NoCheckpoint.block = 0 /\ NoCheckpoint.poh = 0
    BY DEF NoCheckpoint, CheckpointSet
  <2>7. NoRecovery \in RecSet /\ NoRecovery.ck = NoCheckpoint /\ NoRecovery.pc = "none"
    BY <2>6 DEF NoRecovery, RecSet, RecPCs, NoBackup
  <2>8. RecFine(NoRecovery, 0, 0) /\ AtomFine(NoRecovery, 0, 0)
    BY <2>6, <2>7 DEF RecFine, AtomFine, CheckpointFine
  <2>9. RecoveriesInv /\ AtomInv /\ RecoveringInv
    BY <2>1, <2>2, <2>7, <2>8 DEF RecoveriesInv, AtomInv, RecoveringInv, Actors
  <2> QED BY <2>2, <2>3, <2>5, <2>9 DEF HybridInv
<1>2. HybridInv /\ [Next]_vars => HybridInv'
  <2> SUFFICES ASSUME HybridInv, [Next]_vars PROVE HybridInv'
    OBVIOUS
  <2>1. CASE UNCHANGED vars
    BY <2>1, WorkerOnlyStep DEF vars, ckVars, WorkerMoves
  <2>2. ASSUME NEW w \in W, WorkerStep(w) PROVE HybridInv'
    BY <2>2, LookingSteps, RecoveredSteps, ProduceSteps, ApplyStep, StoreStep DEF WorkerStep
  <2>3. CASE LoopStep
    BY <2>3, LoopSteps, RecoveredSteps DEF LoopStep
  <2> QED BY <2>1, <2>2, <2>3, LoopSteps, TickStep, OutsideStep, RecoverSteps, JamStep DEF Next
<1> QED BY <1>1, <1>2, PTL DEF Spec

(* Blocks are applied without a gap and the count of PoH covers the height   *)
(* and every checkpoint, although goroutines that were given up and          *)
(* recoveries set the height back.                                          *)
THEOREM ChainHasNoGap == Spec => []ChainConsistent
<1>1. HybridInv => ChainConsistent
  BY DEF HybridInv, ChainConsistent, PoHCoversHeight, Numbers, CheckpointsInv, CheckpointFine
<1> QED BY <1>1, HybridInvariant, PTL

(* A recovery that nobody disturbs leaves Lachesis and DPoS both restored or *)
(* both as they were, wherever it fails, but for an engine whose rollback    *)
(* failed or had no backup.                                                 *)
THEOREM RecoveryAllOrNothing == Spec => []RecoveryAtomic
<1>1. HybridInv => RecoveryAtomic
  BY DEF HybridInv, RecoveryAtomic, AtomInv, AtomFine
<1> QED BY <1>1, HybridInvariant, PTL
=============================================================================
