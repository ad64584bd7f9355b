----------------------------- MODULE FlowProofs -----------------------------
(***************************************************************************)
(* Machine-checked properties of the event flow manager and the batch       *)
(* processor, for every set of events, workers, callers and batches and     *)
(* every batch size.                                                        *)
(***************************************************************************)
EXTENDS EventFlow, BatchProcessor, TLAPS

----------------------------------------------------------------------------
(* The event flow manager                                                   *)

(* A FinalizeEvent that said yes, or is about to, says it of an event that  *)
(* is final, and events stay final.                                         *)
AnswersTrue == \A a \in Actors : call[a] \in {"reward", "yes"} => EventOf(a) \subseteq finalizedFlag

(* NoEventDropped alone is not inductive: the event taken out of the        *)
(* pending map is the one a call answered yes for, some steps earlier.      *)
FlowInv == TypeOK /\ AnswersTrue /\ NoEventDropped /\ InBothIsTried

WorkerRun == [pc : {"idle", "scan", "wait", "reward"}, todo : SUBSET Events, ev : SUBSET Events]
PartitionRun == [pc : {"idle", "next", "validate", "track"}, todo : SUBSET Events, ev : SUBSET Events]
CallState == {"none", "start", "vote", "reward", "yes", "no"}
AttemptState == {"none", "select", "reward", "done"}
CreateState == {"new", "checked", "made", "valid", "tracked", "refused", "elsewhere"}
RetryCount == Nat \cup {NoEntry}

(* The types by name.                                                       *)
LEMMA FlowShape ==
    TypeOK <=>
      /\ create \in [Events -> CreateState]
      /\ pendingEvents \subseteq Events /\ finalizedEvents \subseteq Events
      /\ eventCreationTime \subseteq Events /\ eventsByHeight \subseteq Events
      /\ inDAG \subseteq Events /\ finalizedFlag \subseteq Events
      /\ eventRetryCount \in [Events -> RetryCount]
      /\ attempt \in [Attempts -> AttemptState] /\ call \in [Actors -> CallState]
      /\ worker \in [Workers -> WorkerRun] /\ partition \in [Partitions -> PartitionRun]
      /\ stopped \in BOOLEAN
BY DEF TypeOK, WorkerRun, PartitionRun, CallState, AttemptState, CreateState, RetryCount

(* What a FinalizeEvent call is about.                                      *)
LEMMA EventOfType ==
    ASSUME TypeOK, NEW a \in Actors
    PROVE  EventOf(a) \subseteq Events
BY DEF TypeOK, EventOf, Actors, Attempts

(* The goroutines finalizeEvent of an event.                                *)
LEMMA AttemptOf ==
    ASSUME NEW t \in Trackers, NEW e \in Events
    PROVE  /\ <<t, e>> \in Attempts /\ <<t, e>> \in Actors /\ <<t, e>> \notin Workers
           /\ EventOf(<<t, e>>) = {e}
<1>1. <<t, e>> \in Attempts /\ <<t, e>> \in Actors
  BY DEF Attempts, Actors
<1>2. <<t, e>> \notin Workers
  BY <1>1, SetsAssumption DEF Attempts, Trackers
<1> QED BY <1>1, <1>2 DEF EventOf

(* An event enters the maps, wherever it is already.                        *)
LEMMA TrackKeeps ==
    ASSUME FlowInv, NEW t \in Trackers, NEW e \in Events, Track(t, e),
           create' \in [Events -> CreateState], partition' \in [Partitions -> PartitionRun],
           UNCHANGED <<inDAG, finalizedFlag, worker, stopped>>
    PROVE  FlowInv'
<1> USE DEF Track
<1>0. <<t, e>> \in Attempts /\ <<t, e>> \in Actors
  BY AttemptOf
<1>1. /\ attempt'[<<t, e>>] = "select" /\ call'[<<t, e>>] = "start"
      /\ \A g \in Attempts \ {<<t, e>>} : attempt'[g] = attempt[g]
      /\ \A f \in Events \ {e} : eventRetryCount'[f] = eventRetryCount[f]
      /\ \A a \in Actors \ {<<t, e>>} : call'[a] = call[a]
  BY <1>0, FlowShape DEF FlowInv
<1>2. TypeOK'
  <2>1. /\ attempt' \in [Attempts -> AttemptState] /\ call' \in [Actors -> CallState]
        /\ eventRetryCount' \in [Events -> RetryCount]
    BY FlowShape DEF FlowInv, AttemptState, CallState, RetryCount
  <2> QED BY <2>1 DEF FlowInv, TypeOK, WorkerRun, PartitionRun, CallState, AttemptState, CreateState, RetryCount
<1>3. ASSUME NEW u \in Trackers, NEW f \in Events, <<u, f>> # <<t, e>>
      PROVE  attempt'[<<u, f>>] = attempt[<<u, f>>]
  BY <1>1, <1>3, AttemptOf
<1>4. NoEventDropped'
  <2> SUFFICES ASSUME NEW u \in Trackers, NEW f \in Events, attempt'[<<u, f>>] # "none", f \notin finalizedFlag'
               PROVE  f \in pendingEvents'
    BY DEF NoEventDropped
  <2>1. CASE <<u, f>> = <<t, e>>
    BY <2>1
  <2>2. CASE <<u, f>> # <<t, e>>
    BY <1>3, <2>2 DEF FlowInv, NoEventDropped
  <2> QED BY <2>1, <2>2
<1>5. InBothIsTried'
  <2> SUFFICES ASSUME NEW f \in pendingEvents' \cap finalizedEvents'
               PROVE  (\E u \in Trackers : attempt'[<<u, f>>] = "select") \/ eventRetryCount'[f] > 0
    BY DEF InBothIsTried
  <2>1. CASE f = e
    BY <1>1, <2>1
  <2>2. CASE f # e
    <3>1. f \in pendingEvents \cap finalizedEvents /\ f \in Events
      BY <2>2, FlowShape DEF FlowInv
    <3>2. \A u \in Trackers : attempt'[<<u, f>>] = attempt[<<u, f>>]
      BY <1>3, <2>2, <3>1
    <3> QED BY <1>1, <2>2, <3>1, <3>2 DEF FlowInv, InBothIsTried
  <2> QED BY <2>1, <2>2
<1>6. AnswersTrue'
  BY <1>1 DEF FlowInv, AnswersTrue, EventOf
<1> QED BY <1>2, <1>4, <1>5, <1>6 DEF FlowInv

(* Steps that leave the maps and the goroutines alone.                      *)
LEMMA FlowUnmoved ==
    ASSUME FlowInv, create' \in [Events -> CreateState], partition' \in [Partitions -> PartitionRun],
           inDAG' \subseteq Events, stopped' \in BOOLEAN,
           UNCHANGED <<finalizedFlag, maps, attempt, call, worker>>
    PROVE  FlowInv'
BY DEF maps, FlowInv, TypeOK, CreateState, PartitionRun, AnswersTrue, EventOf, NoEventDropped, InBothIsTried

(* Creation.                                                                *)
LEMMA CreationKeeps ==
    ASSUME FlowInv, NEW e \in Events, Create(e)
    PROVE  FlowInv'
<1>0. TypeOK /\ create \in [Events -> CreateState] /\ partition \in [Partitions -> PartitionRun]
      /\ inDAG \subseteq Events /\ stopped \in BOOLEAN
  BY FlowShape DEF FlowInv
<1>1. ASSUME NEW c \in CreateState, create' = [create EXCEPT ![e] = c] PROVE create' \in [Events -> CreateState]
  BY <1>0, <1>1
<1>2. {"checked", "made", "valid", "tracked", "refused"} \subseteq CreateState
  BY DEF CreateState
<1>3. CASE CreateCheck(e)
  <2>1. create' \in [Events -> CreateState]
    BY <1>1, <1>2, <1>3 DEF CreateCheck
  <2> QED BY <1>0, <1>3, <2>1, FlowUnmoved DEF CreateCheck
<1>4. CASE CreateInLachesis(e)
  <2>1. create' \in [Events -> CreateState] /\ inDAG' \subseteq Events
    BY <1>0, <1>1, <1>2, <1>4 DEF CreateInLachesis
  <2> QED BY <1>0, <1>4, <2>1, FlowUnmoved DEF CreateInLachesis
<1>5. CASE CreateValidate(e)
  <2>1. create' \in [Events -> CreateState]
    BY <1>1, <1>2, <1>5 DEF CreateValidate
  <2> QED BY <1>0, <1>5, <2>1, FlowUnmoved DEF CreateValidate
<1>6. CASE CreateTrack(e)
  <2>1. create' \in [Events -> CreateState]
    BY <1>1, <1>2, <1>6 DEF CreateTrack
  <2> QED BY <1>0, <1>6, <2>1, TrackKeeps DEF CreateTrack, Trackers
<1> QED BY <1>3, <1>4, <1>5, <1>6 DEF Create

(* A call of HandleNetworkPartition.                                        *)
LEMMA PartitionKeeps ==
    ASSUME FlowInv, NEW p \in Partitions, Partition(p)
    PROVE  FlowInv'
<1>0. TypeOK /\ create \in [Events -> CreateState] /\ partition \in [Partitions -> PartitionRun]
      /\ inDAG \subseteq Events /\ stopped \in BOOLEAN /\ partition[p] \in PartitionRun
  BY FlowShape DEF FlowInv
<1>1. ASSUME NEW rec \in PartitionRun, partition' = [partition EXCEPT ![p] = rec]
      PROVE  partition' \in [Partitions -> PartitionRun]
  BY <1>0, <1>1
<1>2. /\ [partition[p] EXCEPT !.pc = "next", !.ev = {}] \in PartitionRun
      /\ [partition[p] EXCEPT !.pc = "track"] \in PartitionRun
      /\ Idle \in PartitionRun
  BY <1>0 DEF PartitionRun, Idle
<1>3. CASE PartitionBegin(p)
  <2>1. PICK S \in SUBSET Shared(p) \ {{}} :
          partition' = [partition EXCEPT ![p] = [pc |-> "next", todo |-> S, ev |-> {}]]
    BY <1>3 DEF PartitionBegin
  <2>2. [pc |-> "next", todo |-> S, ev |-> {}] \in PartitionRun
    BY <1>0 DEF Shared, PartitionRun
  <2>3. partition' \in [Partitions -> PartitionRun]
    BY <1>1, <2>1, <2>2
  <2> QED BY <1>0, <1>3, <2>3, FlowUnmoved DEF PartitionBegin
<1>4. CASE PartitionNext(p)
  <2>1. ASSUME NEW e \in Lowest(partition[p].todo)
        PROVE  /\ [partition[p] EXCEPT !.todo = @ \ {e}] \in PartitionRun
               /\ [pc |-> "validate", todo |-> partition[p].todo \ {e}, ev |-> {e}] \in PartitionRun
    BY <1>0 DEF Lowest, PartitionRun
  <2>2. partition' \in [Partitions -> PartitionRun]
    BY <1>1, <1>2, <1>4, <2>1 DEF PartitionNext
  <2> QED BY <1>0, <1>4, <2>2, FlowUnmoved DEF PartitionNext
<1>5. CASE PartitionValidate(p)
  <2>1. partition' \in [Partitions -> PartitionRun]
    BY <1>0, <1>1, <1>2, <1>5 DEF PartitionValidate
  <2> QED BY <1>0, <1>5, <2>1, FlowUnmoved DEF PartitionValidate
<1>6. CASE PartitionTrack(p)
  <2>1. PICK e \in partition[p].ev : Track(p, e)
    BY <1>6 DEF PartitionTrack
  <2>2. e \in Events /\ p \in Trackers
    BY <1>0 DEF PartitionRun, Trackers
  <2>3. partition' \in [Partitions -> PartitionRun]
    BY <1>0, <1>1, <1>2, <1>6 DEF PartitionTrack
  <2> QED BY <1>0, <1>6, <2>1, <2>2, <2>3, TrackKeeps DEF PartitionTrack
<1> QED BY <1>3, <1>4, <1>5, <1>6 DEF Partition

(* FinalizeEvent, and Lachesis by itself: events only become final.         *)
LEMMA FinalizeKeeps ==
    ASSUME FlowInv, \/ \E a \in Actors : Finalize(a)
                    \/ \E e \in Events : LachesisFinalizes(e)
    PROVE  FlowInv'
<1> USE DEF maps
<1>0. TypeOK /\ call \in [Actors -> CallState]
  BY FlowShape DEF FlowInv
<1>1. ASSUME NEW a \in Actors, NEW s \in CallState, NEW final \in SUBSET Events,
             call' = [call EXCEPT ![a] = s], finalizedFlag' = finalizedFlag \cup final,
             s \in {"reward", "yes"} => EventOf(a) \subseteq finalizedFlag',
             UNCHANGED <<create, inDAG, maps, attempt, worker, partition, stopped>>
      PROVE  FlowInv'
  <2>1. call'[a] = s /\ (\A b \in Actors \ {a} : call'[b] = call[b]) /\ call' \in [Actors -> CallState]
    BY <1>0, <1>1
  <2>2. TypeOK'
    BY <1>0, <1>1, <2>1 DEF TypeOK, CallState
  <2>3. NoEventDropped' /\ InBothIsTried'
    BY <1>1 DEF FlowInv, NoEventDropped, InBothIsTried
  <2>4. AnswersTrue'
    BY <1>1, <2>1 DEF FlowInv, AnswersTrue, EventOf
  <2> QED BY <2>2, <2>3, <2>4 DEF FlowInv
<1>2. ASSUME NEW a \in Actors, NEW result \in {"yes", "no"}
      PROVE  \E s \in {"none", result} : Answer(a, result) = [call EXCEPT ![a] = s]
  BY DEF Answer
<1>3. ASSUME NEW a \in Actors, NEW s \in CallState, call' = [call EXCEPT ![a] = s],
             s \in {"reward", "yes"} => EventOf(a) \subseteq finalizedFlag,
             UNCHANGED <<create, inDAG, finalizedFlag, maps, attempt, worker, partition, stopped>>
      PROVE  FlowInv'
  <2>1. finalizedFlag' = finalizedFlag \cup {} /\ {} \in SUBSET Events /\ finalizedFlag' = finalizedFlag
    BY <1>3
  <2> QED BY <1>1, <1>3, <2>1
<1>4. ASSUME NEW a \in Actors, FinalizeStart(a) PROVE FlowInv'
  <2>1. \E s \in {"none", "yes", "vote"} : /\ call' = [call EXCEPT ![a] = s]
                                           /\ s \in {"reward", "yes"} => EventOf(a) \subseteq finalizedFlag
    BY <1>2, <1>4 DEF FinalizeStart
  <2>2. UNCHANGED <<create, inDAG, finalizedFlag, maps, attempt, worker, partition, stopped>>
    BY <1>4 DEF FinalizeStart
  <2> QED BY <1>3, <2>1, <2>2 DEF CallState
<1>5. ASSUME NEW a \in Actors, FinalizeAccept(a) PROVE FlowInv'
  <2>1. EventOf(a) \subseteq Events
    BY <1>0, EventOfType
  <2>2. /\ finalizedFlag' = finalizedFlag \cup EventOf(a) /\ call' = [call EXCEPT ![a] = "reward"]
        /\ UNCHANGED <<create, inDAG, maps, attempt, worker, partition, stopped>>
    BY <1>5 DEF FinalizeAccept
  <2>3. EventOf(a) \subseteq finalizedFlag' /\ "reward" \in CallState
    BY <2>2 DEF CallState
  <2> QED BY <1>1, <2>1, <2>2, <2>3
<1>6. ASSUME NEW a \in Actors, FinalizeReward(a) PROVE FlowInv'
  <2>1. EventOf(a) \subseteq finalizedFlag
    BY <1>6 DEF FlowInv, AnswersTrue, FinalizeReward
  <2>2. \E s \in {"none", "yes"} : call' = [call EXCEPT ![a] = s]
    BY <1>2, <1>6 DEF FinalizeReward
  <2>3. UNCHANGED <<create, inDAG, finalizedFlag, maps, attempt, worker, partition, stopped>>
    BY <1>6 DEF FinalizeReward
  <2> QED BY <1>3, <2>1, <2>2, <2>3 DEF CallState
<1>7. ASSUME NEW a \in Actors, FinalizeRefuse(a) PROVE FlowInv'
  <2>1. \E s \in {"none", "no"} : call' = [call EXCEPT ![a] = s]
    BY <1>2, <1>7 DEF FinalizeRefuse
  <2>2. UNCHANGED <<create, inDAG, finalizedFlag, maps, attempt, worker, partition, stopped>>
    BY <1>7 DEF FinalizeRefuse
  <2> QED BY <1>3, <2>1, <2>2 DEF CallState
<1>8. ASSUME NEW e \in Events, LachesisFinalizes(e) PROVE FlowInv'
  BY <1>8 DEF LachesisFinalizes, FlowInv, TypeOK, AnswersTrue, EventOf, NoEventDropped, InBothIsTried
<1> QED BY <1>4, <1>5, <1>6, <1>7, <1>8 DEF Finalize

(* The maps after handleFinalizedEvent, called for an event that is final:  *)
(* it is not pending any more.                                              *)
LEMMA HandledKeeps ==
    ASSUME FlowInv, NEW e \in Events, e \in finalizedFlag, handleFinalizedEvent(e),
           attempt' \in [Attempts -> AttemptState],
           \A u \in Trackers, f \in Events \ {e} : attempt'[<<u, f>>] = attempt[<<u, f>>],
           call' \in [Actors -> CallState], worker' \in [Workers -> WorkerRun], AnswersTrue',
           UNCHANGED <<create, inDAG, finalizedFlag, partition, stopped>>
    PROVE  FlowInv'
<1> USE DEF handleFinalizedEvent
<1>1. /\ \A f \in Events \ {e} : eventRetryCount'[f] = eventRetryCount[f]
      /\ eventRetryCount' \in [Events -> RetryCount]
  BY FlowShape DEF FlowInv, RetryCount
<1>2. TypeOK'
  BY <1>1 DEF FlowInv, TypeOK, CallState, WorkerRun, AttemptState, RetryCount
<1>3. NoEventDropped'
  BY DEF FlowInv, NoEventDropped
<1>4. InBothIsTried'
  <2> SUFFICES ASSUME NEW f \in pendingEvents' \cap finalizedEvents'
               PROVE  (\E u \in Trackers : attempt'[<<u, f>>] = "select") \/ eventRetryCount'[f] > 0
    BY DEF InBothIsTried
  <2>1. f \in Events \ {e} /\ f \in pendingEvents \cap finalizedEvents
    BY FlowShape DEF FlowInv
  <2> QED BY <1>1, <2>1 DEF FlowInv, InBothIsTried
<1> QED BY <1>2, <1>3, <1>4 DEF FlowInv

(* finalizeEvent gets its answer, or its time is over.                      *)
LEMMA AttemptKeeps ==
    ASSUME FlowInv, NEW t \in Trackers, NEW e \in Events, Attempt(t, e)
    PROVE  FlowInv'
<1> DEFINE g == <<t, e>>
<1>0. /\ TypeOK /\ call \in [Actors -> CallState] /\ g \in Actors /\ g \in Attempts /\ EventOf(g) = {e}
      /\ worker \in [Workers -> WorkerRun] /\ attempt \in [Attempts -> AttemptState]
  BY AttemptOf, FlowShape DEF FlowInv
<1>1. /\ \E r \in {"reward", "done"} : attempt' = [attempt EXCEPT ![g] = r]
      /\ call' = [call EXCEPT ![g] = "none"] \/ call' = call
      /\ UNCHANGED <<create, inDAG, finalizedFlag, worker, partition, stopped>>
  <2>1. CASE AttemptResult(t, e)
    BY <2>1 DEF AttemptResult
  <2>2. CASE AttemptTimeout(t, e)
    <3>1. call' = [call EXCEPT ![g] = "none"] \/ call' = [call EXCEPT ![g] = call[g]]
      BY <2>2 DEF AttemptTimeout
    <3>2. [call EXCEPT ![g] = call[g]] = call
      BY <1>0
    <3> QED BY <2>2, <3>1, <3>2 DEF AttemptTimeout
  <2>3. CASE AttemptReward(t, e)
    BY <2>3 DEF AttemptReward
  <2> QED BY <2>1, <2>2, <2>3 DEF Attempt
<1>2. /\ call' \in [Actors -> CallState] /\ attempt' \in [Attempts -> AttemptState]
      /\ \A a \in Actors : call'[a] \in {"reward", "yes"} => call'[a] = call[a]
      /\ attempt'[g] \in {"reward", "done"} /\ \A h \in Attempts \ {g} : attempt'[h] = attempt[h]
  BY <1>0, <1>1 DEF CallState, AttemptState
<1>3. AnswersTrue'
  BY <1>1, <1>2 DEF FlowInv, AnswersTrue, EventOf
<1>4. \A u \in Trackers, f \in Events : <<u, f>> # g => attempt'[<<u, f>>] = attempt[<<u, f>>]
  BY <1>2, AttemptOf
<1>5. \A u \in Trackers, f \in Events : f # e => <<u, f>> # g
  OBVIOUS
<1>6. \A u \in Trackers, f \in Events \ {e} : attempt'[<<u, f>>] = attempt[<<u, f>>]
  BY <1>4, <1>5
<1>7. CASE AttemptResult(t, e) /\ call[g] = "yes"
  <2>1. handleFinalizedEvent(e)
    BY <1>7 DEF AttemptResult
  <2>2. e \in finalizedFlag
    BY <1>0, <1>7 DEF FlowInv, AnswersTrue
  <2> QED BY <1>0, <1>1, <1>2, <1>3, <1>6, <2>1, <2>2, HandledKeeps
<1>8. CASE CountRetry(e) /\ attempt[g] = "select"
  <2>1. UNCHANGED <<pendingEvents, finalizedEvents, eventCreationTime, eventsByHeight>>
    BY <1>8 DEF CountRetry
  <2>2. /\ eventRetryCount' \in [Events -> RetryCount] /\ eventRetryCount'[e] > 0
        /\ \A f \in Events \ {e} : eventRetryCount'[f] = eventRetryCount[f]
    <3>1. eventRetryCount \in [Events -> RetryCount] /\ eventRetryCount[e] \in RetryCount
      BY <1>0, FlowShape
    <3> DEFINE n == IF eventRetryCount[e] = NoEntry THEN 1 ELSE eventRetryCount[e] + 1
    <3>2. n \in RetryCount /\ n > 0
      BY <3>1 DEF RetryCount, NoEntry
    <3>3. eventRetryCount' = [eventRetryCount EXCEPT ![e] = n]
      BY <1>8 DEF CountRetry
    <3> HIDE DEF n
    <3> QED BY <3>1, <3>2, <3>3
  <2>3. TypeOK'
    BY <1>0, <1>1, <1>2, <2>1, <2>2 DEF TypeOK, CallState, AttemptState, RetryCount
  <2>4. NoEventDropped'
    <3> SUFFICES ASSUME NEW u \in Trackers, NEW f \in Events, attempt'[<<u, f>>] # "none", f \notin finalizedFlag'
                 PROVE  f \in pendingEvents'
      BY DEF NoEventDropped
    <3>1. attempt[<<u, f>>] # "none"
      BY <1>4, <1>8
    <3> QED BY <1>1, <2>1, <3>1 DEF FlowInv, NoEventDropped
  <2>5. InBothIsTried'
    <3> SUFFICES ASSUME NEW f \in pendingEvents' \cap finalizedEvents'
                 PROVE  (\E u \in Trackers : attempt'[<<u, f>>] = "select") \/ eventRetryCount'[f] > 0
      BY DEF InBothIsTried
    <3>1. f \in pendingEvents \cap finalizedEvents /\ f \in Events
      BY <1>0, <2>1, FlowShape
    <3>2. CASE f = e
      BY <2>2, <3>2
    <3>3. CASE f # e
      BY <1>6, <2>2, <3>1, <3>3 DEF FlowInv, InBothIsTried
    <3> QED BY <3>2, <3>3
  <2> QED BY <1>3, <2>3, <2>4, <2>5 DEF FlowInv
<1>9. CASE AttemptReward(t, e)
  <2>1. UNCHANGED maps /\ attempt[g] = "reward"
    BY <1>9 DEF AttemptReward
  <2>2. TypeOK'
    BY <1>0, <1>1, <1>2, <2>1 DEF TypeOK, CallState, AttemptState, maps
  <2>3. NoEventDropped'
    <3> SUFFICES ASSUME NEW u \in Trackers, NEW f \in Events, attempt'[<<u, f>>] # "none", f \notin finalizedFlag'
                 PROVE  f \in pendingEvents'
      BY DEF NoEventDropped
    <3>1. attempt[<<u, f>>] # "none"
      BY <1>4, <2>1
    <3> QED BY <1>1, <2>1, <3>1 DEF FlowInv, NoEventDropped, maps
  <2>4. \A u \in Trackers, f \in Events : attempt[<<u, f>>] = "select" => attempt'[<<u, f>>] = "select"
    BY <1>4, <2>1
  <2>5. InBothIsTried'
    <3> SUFFICES ASSUME NEW f \in pendingEvents \cap finalizedEvents
                 PROVE  (\E u \in Trackers : attempt'[<<u, f>>] = "select") \/ eventRetryCount[f] > 0
      BY <2>1 DEF InBothIsTried, maps
    <3>1. f \in Events
      BY <1>0, FlowShape
    <3> QED BY <2>4, <3>1 DEF FlowInv, InBothIsTried
  <2> QED BY <1>3, <2>2, <2>3, <2>5 DEF FlowInv
<1> QED BY <1>7, <1>8, <1>9 DEF Attempt, AttemptResult, AttemptTimeout

(* A run of processPendingEvents.                                           *)
LEMMA WorkKeeps ==
    ASSUME FlowInv, NEW w \in Workers, Work(w)
    PROVE  FlowInv'
<1> USE DEF maps
<1>0. /\ TypeOK /\ call \in [Actors -> CallState] /\ w \in Actors /\ worker \in [Workers -> WorkerRun]
      /\ attempt \in [Attempts -> AttemptState]
  BY FlowShape DEF FlowInv, Actors
<1>1. ASSUME NEW rec \in WorkerRun, worker' = [worker EXCEPT ![w] = rec],
             NEW s \in CallState, call' = [call EXCEPT ![w] = s],
             s \in {"reward", "yes"} => call[w] = s /\ rec.ev \subseteq worker[w].ev, finalizedFlag' = finalizedFlag
      PROVE  AnswersTrue' /\ call' \in [Actors -> CallState] /\ worker' \in [Workers -> WorkerRun]
  <2>1. /\ call' \in [Actors -> CallState] /\ worker' \in [Workers -> WorkerRun]
        /\ call'[w] = s /\ worker'[w] = rec
        /\ \A a \in Actors \ {w} : call'[a] = call[a]
        /\ \A v \in Workers \ {w} : worker'[v] = worker[v]
    BY <1>0, <1>1
  <2>2. ASSUME NEW a \in Actors, call'[a] \in {"reward", "yes"}
        PROVE  (IF a \in Workers THEN worker'[a].ev ELSE {a[2]}) \subseteq finalizedFlag
    BY <1>1, <2>1, <2>2 DEF FlowInv, AnswersTrue, EventOf
  <2> QED BY <1>1, <2>1, <2>2 DEF AnswersTrue, EventOf
<1>2. ASSUME AnswersTrue', call' \in [Actors -> CallState], worker' \in [Workers -> WorkerRun],
             UNCHANGED <<create, inDAG, finalizedFlag, maps, attempt, partition, stopped>>
      PROVE  FlowInv'
  BY <1>2 DEF FlowInv, TypeOK, CallState, WorkerRun, NoEventDropped, InBothIsTried
<1>3. worker[w] \in WorkerRun /\ call[w] \in CallState /\ [call EXCEPT ![w] = call[w]] = call
  BY <1>0
<1>4. Idle \in WorkerRun /\ Idle.ev = {}
  BY DEF Idle, WorkerRun
<1>5. CASE WorkerSnapshot(w)
  <2> DEFINE rec == [pc |-> "scan", todo |-> pendingEvents, ev |-> {}]
  <2>1. rec \in WorkerRun /\ rec.ev = {}
    BY <1>0 DEF WorkerRun, TypeOK
  <2>2. /\ worker' = [worker EXCEPT ![w] = rec] /\ call' = [call EXCEPT ![w] = call[w]]
        /\ UNCHANGED <<create, inDAG, finalizedFlag, maps, attempt, partition, stopped>>
    BY <1>3, <1>5 DEF WorkerSnapshot
  <2> HIDE DEF rec
  <2> QED BY <1>1, <1>2, <1>3, <2>1, <2>2
<1>6. CASE WorkerNext(w)
  <2>1. UNCHANGED <<create, inDAG, finalizedFlag, maps, attempt, partition, stopped>>
    BY <1>6 DEF WorkerNext
  <2>2. ASSUME NEW e \in Lowest(worker[w].todo),
               worker' = [worker EXCEPT ![w] = [worker[w] EXCEPT !.todo = worker[w].todo \ {e}]], call' = call
        PROVE  FlowInv'
    <3> DEFINE rec == [worker[w] EXCEPT !.todo = worker[w].todo \ {e}]
    <3>1. rec \in WorkerRun /\ rec.ev = worker[w].ev
      BY <1>3 DEF WorkerRun
    <3>2. worker' = [worker EXCEPT ![w] = rec] /\ call' = [call EXCEPT ![w] = call[w]]
      BY <1>3, <2>2
    <3> HIDE DEF rec
    <3> QED BY <1>1, <1>2, <1>3, <2>1, <3>1, <3>2
  <2>3. ASSUME NEW e \in Lowest(worker[w].todo), call' = [call EXCEPT ![w] = "start"],
               worker' = [worker EXCEPT ![w] = [pc |-> "wait", todo |-> worker[w].todo \ {e}, ev |-> {e}]]
        PROVE  FlowInv'
    <3> DEFINE rec == [pc |-> "wait", todo |-> worker[w].todo \ {e}, ev |-> {e}]
    <3>1. rec \in WorkerRun
      BY <1>3 DEF WorkerRun, Lowest
    <3>2. worker' = [worker EXCEPT ![w] = rec] /\ "start" \in CallState
      BY <2>3 DEF CallState
    <3> HIDE DEF rec
    <3> QED BY <1>1, <1>2, <2>1, <2>3, <3>1, <3>2
  <2>4. ASSUME worker' = [worker EXCEPT ![w] = Idle], call' = call
        PROVE  FlowInv'
    <3>1. call' = [call EXCEPT ![w] = call[w]]
      BY <1>3, <2>4
    <3> QED BY <1>1, <1>2, <1>3, <1>4, <2>1, <2>4, <3>1
  <2> QED BY <1>6, <2>2, <2>3, <2>4 DEF WorkerNext
<1>7. CASE WorkerResult(w)
  <2>1. \E s \in {"scan", "reward"}, v \in {worker[w].ev, {}} :
           worker' = [worker EXCEPT ![w] = [worker[w] EXCEPT !.pc = s, !.ev = v]]
    <3> DEFINE r1 == [worker[w] EXCEPT !.pc = "reward"]
               r2 == [worker[w] EXCEPT !.pc = "reward", !.ev = worker[w].ev]
    <3>1. r1 = r2
      BY <1>3 DEF WorkerRun
    <3>2. \/ worker' = [worker EXCEPT ![w] = r1]
          \/ worker' = [worker EXCEPT ![w] = [worker[w] EXCEPT !.pc = "scan", !.ev = {}]]
      BY <1>7 DEF WorkerResult
    <3>3. CASE worker' = [worker EXCEPT ![w] = r1]
      <4>1. worker' = [worker EXCEPT ![w] = r2]
        BY <3>1, <3>3
      <4> QED BY <4>1
    <3> QED BY <3>2, <3>3
  <2>2. PICK s \in {"scan", "reward"}, v \in {worker[w].ev, {}} :
           worker' = [worker EXCEPT ![w] = [worker[w] EXCEPT !.pc = s, !.ev = v]]
    BY <2>1
  <2> DEFINE rec == [worker[w] EXCEPT !.pc = s, !.ev = v]
  <2>3. rec \in WorkerRun
    BY <1>3 DEF WorkerRun
  <2>4. /\ worker' = [worker EXCEPT ![w] = rec] /\ call' = [call EXCEPT ![w] = "none"]
        /\ UNCHANGED <<create, inDAG, finalizedFlag, attempt, partition, stopped>> /\ "none" \in CallState
    BY <1>7, <2>2 DEF WorkerResult, CallState
  <2> HIDE DEF rec
  <2>5. AnswersTrue' /\ call' \in [Actors -> CallState] /\ worker' \in [Workers -> WorkerRun]
    BY <1>1, <2>3, <2>4
  <2>6. ASSUME call[w] = "yes", NEW e \in worker[w].ev, handleFinalizedEvent(e)
        PROVE  FlowInv'
    <3>1. e \in Events /\ e \in finalizedFlag
      BY <1>0, <1>3, <2>6 DEF FlowInv, AnswersTrue, EventOf, WorkerRun
    <3>2. attempt' \in [Attempts -> AttemptState] /\ \A u \in Trackers, f \in Events \ {e} : attempt'[<<u, f>>] = attempt[<<u, f>>]
      BY <1>0, <2>4
    <3> QED BY <2>4, <2>5, <2>6, <3>1, <3>2, HandledKeeps
  <2>7. CASE UNCHANGED maps
    BY <1>2, <2>4, <2>5, <2>7
  <2> QED BY <1>7, <2>6, <2>7 DEF WorkerResult
<1>8. CASE WorkerReward(w)
  <2> DEFINE rec == [worker[w] EXCEPT !.pc = "scan", !.ev = {}]
  <2>1. rec \in WorkerRun /\ rec.ev = {}
    BY <1>3 DEF WorkerRun
  <2>2. /\ worker' = [worker EXCEPT ![w] = rec] /\ call' = [call EXCEPT ![w] = call[w]]
        /\ UNCHANGED <<create, inDAG, finalizedFlag, maps, attempt, partition, stopped>>
    BY <1>3, <1>8 DEF WorkerReward
  <2> HIDE DEF rec
  <2> QED BY <1>1, <1>2, <1>3, <2>1, <2>2
<1> QED BY <1>5, <1>6, <1>7, <1>8 DEF Work

(* CleanupOldEvents takes only final events out of the maps.                *)
LEMMA CleanupKeeps ==
    ASSUME FlowInv, NEW h, CleanupOldEvents(h)
    PROVE  FlowInv'
<1> DEFINE gone == {e \in eventsByHeight : Height[e] < h} \cap finalizedFlag
<1>1. /\ finalizedEvents' \subseteq finalizedEvents /\ eventCreationTime' \subseteq eventCreationTime
      /\ eventsByHeight' \subseteq eventsByHeight
      /\ eventRetryCount' = [e \in Events |-> IF e \in gone THEN NoEntry ELSE eventRetryCount[e]]
      /\ UNCHANGED <<create, inDAG, finalizedFlag, pendingEvents, attempt, call, worker, partition, stopped>>
  BY DEF CleanupOldEvents
<1> HIDE DEF gone
<1>2. /\ eventRetryCount' \in [Events -> RetryCount] /\ finalizedEvents' = finalizedEvents \ gone
      /\ \A e \in Events \ gone : eventRetryCount'[e] = eventRetryCount[e]
  BY <1>1, FlowShape DEF FlowInv, RetryCount, CleanupOldEvents, gone
<1>3. TypeOK'
  BY <1>1, <1>2 DEF FlowInv, TypeOK, RetryCount
<1>4. AnswersTrue' /\ NoEventDropped'
  BY <1>1 DEF FlowInv, AnswersTrue, EventOf, NoEventDropped
<1>5. InBothIsTried'
  <2> SUFFICES ASSUME NEW f \in pendingEvents' \cap finalizedEvents'
               PROVE  (\E u \in Trackers : attempt'[<<u, f>>] = "select") \/ eventRetryCount'[f] > 0
    BY DEF InBothIsTried
  <2>1. f \in Events \ gone /\ f \in pendingEvents \cap finalizedEvents
    BY <1>1, <1>2, FlowShape DEF FlowInv
  <2> QED BY <1>1, <1>2, <2>1 DEF FlowInv, InBothIsTried
<1> QED BY <1>3, <1>4, <1>5 DEF FlowInv

(* The manager's invariant, in every order of creations, attempts, time-    *)
(* outs, workers, partitions and clean-ups.                                 *)
THEOREM FlowInvariant == Spec => []FlowInv
<1>1. Init => FlowInv
  <2> SUFFICES ASSUME Init PROVE FlowInv
    OBVIOUS
  <2>1. Idle \in WorkerRun /\ Idle \in PartitionRun
    BY DEF Idle, WorkerRun, PartitionRun
  <2>2. TypeOK
    BY <2>1, SetsAssumption, FlowShape DEF Init, CreateState, RetryCount, CallState, AttemptState
  <2>3. NoEventDropped
    BY AttemptOf DEF Init, NoEventDropped
  <2>4. AnswersTrue /\ InBothIsTried
    BY DEF Init, AnswersTrue, InBothIsTried
  <2> QED BY <2>2, <2>3, <2>4 DEF FlowInv
<1>2. FlowInv /\ [Next]_vars => FlowInv'
  <2> SUFFICES ASSUME FlowInv, [Next]_vars PROVE FlowInv'
    OBVIOUS
  <2>1. CASE Stop \/ UNCHANGED vars
    BY <2>1 DEF Stop, vars, maps, FlowInv, TypeOK, AnswersTrue, EventOf, NoEventDropped,
                InBothIsTried
  <2> QED BY <2>1, CreationKeeps, PartitionKeeps, FinalizeKeeps, AttemptKeeps, WorkKeeps, CleanupKeeps DEF Next
<1> QED BY <1>1, <1>2, PTL DEF Spec

(* Types.                                                                   *)
THEOREM FlowTypes == Spec => []TypeOK
BY FlowInvariant, PTL DEF FlowInv

(* An event that was tracked stays pending until it is final, however many  *)
(* calls track it at a time.                                                *)
THEOREM TrackedUntilFinal == Spec => []NoEventDropped
BY FlowInvariant, PTL DEF FlowInv

(* An event in both maps has a goroutine that will move it, or one whose    *)
(* answer was no or too late.                                               *)
THEOREM BothMapsOnlyWhileTried == Spec => []InBothIsTried
BY FlowInvariant, PTL DEF FlowInv

----------------------------------------------------------------------------
(* The batch processor                                                      *)

OnItsWay(e) == \E a \in Adders : adder[a] = {e}

BatchShape ==
    /\ creatorQueues \in [Creators -> Seq(Items)] /\ pendingEventsByID \subseteq Items
    /\ DOMAIN adder = Adders /\ \A a \in Adders : adder[a] = {} \/ \E e \in Items : adder[a] = {e}
    /\ DOMAIN batch = Batches /\ \A p \in Batches : DOMAIN batch[p] = DOMAIN NoBatch
    /\ batchSize \in Nat

(* The batch that is walking through the queues holds their lock.  While it *)
(* removes the events of a creator, those that are still known are yet to   *)
(* be removed or have been added again meanwhile: KnownIsQueued follows     *)
(* from that, not from itself, when the queue is cut.                       *)
Walking == {"creators", "remove"}
WalkInv ==
    \A p \in Batches :
        /\ batch[p].pc \in Walking => creatorQueuesMu = p /\ batch[p].size \in Nat
        /\ batch[p].pc = "remove" =>
              /\ batch[p].of \in Creators /\ batch[p].rest \in Seq(Items)
              /\ \A e \in pendingEventsByID :
                    ItemCreator[e] = batch[p].of => e \in ToSet(batch[p].rest) \/ OnItsWay(e)

BatchInv == BatchShape /\ WalkInv /\ KnownIsQueued

(* Membership in a queue and in its rearrangements.                         *)
LEMMA SortedSame ==
    ASSUME NEW q \in Seq(Items), NEW s \in SortedByHeight(q)
    PROVE  s \in Seq(Items) /\ ToSet(s) = ToSet(q)
<1>1. PICK f \in Bijection(DOMAIN q, DOMAIN q) : s = [i \in DOMAIN q |-> q[f[i]]]
  BY DEF SortedByHeight
<1>2. f \in [DOMAIN q -> DOMAIN q] /\ \A j \in DOMAIN q : \E i \in DOMAIN q : f[i] = j
  BY <1>1 DEF Bijection, Injection, Surjection
<1>3. DOMAIN q = 1..Len(q) /\ Len(q) \in Nat /\ DOMAIN s = DOMAIN q
  BY <1>1
<1>4. \A i \in DOMAIN q : q[i] \in Items /\ s[i] = q[f[i]] /\ f[i] \in DOMAIN q
  BY <1>1, <1>2, <1>3
<1>5. s \in [1..Len(q) -> Items]
  BY <1>1, <1>3, <1>4
<1>6. ToSet(s) = ToSet(q)
  BY <1>2, <1>3, <1>4 DEF ToSet
<1> QED BY <1>3, <1>5, <1>6

(* What is not the head is in the tail.                                     *)
LEMMA TailKeepsOthers ==
    ASSUME NEW q \in Seq(Items), q # <<>>
    PROVE  Tail(q) \in Seq(Items) /\ Head(q) \in Items /\ \A e \in ToSet(q) : e = Head(q) \/ e \in ToSet(Tail(q))
<1>1. /\ Len(q) \in Nat /\ Len(q) > 0 /\ Tail(q) \in Seq(Items) /\ Len(Tail(q)) = Len(q) - 1
      /\ Head(q) = q[1] /\ Head(q) \in Items /\ \A i \in 1..(Len(q) - 1) : Tail(q)[i] = q[i + 1]
  OBVIOUS
<1>2. \A e \in ToSet(q) : \E i \in 1..Len(q) : e = q[i]
  BY DEF ToSet
<1>3. ASSUME NEW i \in 1..Len(q) PROVE q[i] = Head(q) \/ \E j \in DOMAIN Tail(q) : Tail(q)[j] = q[i]
  <2>1. CASE i = 1
    BY <1>1, <2>1
  <2>2. CASE i # 1
    <3>1. i - 1 \in 1..(Len(q) - 1) /\ (i - 1) + 1 = i
      BY <1>1, <2>2
    <3>2. Tail(q)[i - 1] = q[i] /\ DOMAIN Tail(q) = 1..(Len(q) - 1)
      BY <1>1, <3>1
    <3> QED BY <3>1, <3>2
  <2> QED BY <2>1, <2>2
<1> QED BY <1>1, <1>2, <1>3 DEF ToSet

(* A batch that is not, or no longer, at the queues moves on.               *)
LEMMA BatchMoves ==
    ASSUME BatchInv, NEW p \in Batches, NEW rec, batch' = [batch EXCEPT ![p] = rec],
           DOMAIN rec = DOMAIN NoBatch, rec.pc \notin Walking,
           creatorQueuesMu' = creatorQueuesMu \/ (batch[p].pc \in Walking /\ creatorQueuesMu' = Nobody),
           UNCHANGED <<pendingEventsByID, creatorQueues, adder, batchSize>>
    PROVE  BatchInv'
<1>1. /\ DOMAIN batch' = Batches /\ batch'[p] = rec /\ \A q \in Batches \ {p} : batch'[q] = batch[q]
  BY DEF BatchInv, BatchShape
<1>2. BatchShape' /\ KnownIsQueued'
  <2>1. \A q \in Batches : DOMAIN batch'[q] = DOMAIN NoBatch
    BY <1>1 DEF BatchInv, BatchShape
  <2> QED BY <1>1, <2>1 DEF BatchInv, BatchShape, KnownIsQueued
<1>3. \A q \in Batches : batch'[q].pc \in Walking => q # p /\ batch'[q] = batch[q] /\ creatorQueuesMu' = creatorQueuesMu
  BY <1>1 DEF BatchInv, WalkInv
<1>4. "remove" \in Walking
  BY DEF Walking
<1>5. WalkInv'
  <2>1. \A q \in Batches : batch'[q].pc = "remove" => batch'[q].pc \in Walking
    BY <1>4
  <2>2. \A e : OnItsWay(e)' <=> OnItsWay(e)
    BY DEF OnItsWay
  <2> QED BY <1>3, <2>1, <2>2 DEF BatchInv, WalkInv
<1> QED BY <1>2, <1>5 DEF BatchInv

(* Nothing happens to the queues, the adders and the batches.               *)
LEMMA BatchUnmoved ==
    ASSUME BatchInv, UNCHANGED <<creatorQueuesMu, pendingEventsByID, creatorQueues, adder, batch>>, batchSize' \in Nat
    PROVE  BatchInv'
BY DEF BatchInv, BatchShape, WalkInv, KnownIsQueued, OnItsWay

(* AddEvent and addToCreatorQueue, which needs the lock a batch would hold. *)
LEMMA AddingKeeps ==
    ASSUME BatchInv, NEW a \in Adders, addToCreatorQueue(a) \/ \E e \in Items : AddEvent(a, e)
    PROVE  BatchInv'
<1>0. BatchShape /\ WalkInv /\ KnownIsQueued
  BY DEF BatchInv
<1>1. ASSUME NEW e \in Items, AddEvent(a, e) PROVE BatchInv'
  <2>1. /\ adder[a] = {} /\ adder' = [adder EXCEPT ![a] = {e}]
        /\ pendingEventsByID' = pendingEventsByID \cup {e}
        /\ UNCHANGED <<creatorQueuesMu, creatorQueues, batch, batchSize>>
    BY <1>1 DEF AddEvent, control
  <2>2. DOMAIN adder' = Adders /\ adder'[a] = {e} /\ \A b \in Adders \ {a} : adder'[b] = adder[b]
    BY <1>0, <2>1 DEF BatchShape
  <2>3. OnItsWay(e)' /\ \A d \in Items : OnItsWay(d) => OnItsWay(d)'
    BY <2>1, <2>2 DEF OnItsWay
  <2>4. BatchShape'
    BY <1>0, <2>1, <2>2 DEF BatchShape
  <2>5. WalkInv'
    BY <1>0, <2>1, <2>3 DEF WalkInv, BatchShape
  <2>6. KnownIsQueued'
    BY <1>0, <2>1, <2>3 DEF KnownIsQueued, OnItsWay, BatchShape
  <2> QED BY <2>4, <2>5, <2>6 DEF BatchInv
<1>2. ASSUME addToCreatorQueue(a) PROVE BatchInv'
  <2>1. PICK e \in adder[a] : creatorQueues' = [creatorQueues EXCEPT ![ItemCreator[e]] = Append(creatorQueues[ItemCreator[e]], e)]
    BY <1>2 DEF addToCreatorQueue
  <2>2. /\ creatorQueuesMu = Nobody /\ adder' = [adder EXCEPT ![a] = {}]
        /\ UNCHANGED <<pendingEventsByID, creatorQueuesMu, batch, batchSize>>
    BY <1>2 DEF addToCreatorQueue, control
  <2>3. e \in Items /\ adder[a] = {e} /\ ItemCreator[e] \in Creators
    BY <1>0, <2>1 DEF BatchShape, Creators
  <2> DEFINE c == ItemCreator[e]
             q == creatorQueues[c]
  <2>4. q \in Seq(Items) /\ Append(q, e) \in Seq(Items) /\ ToSet(Append(q, e)) = ToSet(q) \cup {e}
    <3>1. q \in Seq(Items)
      BY <1>0, <2>3 DEF BatchShape
    <3> HIDE DEF q
    <3>2. /\ Append(q, e) \in Seq(Items) /\ Len(Append(q, e)) = Len(q) + 1 /\ Len(q) \in Nat
          /\ Append(q, e)[Len(q) + 1] = e /\ \A i \in 1..Len(q) : Append(q, e)[i] = q[i]
          /\ DOMAIN Append(q, e) = 1..(Len(q) + 1) /\ DOMAIN q = 1..Len(q)
      BY <2>3, <3>1
    <3>3. \A i \in 1..(Len(q) + 1) : i \in 1..Len(q) \/ i = Len(q) + 1
      BY <3>2
    <3>4. \A i \in 1..Len(q) : i \in 1..(Len(q) + 1)
      BY <3>2
    <3>5. Len(q) + 1 \in 1..(Len(q) + 1)
      BY <3>2
    <3> QED BY <3>1, <3>2, <3>3, <3>4, <3>5 DEF ToSet
  <2>5. /\ creatorQueues' \in [Creators -> Seq(Items)] /\ creatorQueues'[c] = Append(q, e)
        /\ \A d \in Creators \ {c} : creatorQueues'[d] = creatorQueues[d]
    BY <1>0, <2>1, <2>3, <2>4 DEF BatchShape
  <2>6. DOMAIN adder' = Adders /\ adder'[a] = {} /\ \A b \in Adders \ {a} : adder'[b] = adder[b]
    BY <1>0, <2>2 DEF BatchShape
  <2>7. BatchShape'
    BY <1>0, <2>2, <2>5, <2>6 DEF BatchShape
  <2>8. \A p \in Batches : batch[p].pc \notin Walking
    BY <1>0, <2>2, BatchAssumption DEF WalkInv
  <2>9. WalkInv'
    BY <2>2, <2>8 DEF WalkInv, Walking
  <2>10. KnownIsQueued'
    <3> SUFFICES ASSUME NEW d \in pendingEventsByID
                 PROVE  d \in ToSet(creatorQueues'[ItemCreator[d]]) \/ \E b \in Adders : adder'[b] = {d}
      BY <2>2 DEF KnownIsQueued
    <3>1. d \in Items /\ ItemCreator[d] \in Creators
      BY <1>0 DEF BatchShape, Creators
    <3>2. CASE d \in ToSet(creatorQueues[ItemCreator[d]])
      <4>1. CASE ItemCreator[d] = c
        BY <2>4, <2>5, <3>2, <4>1
      <4>2. CASE ItemCreator[d] # c
        BY <2>5, <3>1, <3>2, <4>2
      <4> QED BY <4>1, <4>2
    <3>3. CASE \E b \in Adders : adder[b] = {d}
      <4>1. PICK b \in Adders : adder[b] = {d}
        BY <3>3
      <4>2. CASE b = a
        <5>1. d = e
          BY <2>3, <4>1, <4>2
        <5> QED BY <2>4, <2>5, <5>1
      <4> QED BY <2>6, <4>1, <4>2
    <3> QED BY <1>0, <3>2, <3>3 DEF KnownIsQueued
  <2> QED BY <2>7, <2>9, <2>10 DEF BatchInv
<1> QED BY <1>1, <1>2

(* A batch at the queues: it takes their lock, sorts the queue of one       *)
(* creator after the other, removes its events and cuts it.                 *)
LEMMA WalkingKeeps ==
    ASSUME BatchInv, NEW p \in Batches,
           BatchLock(p) \/ (\E c \in Creators : BatchCreator(p, c)) \/ removeEvent(p) \/ BatchUpdate(p)
    PROVE  BatchInv'
<1> USE DEF locks, queues, callers, channel, control
<1>0. BatchShape /\ WalkInv /\ KnownIsQueued /\ batchSize \in Nat
  BY DEF BatchInv, BatchShape
<1>1. ASSUME NEW rec, batch' = [batch EXCEPT ![p] = rec], DOMAIN rec = DOMAIN NoBatch
      PROVE  /\ DOMAIN batch' = Batches /\ batch'[p] = rec /\ \A q \in Batches \ {p} : batch'[q] = batch[q]
             /\ \A q \in Batches : DOMAIN batch'[q] = DOMAIN NoBatch
  BY <1>0, <1>1 DEF BatchShape
<1>2. /\ "creators" \in Walking /\ "remove" \in Walking /\ "creators" # "remove"
      /\ DOMAIN NoBatch = {"pc", "todo", "rest", "of", "size", "out"}
      /\ DOMAIN batch[p] = DOMAIN NoBatch
  BY <1>0 DEF Walking, NoBatch, BatchShape
<1>3. ASSUME creatorQueuesMu \in {p, Nobody}
      PROVE  \A q \in Batches \ {p} : batch[q].pc \notin Walking /\ batch[q].pc # "remove"
  BY <1>0, <1>2, <1>3, BatchAssumption DEF WalkInv
<1>4. CASE BatchLock(p)
  <2> DEFINE rec == [batch[p] EXCEPT !.pc = "creators", !.size = batchSize,
                                     !.todo = {c \in Creators : creatorQueues[c] # <<>>}]
  <2>1. /\ creatorQueuesMu = Nobody /\ creatorQueuesMu' = p /\ batch' = [batch EXCEPT ![p] = rec]
        /\ UNCHANGED <<pendingEventsByID, creatorQueues, adder, batchSize>>
    BY <1>4 DEF BatchLock
  <2>2. rec.pc = "creators" /\ rec.size \in Nat /\ DOMAIN rec = DOMAIN NoBatch
    BY <1>0, <1>2
  <2> HIDE DEF rec
  <2>3. /\ DOMAIN batch' = Batches /\ batch'[p] = rec /\ \A q \in Batches \ {p} : batch'[q] = batch[q]
        /\ \A q \in Batches : DOMAIN batch'[q] = DOMAIN NoBatch
    BY <1>1, <2>1, <2>2
  <2>4. BatchShape' /\ KnownIsQueued'
    BY <1>0, <2>1, <2>3 DEF BatchShape, KnownIsQueued
  <2>5. WalkInv'
    BY <1>2, <1>3, <2>1, <2>2, <2>3 DEF WalkInv
  <2> QED BY <2>4, <2>5 DEF BatchInv
<1>5. ASSUME NEW c \in Creators, BatchCreator(p, c) PROVE BatchInv'
  <2>1. PICK s \in SortedByHeight(creatorQueues[c]) :
          /\ creatorQueues' = [creatorQueues EXCEPT ![c] = s]
          /\ batch' = [batch EXCEPT ![p].pc = "remove", ![p].of = c, ![p].rest = s, ![p].todo = @ \ {c},
                          ![p].out = @ + (Len(s) + batch[p].size - 1) \div batch[p].size]
    BY <1>5 DEF BatchCreator
  <2> DEFINE rec == [batch[p] EXCEPT !.pc = "remove", !.of = c, !.rest = s, !.todo = @ \ {c},
                          !.out = @ + (Len(s) + batch[p].size - 1) \div batch[p].size]
  <2>2. /\ batch[p].pc = "creators" /\ creatorQueuesMu = p /\ batch[p].size \in Nat
        /\ UNCHANGED <<creatorQueuesMu, pendingEventsByID, adder, batchSize>>
    BY <1>0, <1>2, <1>5 DEF BatchCreator, WalkInv
  <2>3. batch' = [batch EXCEPT ![p] = rec]
    BY <2>1
  <2>4. rec.pc = "remove" /\ rec.of = c /\ rec.rest = s /\ rec.size = batch[p].size /\ DOMAIN rec = DOMAIN NoBatch
    BY <1>2
  <2> HIDE DEF rec
  <2>5. /\ DOMAIN batch' = Batches /\ batch'[p] = rec /\ \A q \in Batches \ {p} : batch'[q] = batch[q]
        /\ \A q \in Batches : DOMAIN batch'[q] = DOMAIN NoBatch
    BY <1>1, <2>3, <2>4
  <2>6. s \in Seq(Items) /\ ToSet(s) = ToSet(creatorQueues[c])
    <3>1. creatorQueues[c] \in Seq(Items)
      BY <1>0 DEF BatchShape
    <3> QED BY <2>1, <3>1, SortedSame
  <2>7. /\ creatorQueues' \in [Creators -> Seq(Items)] /\ creatorQueues'[c] = s
        /\ \A d \in Creators : ToSet(creatorQueues'[d]) = ToSet(creatorQueues[d])
    BY <1>0, <2>1, <2>6 DEF BatchShape
  <2>8. BatchShape'
    BY <1>0, <2>2, <2>5, <2>7 DEF BatchShape
  <2>9. KnownIsQueued'
    BY <1>0, <2>2, <2>7 DEF KnownIsQueued, BatchShape, Creators
  <2>10. WalkInv'
    <3>1. \A e \in pendingEventsByID : ItemCreator[e] = c => e \in ToSet(s) \/ OnItsWay(e)
      BY <1>0, <2>6 DEF KnownIsQueued, OnItsWay
    <3>2. \A q \in Batches \ {p} : batch[q].pc \notin Walking /\ batch[q].pc # "remove"
      BY <1>3, <2>2
    <3>3. \A e : OnItsWay(e)' <=> OnItsWay(e)
      BY <2>2 DEF OnItsWay
    <3>4. \A q \in Batches : batch'[q].pc \in Walking \/ batch'[q].pc = "remove" => q = p
      BY <2>5, <3>2
    <3>5. /\ batch'[p].pc = "remove" /\ batch'[p].of = c /\ batch'[p].rest = s /\ batch'[p].size \in Nat
          /\ creatorQueuesMu' = p
      BY <2>2, <2>4, <2>5
    <3> QED BY <2>2, <2>6, <3>1, <3>3, <3>4, <3>5 DEF WalkInv
  <2> QED BY <2>8, <2>9, <2>10 DEF BatchInv
<1>6. CASE removeEvent(p)
  <2> DEFINE r == batch[p].rest
             rec == [batch[p] EXCEPT !.rest = Tail(r)]
  <2>1. /\ batch[p].pc = "remove" /\ r # <<>> /\ batch' = [batch EXCEPT ![p] = rec]
        /\ pendingEventsByID' = pendingEventsByID \ {Head(r)}
        /\ UNCHANGED <<creatorQueuesMu, creatorQueues, adder, batchSize>>
    BY <1>6 DEF removeEvent
  <2>2. /\ rec.pc = "remove" /\ rec.of = batch[p].of /\ rec.rest = Tail(r) /\ rec.size = batch[p].size
        /\ DOMAIN rec = DOMAIN NoBatch
    BY <1>2, <2>1
  <2>3. /\ creatorQueuesMu = p /\ batch[p].of \in Creators /\ r \in Seq(Items) /\ batch[p].size \in Nat
        /\ \A e \in pendingEventsByID : ItemCreator[e] = batch[p].of => e \in ToSet(r) \/ OnItsWay(e)
    BY <1>0, <1>2, <2>1 DEF WalkInv
  <2> HIDE DEF rec, r
  <2>4. /\ DOMAIN batch' = Batches /\ batch'[p] = rec /\ \A q \in Batches \ {p} : batch'[q] = batch[q]
        /\ \A q \in Batches : DOMAIN batch'[q] = DOMAIN NoBatch
    BY <1>1, <2>1, <2>2
  <2>5. Tail(r) \in Seq(Items) /\ \A e \in ToSet(r) : e = Head(r) \/ e \in ToSet(Tail(r))
    BY <2>1, <2>3, TailKeepsOthers
  <2>6. BatchShape' /\ KnownIsQueued'
    BY <1>0, <2>1, <2>4 DEF BatchShape, KnownIsQueued
  <2>7. WalkInv'
    <3>1. \A q \in Batches \ {p} : batch[q].pc \notin Walking /\ batch[q].pc # "remove"
      BY <1>3, <2>3
    <3>2. \A e \in pendingEventsByID' : ItemCreator[e] = batch[p].of => e \in ToSet(Tail(r)) \/ OnItsWay(e)
      BY <2>1, <2>3, <2>5
    <3>3. \A e : OnItsWay(e)' <=> OnItsWay(e)
      BY <2>1 DEF OnItsWay
    <3>4. \A q \in Batches : batch'[q].pc \in Walking \/ batch'[q].pc = "remove" => q = p
      BY <2>4, <3>1
    <3>5. /\ batch'[p].of = batch[p].of /\ batch'[p].rest = Tail(r) /\ batch'[p].size \in Nat
          /\ creatorQueuesMu' = p /\ batch[p].of \in Creators
      BY <2>1, <2>2, <2>3, <2>4
    <3> QED BY <2>5, <3>2, <3>3, <3>4, <3>5 DEF WalkInv
  <2> QED BY <2>6, <2>7 DEF BatchInv
<1>7. CASE BatchUpdate(p)
  <2> DEFINE c == batch[p].of
             q0 == creatorQueues[c]
             rec == [batch[p] EXCEPT !.pc = "creators", !.of = Nobody]
  <2>1. /\ batch[p].pc = "remove" /\ batch[p].rest = <<>> /\ batch' = [batch EXCEPT ![p] = rec]
        /\ creatorQueues' = [creatorQueues EXCEPT ![c] = SubSeq(q0, batch[p].size + 1, Len(q0))]
        /\ UNCHANGED <<creatorQueuesMu, pendingEventsByID, adder, batchSize>>
    BY <1>7 DEF BatchUpdate
  <2>2. rec.pc = "creators" /\ rec.size = batch[p].size /\ DOMAIN rec = DOMAIN NoBatch
    BY <1>2
  <2>3. /\ creatorQueuesMu = p /\ c \in Creators /\ batch[p].size \in Nat
        /\ \A e \in pendingEventsByID : ItemCreator[e] = c => e \in ToSet(batch[p].rest) \/ OnItsWay(e)
    BY <1>0, <1>2, <2>1 DEF WalkInv
  <2>4. q0 \in Seq(Items) /\ ToSet(batch[p].rest) = {}
    BY <1>0, <2>1, <2>3 DEF BatchShape, ToSet
  <2> HIDE DEF rec, c, q0
  <2>5. /\ DOMAIN batch' = Batches /\ batch'[p] = rec /\ \A q \in Batches \ {p} : batch'[q] = batch[q]
        /\ \A q \in Batches : DOMAIN batch'[q] = DOMAIN NoBatch
    BY <1>1, <2>1, <2>2
  <2>6. SubSeq(q0, batch[p].size + 1, Len(q0)) \in Seq(Items)
    BY <2>3, <2>4
  <2>7. /\ creatorQueues' \in [Creators -> Seq(Items)]
        /\ \A d \in Creators \ {c} : creatorQueues'[d] = creatorQueues[d]
    BY <1>0, <2>1, <2>3, <2>6 DEF BatchShape
  <2>8. BatchShape'
    BY <1>0, <2>1, <2>5, <2>7 DEF BatchShape
  <2>9. KnownIsQueued'
    BY <1>0, <2>1, <2>3, <2>4, <2>7 DEF KnownIsQueued, OnItsWay, BatchShape, Creators
  <2>10. WalkInv'
    <3>1. \A q \in Batches \ {p} : batch[q].pc \notin Walking /\ batch[q].pc # "remove"
      BY <1>3, <2>3
    <3> QED BY <1>2, <2>1, <2>2, <2>3, <2>5, <3>1 DEF WalkInv
  <2> QED BY <2>8, <2>9, <2>10 DEF BatchInv
<1> QED BY <1>4, <1>5, <1>6, <1>7

(* The rest of a batch, and the goroutines that start one.                  *)
LEMMA BatchOthersKeep ==
    ASSUME BatchInv, NEW p \in Batches,
           TriggerCheck(p) \/ LoopTicks(p) \/ BatchBegin(p) \/ BatchUnlock(p) \/ SendResult(p) \/ BatchEnd(p)
    PROVE  BatchInv'
<1> USE DEF locks, queues, callers, channel, control
<1>0. /\ DOMAIN NoBatch = {"pc", "todo", "rest", "of", "size", "out"} /\ DOMAIN batch[p] = DOMAIN NoBatch
      /\ DOMAIN batch = Batches /\ batchSize \in Nat
  BY DEF NoBatch, BatchInv, BatchShape
<1>1. UNCHANGED <<pendingEventsByID, creatorQueues, adder, batchSize>>
  BY DEF TriggerCheck, LoopTicks, BatchBegin, BatchUnlock, SendResult, BatchEnd
<1>2. creatorQueuesMu' = creatorQueuesMu \/ (batch[p].pc \in Walking /\ creatorQueuesMu' = Nobody)
  BY DEF TriggerCheck, LoopTicks, BatchBegin, BatchUnlock, SendResult, BatchEnd, Walking
<1>3. ASSUME NEW s \in {"spawned", "lock", "none", "send"}, batch' = [batch EXCEPT ![p].pc = s]
      PROVE  BatchInv'
  <2> DEFINE rec == [batch[p] EXCEPT !.pc = s]
  <2>1. rec.pc \notin Walking /\ DOMAIN rec = DOMAIN NoBatch /\ batch' = [batch EXCEPT ![p] = rec]
    BY <1>0, <1>3 DEF Walking
  <2> HIDE DEF rec
  <2> QED BY <1>1, <1>2, <2>1, BatchMoves
<1>4. CASE SendResult(p)
  <2> DEFINE rec == [batch[p] EXCEPT !.out = @ - 1]
  <2>1. rec.pc \notin Walking /\ DOMAIN rec = DOMAIN NoBatch /\ batch' = [batch EXCEPT ![p] = rec]
    BY <1>0, <1>4 DEF SendResult, Walking
  <2> HIDE DEF rec
  <2> QED BY <1>1, <1>2, <2>1, BatchMoves
<1>5. CASE BatchEnd(p)
  <2>1. NoBatch.pc \notin Walking /\ batch' = [batch EXCEPT ![p] = NoBatch]
    BY <1>5 DEF BatchEnd, NoBatch, Walking
  <2> QED BY <1>1, <1>2, <2>1, BatchMoves
<1>6. CASE UNCHANGED <<batch, creatorQueuesMu>>
  BY <1>0, <1>1, <1>6, BatchUnmoved
<1>7. \/ SendResult(p) \/ BatchEnd(p) \/ UNCHANGED <<batch, creatorQueuesMu>>
      \/ \E s \in {"spawned", "lock", "none", "send"} : batch' = [batch EXCEPT ![p].pc = s]
  BY DEF TriggerCheck, LoopTicks, BatchBegin, BatchUnlock, Spawn
<1> QED BY <1>3, <1>4, <1>5, <1>6, <1>7

(* The processor's invariant, for every order of callers and batches.       *)
THEOREM BatchInvariant == BatchSpec => []BatchInv
<1>1. BatchInit => BatchInv
  <2> SUFFICES ASSUME BatchInit PROVE BatchInv
    OBVIOUS
  <2>1. NoBatch.pc = "none" /\ BatchSize \in Nat
    BY BatchAssumption DEF NoBatch
  <2>2. BatchShape
    BY <2>1 DEF BatchInit, BatchShape
  <2> QED BY <2>1, <2>2 DEF BatchInit, BatchInv, WalkInv, Walking, KnownIsQueued
<1>2. BatchInv /\ [BatchNext]_batchVars => BatchInv'
  <2> USE DEF locks, queues, callers, channel, control
  <2> SUFFICES ASSUME BatchInv, [BatchNext]_batchVars PROVE BatchInv'
    OBVIOUS
  <2>1. batchSize \in Nat
    BY DEF BatchInv, BatchShape
  <2>2. CASE adaptBatchSize
    <3>1. \A a, b \in Nat : Max({a, b}) \in Nat /\ Min({a, b}) \in Nat
      BY DEF Max, Min
    <3>2. (batchSize * 3) \div 4 \in Nat /\ (batchSize * 5) \div 4 \in Nat /\ MinBatchSize \in Nat /\ MaxBatchSize \in Nat
      BY <2>1, BatchAssumption
    <3>3. batchSize' \in Nat
      BY <2>2, <3>1, <3>2 DEF adaptBatchSize
    <3> QED BY <2>2, <3>3, BatchUnmoved DEF adaptBatchSize
  <2>3. CASE \/ StartBatching \/ StopBatching \/ StopBatchingReturns \/ TriggerLock \/ HandleResult
             \/ LoopEnds \/ HandlerEnds \/ UNCHANGED batchVars
    BY <2>1, <2>3, BatchUnmoved DEF StartBatching, StopBatching, StopBatchingReturns, TriggerLock, HandleResult,
                                    LoopEnds, HandlerEnds, batchVars
  <2> QED BY <2>2, <2>3, AddingKeeps, WalkingKeeps, BatchOthersKeep DEF BatchNext, BatchStep
<1> QED BY <1>1, <1>2, PTL DEF BatchSpec

(* An event that AddEvent would ignore is in its creator's queue or on the  *)
(* way to it.                                                               *)
THEOREM IgnoredIsQueued == BatchSpec => []KnownIsQueued
BY BatchInvariant, PTL DEF BatchInv
=============================================================================
