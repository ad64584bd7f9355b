----------------------------- MODULE EventFlow -----------------------------
(***************************************************************************)
(* The EventFlowManager (consensus/event_flow.go): it creates events in     *)
(* Lachesis, tracks them while they are pending and moves them to its       *)
(* finalized map when HybridConsensus.FinalizeEvent says so.  Every event   *)
(* is tried by a goroutine of its own with a timeout, by the worker of the  *)
(* manager every 100 ms and by applyBlock, while Lachesis finalizes events  *)
(* on its own (module Lachesis), here the action LachesisFinalizes.         *)
(* RewardEventFinalization counts in the validator manager, or fails and is *)
(* logged; it changes nothing that is kept here, so only its place in the   *)
(* control is modelled.  Batch sizes, metrics and log lines are left out.   *)
(***************************************************************************)
EXTENDS Integers, FiniteSets

CONSTANTS
  Events,       \* events this node creates or hears of
  Elsewhere,    \* those that were created elsewhere
  Height,       \* the height the DAG gives to each event
  Partitions,   \* calls of HandleNetworkPartition that may run at a time
  Local,        \* stands for the CreateEvent calls, among those that track events
  Workers,      \* goroutines that run processPendingEvents
  Ticker,       \* the one of them that finalizationWorker runs
  MaxPending,   \* maxPendingEvents
  MaxRetries,   \* maxRetries
  CleanupHeights \* heights CleanupOldEvents is called with

ASSUME SetsAssumption ==
  /\ (({Local} \cup Partitions) \X Events) \cap Workers = {} /\ Ticker \in Workers
  /\ IsFiniteSet(Events) /\ Elsewhere \subseteq Events
ASSUME BoundsAssumption ==
  /\ MaxPending \in Nat \ {0}
  /\ MaxRetries \in Nat /\ MaxRetries > 1
ASSUME HeightAssumption == Height \in [Events -> Nat] /\ CleanupHeights \subseteq Nat

VARIABLES
  create,             \* progress of the CreateEvent call for an event
  inDAG,              \* events Lachesis knows
  finalizedFlag,      \* events whose field Finalized is set
  pendingEvents, finalizedEvents, eventCreationTime,
  eventsByHeight,     \* the events its lists hold
  eventRetryCount,    \* NoEntry when the map has no entry
  attempt,            \* progress of the goroutine finalizeEvent started for an event by a tracker
  call,               \* progress of the FinalizeEvent call of its inner goroutine, or of a worker
  worker,             \* [pc, todo, ev] of each run of processPendingEvents
  partition,          \* [pc, todo, ev] of each call of HandleNetworkPartition
  stopped             \* the context is cancelled
maps == <<pendingEvents, finalizedEvents, eventCreationTime, eventsByHeight, eventRetryCount>>
vars == <<create, inDAG, finalizedFlag, maps, attempt, call, worker, partition, stopped>>

NoEntry == -1
Trackers == {Local} \cup Partitions
Attempts == Trackers \X Events
Actors == Attempts \cup Workers
Idle == [pc |-> "idle", todo |-> {}, ev |-> {}]
Lowest(S) == {e \in S : \A f \in S : Height[e] <= Height[f]}

\* An event created elsewhere is in the DAG without this manager.
Init ==
  /\ create = [e \in Events |-> IF e \in Elsewhere THEN "elsewhere" ELSE "new"]
  /\ inDAG = Elsewhere /\ finalizedFlag = {}
  /\ pendingEvents = {} /\ finalizedEvents = {} /\ eventCreationTime = {}
  /\ eventsByHeight = {} /\ eventRetryCount = [e \in Events |-> NoEntry]
  /\ attempt = [g \in Attempts |-> "none"] /\ call = [a \in Actors |-> "none"]
  /\ worker = [w \in Workers |-> Idle] /\ partition = [p \in Partitions |-> Idle]
  /\ stopped = FALSE

-----------------------------------------------------------------------------
(* Tracking a new event.                                                   *)

\* The limit is read under a lock that is given up before the event is tracked.
CreateCheck(e) ==
  /\ create[e] = "new"
  /\ \/ /\ Cardinality(pendingEvents) < MaxPending
        /\ create' = [create EXCEPT ![e] = "checked"]
     \/ create' = [create EXCEPT ![e] = "refused"]     \* the limit, or an inactive creator
  /\ UNCHANGED <<inDAG, finalizedFlag, maps, attempt, call, worker, partition, stopped>>

CreateInLachesis(e) ==
  /\ create[e] = "checked"
  /\ \/ create' = [create EXCEPT ![e] = "made"] /\ inDAG' = inDAG \cup {e}
     \/ create' = [create EXCEPT ![e] = "refused"] /\ inDAG' = inDAG
  /\ UNCHANGED <<finalizedFlag, maps, attempt, call, worker, partition, stopped>>

\* ValidateEvent, under a lock given up before the event is tracked; "duplicate
\* event" is never the whole text of the error, so a duplicate fails as any other
\* invalid event.
Duplicate(e) == e \in pendingEvents \/ e \in finalizedEvents

CreateValidate(e) ==
  /\ create[e] = "made"
  /\ \/ ~Duplicate(e) /\ create' = [create EXCEPT ![e] = "valid"]
     \/ create' = [create EXCEPT ![e] = "refused"]
  /\ UNCHANGED <<inDAG, finalizedFlag, maps, attempt, call, worker, partition, stopped>>

\* Enters the maps and starts finalizeEvent with its inner goroutine, whatever
\* has become of the event since it was validated.
Track(t, e) ==
  /\ pendingEvents' = pendingEvents \cup {e}
  /\ eventCreationTime' = eventCreationTime \cup {e}
  /\ eventsByHeight' = eventsByHeight \cup {e}
  /\ eventRetryCount' = [eventRetryCount EXCEPT ![e] = 0]
  /\ attempt' = [attempt EXCEPT ![<<t, e>>] = "select"]
  /\ call' = [call EXCEPT ![<<t, e>>] = "start"]
  /\ UNCHANGED finalizedEvents

CreateTrack(e) ==
  /\ create[e] = "valid" /\ create' = [create EXCEPT ![e] = "tracked"] /\ Track(Local, e)
  /\ UNCHANGED <<inDAG, finalizedFlag, worker, partition, stopped>>

\* The other partition may know every event of the DAG, from its creation on.
\* Bound: the goroutines of the earlier calls of this name are over.
Shared(p) == {e \in inDAG : attempt[<<p, e>>] \in {"none", "done"} /\ call[<<p, e>>] = "none"}

PartitionBegin(p) ==
  /\ partition[p].pc = "idle"
  /\ \E S \in SUBSET Shared(p) \ {{}} :
       partition' = [partition EXCEPT ![p] = [pc |-> "next", todo |-> S, ev |-> {}]]
  /\ UNCHANGED <<create, inDAG, finalizedFlag, maps, attempt, call, worker, stopped>>

\* Takes the lowest event left; one that is final already is skipped.
PartitionNext(p) ==
  /\ partition[p].pc = "next"
  /\ \/ \E e \in Lowest(partition[p].todo) :
          \/ e \in finalizedFlag /\ partition' = [partition EXCEPT ![p].todo = @ \ {e}]
          \/ /\ e \notin finalizedFlag
             /\ partition' = [partition EXCEPT ![p] = [pc |-> "validate", todo |-> @.todo \ {e}, ev |-> {e}]]
     \/ partition[p].todo = {} /\ partition' = [partition EXCEPT ![p] = Idle]
  /\ UNCHANGED <<create, inDAG, finalizedFlag, maps, attempt, call, worker, stopped>>

\* An invalid event is left out.
PartitionValidate(p) ==
  /\ partition[p].pc = "validate"
  /\ \/ (\A e \in partition[p].ev : ~Duplicate(e)) /\ partition' = [partition EXCEPT ![p].pc = "track"]
     \/ partition' = [partition EXCEPT ![p].pc = "next", ![p].ev = {}]
  /\ UNCHANGED <<create, inDAG, finalizedFlag, maps, attempt, call, worker, stopped>>

PartitionTrack(p) ==
  /\ partition[p].pc = "track"
  /\ \E e \in partition[p].ev : Track(p, e)
  /\ partition' = [partition EXCEPT ![p].pc = "next", ![p].ev = {}]
  /\ UNCHANGED <<create, inDAG, finalizedFlag, worker, stopped>>

-----------------------------------------------------------------------------
(* HybridConsensus.FinalizeEvent, called by the inner goroutine of an event *)
(* and by the workers.                                                     *)

EventOf(a) == IF a \in Workers THEN worker[a].ev ELSE {a[2]}

\* An answer nobody waits for any more stays in the buffered channel.
Answer(a, result) == [call EXCEPT ![a] = IF a \in Attempts /\ attempt[a] = "done" THEN "none" ELSE result]

FinalizeStart(a) ==
  /\ call[a] = "start"
  /\ call' = IF EventOf(a) \subseteq finalizedFlag THEN Answer(a, "yes") ELSE [call EXCEPT ![a] = "vote"]
  /\ UNCHANGED <<create, inDAG, finalizedFlag, maps, attempt, worker, partition, stopped>>

\* Lachesis.ProcessEvent succeeds and the event is marked.
FinalizeAccept(a) ==
  /\ call[a] = "vote"
  /\ finalizedFlag' = finalizedFlag \cup EventOf(a)
  /\ call' = [call EXCEPT ![a] = "reward"]
  /\ UNCHANGED <<create, inDAG, maps, attempt, worker, partition, stopped>>

\* RewardEventFinalization returns, with an error or without.
FinalizeReward(a) ==
  /\ call[a] = "reward"
  /\ call' = Answer(a, "yes")
  /\ UNCHANGED <<create, inDAG, finalizedFlag, maps, attempt, worker, partition, stopped>>

\* The PoH data does not verify, the creator is not active or the vote fails.
FinalizeRefuse(a) ==
  /\ call[a] = "vote"
  /\ call' = Answer(a, "no")
  /\ UNCHANGED <<create, inDAG, finalizedFlag, maps, attempt, worker, partition, stopped>>

\* The goroutine CreateEvent starts and the loop of Lachesis.
LachesisFinalizes(e) ==
  /\ e \in inDAG \ finalizedFlag
  /\ finalizedFlag' = finalizedFlag \cup {e}
  /\ UNCHANGED <<create, inDAG, maps, attempt, call, worker, partition, stopped>>

-----------------------------------------------------------------------------
(* handleFinalizedEvent and the two goroutines that call it.               *)

\* Bug: an event of the finalized map is taken for one that was handled before.
handleFinalizedEvent_Once(e) ==
  /\ pendingEvents' = IF e \in finalizedEvents THEN pendingEvents ELSE pendingEvents \ {e}
  /\ eventCreationTime' = eventCreationTime \ {e}
  /\ eventRetryCount' = [eventRetryCount EXCEPT ![e] = NoEntry]
  /\ finalizedEvents' = finalizedEvents \cup {e}
  /\ UNCHANGED eventsByHeight

\* Its part under the lock; the reward follows, in a step of its own.
handleFinalizedEvent(e) ==
  /\ pendingEvents' = pendingEvents \ {e}
  /\ eventCreationTime' = eventCreationTime \ {e}
  /\ eventRetryCount' = [eventRetryCount EXCEPT ![e] = NoEntry]
  /\ finalizedEvents' = finalizedEvents \cup {e}
  /\ UNCHANGED eventsByHeight

\* Bug: an event that is not final at once is given up.
CountRetry_GivesUp(e) ==
  /\ pendingEvents' = pendingEvents \ {e}
  /\ eventRetryCount' = [eventRetryCount EXCEPT ![e] = IF @ = NoEntry THEN 1 ELSE @ + 1]
  /\ UNCHANGED <<finalizedEvents, eventCreationTime, eventsByHeight>>

\* A missing entry counts as zero.
CountRetry(e) ==
  /\ eventRetryCount' = [eventRetryCount EXCEPT ![e] = IF @ = NoEntry THEN 1 ELSE @ + 1]
  /\ UNCHANGED <<pendingEvents, finalizedEvents, eventCreationTime, eventsByHeight>>

AttemptResult(t, e) ==
  LET g == <<t, e>>
  IN /\ attempt[g] = "select" /\ call[g] \in {"yes", "no"}
     /\ \/ call[g] = "yes" /\ handleFinalizedEvent(e) /\ attempt' = [attempt EXCEPT ![g] = "reward"]
        \/ call[g] = "no" /\ CountRetry(e) /\ attempt' = [attempt EXCEPT ![g] = "done"]
     /\ call' = [call EXCEPT ![g] = "none"]
     /\ UNCHANGED <<create, inDAG, finalizedFlag, worker, partition, stopped>>

\* RewardEventFinalization returns, with an error or without.
AttemptReward(t, e) ==
  /\ attempt[<<t, e>>] = "reward" /\ attempt' = [attempt EXCEPT ![<<t, e>>] = "done"]
  /\ UNCHANGED <<create, inDAG, finalizedFlag, maps, call, worker, partition, stopped>>

\* Bug: the goroutine waits for the answer however long it takes.
AttemptTimeout_OnlyAnswer(t, e) ==
  /\ attempt[<<t, e>>] = "select" /\ call[<<t, e>>] = "no" /\ CountRetry(e)
  /\ attempt' = [attempt EXCEPT ![<<t, e>>] = "done"]
  /\ call' = [call EXCEPT ![<<t, e>>] = "none"]
  /\ UNCHANGED <<create, inDAG, finalizedFlag, worker, partition, stopped>>

\* The context ends, by the timeout or by Stop; the inner goroutine goes on.
AttemptTimeout(t, e) ==
  /\ attempt[<<t, e>>] = "select" /\ CountRetry(e)
  /\ attempt' = [attempt EXCEPT ![<<t, e>>] = "done"]
  /\ call' = [call EXCEPT ![<<t, e>>] = IF @ \in {"yes", "no"} THEN "none" ELSE @]
  /\ UNCHANGED <<create, inDAG, finalizedFlag, worker, partition, stopped>>

\* finalizationWorker ends with the context; applyBlock does not look at it.
WorkerSnapshot(w) ==
  /\ worker[w].pc = "idle" /\ (w = Ticker => ~stopped)
  /\ worker' = [worker EXCEPT ![w] = [pc |-> "scan", todo |-> pendingEvents, ev |-> {}]]
  /\ UNCHANGED <<create, inDAG, finalizedFlag, maps, attempt, call, partition, stopped>>

Skipped(e) == e \in finalizedFlag \/ eventRetryCount[e] >= MaxRetries

WorkerNext(w) ==
  /\ worker[w].pc = "scan"
  /\ \/ \E e \in Lowest(worker[w].todo) :
          \/ Skipped(e) /\ worker' = [worker EXCEPT ![w].todo = @ \ {e}] /\ UNCHANGED call
          \/ /\ ~Skipped(e)
             /\ worker' = [worker EXCEPT ![w] = [pc |-> "wait", todo |-> @.todo \ {e}, ev |-> {e}]]
             /\ call' = [call EXCEPT ![w] = "start"]
     \/ worker[w].todo = {} /\ worker' = [worker EXCEPT ![w] = Idle] /\ UNCHANGED call
  /\ UNCHANGED <<create, inDAG, finalizedFlag, maps, attempt, partition, stopped>>

WorkerResult(w) ==
  /\ worker[w].pc = "wait" /\ call[w] \in {"yes", "no"}
  /\ \/ /\ call[w] = "yes" /\ \E e \in worker[w].ev : handleFinalizedEvent(e)
        /\ worker' = [worker EXCEPT ![w].pc = "reward"]
     \/ /\ call[w] = "no" /\ UNCHANGED maps
        /\ worker' = [worker EXCEPT ![w].pc = "scan", ![w].ev = {}]
  /\ call' = [call EXCEPT ![w] = "none"]
  /\ UNCHANGED <<create, inDAG, finalizedFlag, attempt, partition, stopped>>

WorkerReward(w) ==
  /\ worker[w].pc = "reward" /\ worker' = [worker EXCEPT ![w].pc = "scan", ![w].ev = {}]
  /\ UNCHANGED <<create, inDAG, finalizedFlag, maps, attempt, call, partition, stopped>>

\* The list of a height goes away whole, pending events included.
CleanupOldEvents(h) ==
  LET old == {e \in eventsByHeight : Height[e] < h}
      gone == old \cap finalizedFlag
  IN /\ old # {}
     /\ finalizedEvents' = finalizedEvents \ gone
     /\ eventCreationTime' = eventCreationTime \ gone
     /\ eventRetryCount' = [e \in Events |-> IF e \in gone THEN NoEntry ELSE eventRetryCount[e]]
     /\ eventsByHeight' = eventsByHeight \ old
     /\ UNCHANGED <<create, inDAG, finalizedFlag, pendingEvents, attempt, call, worker, partition, stopped>>

Stop ==
  /\ ~stopped /\ stopped' = TRUE
  /\ UNCHANGED <<create, inDAG, finalizedFlag, maps, attempt, call, worker, partition>>

-----------------------------------------------------------------------------
Create(e) == CreateCheck(e) \/ CreateInLachesis(e) \/ CreateValidate(e) \/ CreateTrack(e)
Partition(p) == PartitionBegin(p) \/ PartitionNext(p) \/ PartitionValidate(p) \/ PartitionTrack(p)
Finalize(a) == FinalizeStart(a) \/ FinalizeAccept(a) \/ FinalizeReward(a) \/ FinalizeRefuse(a)
Attempt(t, e) == AttemptResult(t, e) \/ AttemptReward(t, e) \/ AttemptTimeout(t, e)
Work(w) == WorkerSnapshot(w) \/ WorkerNext(w) \/ WorkerResult(w) \/ WorkerReward(w)

Next ==
  \/ \E e \in Events : Create(e)
  \/ \E p \in Partitions : Partition(p)
  \/ \E a \in Actors : Finalize(a)
  \/ \E e \in Events : LachesisFinalizes(e)
  \/ \E t \in Trackers, e \in Events : Attempt(t, e)
  \/ \E h \in CleanupHeights : CleanupOldEvents(h)
  \/ \E w \in Workers : Work(w)
  \/ Stop

Spec == Init /\ [][Next]_vars

\* The goroutines of finalizeEvent are scheduled, their timers fire and the
\* validator manager answers; nothing is assumed of callers, or of Lachesis,
\* which may never answer.
FlowFairness == \A t \in Trackers, e \in Events : WF_vars(Attempt(t, e))
FairSpec == Spec /\ FlowFairness

-----------------------------------------------------------------------------
\* Type correctness.
TypeOK ==
  /\ create \in [Events -> {"new", "checked", "made", "valid", "tracked", "refused", "elsewhere"}]
  /\ pendingEvents \subseteq Events /\ finalizedEvents \subseteq Events
  /\ eventCreationTime \subseteq Events /\ eventsByHeight \subseteq Events
  /\ inDAG \subseteq Events /\ finalizedFlag \subseteq Events
  /\ eventRetryCount \in [Events -> Nat \cup {NoEntry}]
  /\ attempt \in [Attempts -> {"none", "select", "reward", "done"}]
  /\ call \in [Actors -> {"none", "start", "vote", "reward", "yes", "no"}]
  /\ worker \in [Workers -> [pc : {"idle", "scan", "wait", "reward"},
                             todo : SUBSET Events, ev : SUBSET Events]]
  /\ partition \in [Partitions -> [pc : {"idle", "next", "validate", "track"},
                                   todo : SUBSET Events, ev : SUBSET Events]]
  /\ stopped \in BOOLEAN

\* An event that was tracked is not dropped before it is final, whatever its
\* attempts, the workers, partitions and the clean-up do.
NoEventDropped ==
  \A t \in Trackers, e \in Events :
    attempt[<<t, e>>] # "none" /\ e \notin finalizedFlag => e \in pendingEvents

\* A call that validated an event before another one tracked it and had it
\* finalized tracks it again, so an event may be in both maps.  It is there only
\* while a goroutine of finalizeEvent is still to answer for it, or when one of
\* them was counted as a retry, which is when it is left to the worker.
InBothIsTried ==
  \A e \in pendingEvents \cap finalizedEvents :
    (\E t \in Trackers : attempt[<<t, e>>] = "select") \/ eventRetryCount[e] > 0

\* Stop waits for the goroutines of finalizeEvent, and all of them end even when
\* Lachesis never answers.
StopReturns == stopped ~> \A g \in Attempts : attempt[g] \in {"none", "done"}
=============================================================================
