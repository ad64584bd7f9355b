--------------------------- MODULE BatchProcessor ---------------------------
(***************************************************************************)
(* The batch processor (consensus/batch_processor.go) as the hybrid          *)
(* consensus runs it: started and stopped once, grouped by creator.  Events  *)
(* are added by CreateEvent and, as long as they are pending, again and      *)
(* again by processPendingEvents.  A call of AddEvent holds pendingEventsMu  *)
(* while it waits for creatorQueuesMu; a batch holds creatorQueuesMu while   *)
(* it takes pendingEventsMu for every event it removes.                      *)
(*                                                                           *)
(* The priority queue is only ever filled and left out, like what a batch    *)
(* does with its events, which is nothing yet.  Goroutines of one batch      *)
(* differ in the order of their results only.                                *)
(***************************************************************************)
EXTENDS Integers, Sequences, SequencesExt, FiniteSetsExt

CONSTANTS
  Items, ItemCreator, ItemHeight,  \* events
  Adders,                          \* callers of AddEvent
  Batches,                         \* goroutines of processBatch alive at once (a bound)
  BatchSize, MinBatchSize, MaxBatchSize,  \* the first size and the bounds
  Capacity,                        \* of processingResults
  MaxAdded                         \* bound: events appended to pendingEvents

Nobody == "nobody"   \* holds the lock

ASSUME BatchAssumption ==
  /\ MinBatchSize \in Nat \ {0} /\ BatchSize \in MinBatchSize..MaxBatchSize
  /\ MaxBatchSize \in Nat /\ Capacity \in Nat
  /\ Nobody \notin Adders \cup Batches /\ Adders \cap Batches = {}

VARIABLES
  pendingEventsMu, creatorQueuesMu, processingMu,  \* who holds them
  added,             \* length of pendingEvents, from which nothing is removed
  pendingEventsByID, creatorQueues,
  adder,             \* the event an AddEvent call is about to put in a queue
  triggers,          \* goroutines of triggerProcessing waiting for processingMu
  batchSize,
  batch,             \* [pc, todo, rest, of, size, out] of each processBatch
  results, handler,  \* results in the channel; handleResults is alive
  looping,           \* processingLoop is alive
  phase              \* of Start and Stop
locks == <<pendingEventsMu, creatorQueuesMu, processingMu>>
queues == <<added, pendingEventsByID, creatorQueues>>
callers == <<adder, triggers>>
channel == <<results, handler>>
control == <<looping, phase, batchSize>>
batchVars == <<locks, queues, callers, batch, channel, control>>

Creators == {ItemCreator[e] : e \in Items}
NoBatch == [pc |-> "none", todo |-> {}, rest |-> <<>>, of |-> Nobody, size |-> 0, out |-> 0]

BatchInit ==
  /\ pendingEventsMu = Nobody /\ creatorQueuesMu = Nobody /\ processingMu = Nobody
  /\ added = 0 /\ pendingEventsByID = {} /\ creatorQueues = [c \in Creators |-> <<>>]
  /\ adder = [a \in Adders |-> {}] /\ triggers = 0 /\ batchSize = BatchSize
  /\ batch = [p \in Batches |-> NoBatch] /\ results = 0
  /\ handler = FALSE /\ looping = FALSE /\ phase = "new"

----------------------------------------------------------------------------
StartBatching ==
  /\ phase = "new" /\ phase' = "running" /\ looping' = TRUE /\ handler' = TRUE
  /\ UNCHANGED <<locks, queues, callers, batchSize, batch, results>>

\* AddEvent, up to the wait for creatorQueuesMu.  An event it knows it leaves alone.
AddEvent(a, e) ==
  /\ adder[a] = {} /\ pendingEventsMu = Nobody /\ e \notin pendingEventsByID /\ added < MaxAdded
  /\ pendingEventsMu' = a /\ adder' = [adder EXCEPT ![a] = {e}]
  /\ added' = added + 1 /\ pendingEventsByID' = pendingEventsByID \cup {e}
  /\ UNCHANGED <<channel, control, creatorQueuesMu, processingMu, creatorQueues, triggers, batch>>

addToCreatorQueue(a) ==
  /\ creatorQueuesMu = Nobody
  /\ \E e \in adder[a] :
       creatorQueues' = [creatorQueues EXCEPT ![ItemCreator[e]] = Append(@, e)]
  /\ adder' = [adder EXCEPT ![a] = {}] /\ pendingEventsMu' = Nobody
  /\ triggers' = IF added >= batchSize THEN triggers + 1 ELSE triggers
  /\ UNCHANGED <<channel, control, creatorQueuesMu, processingMu, added, pendingEventsByID, batch>>

\* go processBatch()
Spawn(p) == batch[p].pc = "none" /\ batch' = [batch EXCEPT ![p].pc = "spawned"]

\* triggerProcessing waits for pendingEventsMu with processingMu held.
TriggerLock ==
  /\ triggers > 0 /\ processingMu = Nobody
  /\ triggers' = triggers - 1
  /\ processingMu' = IF phase = "running" THEN "trigger" ELSE Nobody
  /\ UNCHANGED <<queues, channel, control, pendingEventsMu, creatorQueuesMu, adder, batch>>

TriggerCheck(p) ==
  /\ processingMu = "trigger" /\ pendingEventsMu = Nobody
  /\ processingMu' = Nobody
  /\ IF added >= batchSize THEN Spawn(p) ELSE UNCHANGED batch
  /\ UNCHANGED <<queues, callers, channel, control, pendingEventsMu, creatorQueuesMu>>

LoopTicks(p) ==
  /\ looping /\ pendingEventsMu = Nobody /\ added > 0
  /\ Spawn(p)
  /\ UNCHANGED <<locks, queues, callers, channel, control>>

adaptBatchSize ==
  /\ looping
  /\ batchSize' \in {Max({(batchSize * 3) \div 4, MinBatchSize}),
                     Min({(batchSize * 5) \div 4, MaxBatchSize})}
  /\ UNCHANGED <<locks, queues, callers, channel, batch, looping, phase>>

\* processBatch joins processingWg unless the processor has been stopped.
BatchBegin(p) ==
  /\ batch[p].pc = "spawned" /\ processingMu = Nobody
  /\ batch' = [batch EXCEPT ![p].pc = IF phase = "running" THEN "lock" ELSE "none"]
  /\ UNCHANGED <<locks, queues, callers, channel, control>>

----------------------------------------------------------------------------
(* createCreatorBasedBatches                                                 *)

BatchLock(p) ==
  /\ batch[p].pc = "lock" /\ creatorQueuesMu = Nobody /\ creatorQueuesMu' = p
  /\ batch' = [batch EXCEPT ![p].pc = "creators", ![p].size = batchSize,
                            ![p].todo = {c \in Creators : creatorQueues[c] # <<>>}]
  /\ UNCHANGED <<queues, callers, channel, control, pendingEventsMu, processingMu>>

\* sort.Slice leaves events of the same height in any order.
SortedByHeight(q) ==
  {s \in {[i \in DOMAIN q |-> q[f[i]]] : f \in Bijection(DOMAIN q, DOMAIN q)} :
     \A i, j \in DOMAIN q : i < j => ItemHeight[s[i]] <= ItemHeight[s[j]]}

\* The queue of a creator, sorted, is cut into batches ...
BatchCreator(p, c) ==
  /\ batch[p].pc = "creators" /\ c \in batch[p].todo
  /\ \E events \in SortedByHeight(creatorQueues[c]) :
        /\ creatorQueues' = [creatorQueues EXCEPT ![c] = events]
        /\ batch' = [batch EXCEPT ![p].pc = "remove", ![p].of = c, ![p].rest = events, ![p].todo = @ \ {c},
                          ![p].out = @ + (Len(events) + batch[p].size - 1) \div batch[p].size]
  /\ UNCHANGED <<locks, callers, channel, control, added, pendingEventsByID>>

\* Bug: a batched event stays known.
removeEvent_Forgotten(p) ==
  /\ batch[p].pc = "remove" /\ batch[p].rest # <<>> /\ pendingEventsMu = Nobody
  /\ batch' = [batch EXCEPT ![p].rest = Tail(@)]
  /\ UNCHANGED <<locks, queues, callers, channel, control>>

\* ... each event of which is removed under a lock of its own ...
removeEvent(p) ==
  /\ batch[p].pc = "remove" /\ batch[p].rest # <<>> /\ pendingEventsMu = Nobody
  /\ batch' = [batch EXCEPT ![p].rest = Tail(@)]
  /\ pendingEventsByID' = pendingEventsByID \ {Head(batch[p].rest)}
  /\ UNCHANGED <<locks, callers, channel, control, added, creatorQueues>>

\* ... and what is beyond the first batch stays in the queue although it was batched.
BatchUpdate(p) ==
  /\ batch[p].pc = "remove" /\ batch[p].rest = <<>>
  /\ creatorQueues' = [creatorQueues EXCEPT ![batch[p].of] = SubSeq(@, batch[p].size + 1, Len(@))]
  /\ batch' = [batch EXCEPT ![p].pc = "creators", ![p].of = Nobody]
  /\ UNCHANGED <<locks, callers, channel, control, added, pendingEventsByID>>

\* Bug: without batches it returns before processingWg.Done is deferred.
BatchUnlock_Leaks(p) ==
  /\ batch[p].pc = "creators" /\ batch[p].todo = {} /\ creatorQueuesMu' = Nobody
  /\ batch' = [batch EXCEPT ![p].pc = IF batch[p].out = 0 THEN "leaked" ELSE "send"]
  /\ UNCHANGED <<queues, callers, channel, control, pendingEventsMu, processingMu>>

BatchUnlock(p) ==
  /\ batch[p].pc = "creators" /\ batch[p].todo = {} /\ creatorQueuesMu' = Nobody
  /\ batch' = [batch EXCEPT ![p].pc = "send"]
  /\ UNCHANGED <<queues, callers, channel, control, pendingEventsMu, processingMu>>

----------------------------------------------------------------------------
\* A batch has been processed, its result goes into the channel when there is room.
SendResult(p) ==
  /\ batch[p].pc = "send" /\ batch[p].out > 0 /\ results < Capacity
  /\ results' = results + 1 /\ batch' = [batch EXCEPT ![p].out = @ - 1]
  /\ UNCHANGED <<locks, queues, callers, control, handler>>

\* processingWg.Done
BatchEnd(p) ==
  /\ batch[p].pc = "send" /\ batch[p].out = 0
  /\ batch' = [batch EXCEPT ![p] = NoBatch]
  /\ UNCHANGED <<locks, queues, callers, channel, control>>

HandleResult ==
  /\ handler /\ results > 0 /\ results' = results - 1
  /\ UNCHANGED <<locks, queues, callers, control, batch, handler>>

\* stopChan is closed: the two loops return, when they come to it.
LoopEnds ==
  /\ phase \in {"stopping", "stopped"} /\ looping /\ looping' = FALSE
  /\ UNCHANGED <<locks, queues, callers, batch, channel, batchSize, phase>>

HandlerEnds ==
  /\ phase \in {"stopping", "stopped"} /\ handler /\ handler' = FALSE
  /\ UNCHANGED <<locks, queues, callers, batch, control, results>>

\* Stop waits for the batches with processingMu held.
StopBatching ==
  /\ phase = "running" /\ processingMu = Nobody
  /\ phase' = "stopping" /\ processingMu' = "stop"
  /\ UNCHANGED <<queues, callers, channel, pendingEventsMu, creatorQueuesMu, batchSize, batch, looping>>

Counted(p) == batch[p].pc \notin {"none", "spawned"}

StopBatchingReturns ==
  /\ phase = "stopping" /\ \A p \in Batches : ~Counted(p)
  /\ phase' = "stopped" /\ processingMu' = Nobody
  /\ UNCHANGED <<queues, callers, channel, pendingEventsMu, creatorQueuesMu, batchSize, batch, looping>>

BatchStep(p) ==
  \/ BatchBegin(p) \/ BatchLock(p) \/ \E c \in Creators : BatchCreator(p, c)
  \/ removeEvent(p) \/ BatchUpdate(p) \/ BatchUnlock(p) \/ SendResult(p) \/ BatchEnd(p)

BatchNext ==
  \/ StartBatching \/ StopBatching \/ StopBatchingReturns
  \/ \E a \in Adders : addToCreatorQueue(a) \/ \E e \in Items : AddEvent(a, e)
  \/ TriggerLock \/ adaptBatchSize \/ HandleResult \/ LoopEnds \/ HandlerEnds
  \/ \E p \in Batches : TriggerCheck(p) \/ LoopTicks(p) \/ BatchStep(p)

\* Goroutines that are not blocked run on.
BatchFairness ==
  /\ WF_batchVars(StopBatchingReturns) /\ WF_batchVars(HandleResult \/ HandlerEnds)
  /\ \A a \in Adders : WF_batchVars(addToCreatorQueue(a))
  /\ \A p \in Batches : WF_batchVars(BatchStep(p))

BatchSpec == BatchInit /\ [][BatchNext]_batchVars /\ BatchFairness

----------------------------------------------------------------------------
\* AddEvent ignores an event that pendingEventsByID has, so that one must have
\* its place in the queue of its creator, or be on the way to it: otherwise it
\* would never be batched again.
KnownIsQueued ==
  \A e \in pendingEventsByID :
    \/ e \in ToSet(creatorQueues[ItemCreator[e]])
    \/ \E a \in Adders : adder[a] = {e}

\* Two holders of the two locks, each waiting for the other one's.
Embraced ==
  /\ pendingEventsMu \in Adders
  /\ \E p \in Batches : creatorQueuesMu = p /\ batch[p].pc = "remove" /\ batch[p].rest # <<>>

\* Stop returns, unless an AddEvent and a batch block each other or nobody is left
\* to empty a channel of results that is full.
StopReturnsUnlessStuck ==
  phase = "stopping" ~> (phase = "stopped" \/ Embraced \/ (results = Capacity /\ ~handler))
=============================================================================
