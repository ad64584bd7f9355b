-------------------------- MODULE HybridConsensus --------------------------
(***************************************************************************)
(* Block production and recovery in consensus/diamantehybrid.go, with the   *)
(* RecoveryManager and the counter of PoH.  The production loop starts a    *)
(* goroutine per block and gives it up after five seconds, while the        *)
(* goroutine goes on: several calls of ProcessBlock run at the same time.    *)
(* Production mode.  Nothing but applyBlock fills hc.pendingEvents, from    *)
(* blocks made of it, so blocks have no events and applyBlock cannot fail.   *)
(* The states of Lachesis and DPoS are opaque versions; Torn stands for what *)
(* a RestoreState that fails half-way leaves.                               *)
(***************************************************************************)
EXTENDS Integers, FiniteSets, FiniteSetsExt

CONSTANTS
  W,             \* goroutines of ProcessBlock alive at the same time (a bound)
  Interval,      \* CheckpointInterval and cfg.CheckpointInterval
  EpochDuration, \* cfg.EpochDuration
  MaxErrors,     \* maxConsecutiveErrors
  MaxAttempts,   \* bound: blocks the loop tries
  MaxTicks,      \* bound: ticks of PoH
  MaxChanges,    \* bound: changes of Lachesis or DPoS from outside
  MaxStarts      \* bound: calls of Start

ASSUME PeriodAssumption == Interval \in Nat \ {0} /\ EpochDuration \in Nat \ {0}
ASSUME LimitAssumption == MaxErrors \in Nat \ {0}
ASSUME LoopAssumption == "loop" \notin W /\ "none" \notin W

VARIABLES
  running, starts, once,    \* running; calls of Start; stopOnce has been used
  height,                   \* lastBlockHeight
  applied,                  \* block numbers with an entry in finalizedEvents
  poh, ticks,               \* PoH.count; how many ticks there were
  lach, dpos, version,      \* states of Lachesis and DPoS, the last one given out
  checkpoints, lastCheckpoint, \* by block number; the number of the last one
  stuck,                    \* a goroutine waits for checkpointsMu, which it holds
  jammed,                   \* two calls of DPoS wait for each other's lock
  loop, attempts,           \* the production loop; blocks it has tried
  worker,                   \* the goroutines of ProcessBlock
  rec                       \* recoverFromError in progress, by caller
lifeVars == <<running, starts, once>>
chainVars == <<height, applied>>
stateVars == <<lach, dpos, version>>
ckVars == <<checkpoints, lastCheckpoint, stuck, jammed>>
vars == <<lifeVars, chainVars, poh, ticks, stateVars, ckVars, loop, attempts, worker, rec>>

Actors == W \cup {"loop"}
None == "none"
Torn == -1
NoBackup == -2
Idle == [pc |-> "idle", bn |-> 0, lach |-> 0, result |-> TRUE]
NoCheckpoint == [block |-> 0, lach |-> 0, dpos |-> 0, poh |-> 0]
NoRecovery ==
  [pc |-> "none", ck |-> NoCheckpoint, lach |-> NoBackup, dpos |-> NoBackup, lost |-> {}, quiet |-> TRUE]

Init ==
  /\ running = FALSE /\ starts = 0 /\ once = FALSE
  /\ height = 0 /\ applied = {} /\ poh = 0 /\ ticks = 0
  /\ lach = 0 /\ dpos = 0 /\ version = 0
  /\ checkpoints = [n \in {} |-> NoCheckpoint] /\ lastCheckpoint = 0
  /\ stuck = FALSE /\ jammed = FALSE
  /\ loop = [pc |-> "none", w |-> None, errors |-> 0] /\ attempts = 0
  /\ worker = [w \in W |-> Idle] /\ rec = [a \in Actors |-> NoRecovery]

\* A recovery is quiet while nobody else changes what it saves and restores.
Disturb(a) ==
  [b \in Actors |-> IF b # a /\ rec[b].pc # "none" THEN [rec[b] EXCEPT !.quiet = FALSE] ELSE rec[b]]

-----------------------------------------------------------------------------
(* The life of the consensus, PoH and what happens outside.                 *)

\* startOnce starts the loops at the first call only.
Start ==
  /\ ~running /\ starts < MaxStarts
  /\ running' = TRUE /\ starts' = starts + 1
  /\ loop' = IF starts = 0 THEN [loop EXCEPT !.pc = "select"] ELSE loop
  /\ UNCHANGED <<once, chainVars, poh, ticks, stateVars, ckVars, attempts, worker, rec>>

\* stopOnce: after a second Start, Stop returns without doing anything.
Stop ==
  /\ running /\ ~once
  /\ running' = FALSE /\ once' = TRUE
  /\ UNCHANGED <<starts, chainVars, poh, ticks, stateVars, ckVars, loop, attempts, worker, rec>>

\* startPoH; the last tick and the end of the loop may come in either order.
Tick ==
  /\ starts > 0 /\ ticks < MaxTicks
  /\ poh' = poh + 1 /\ ticks' = ticks + 1
  /\ UNCHANGED <<lifeVars, chainVars, stateVars, ckVars, loop, attempts, worker, rec>>

\* Events reach Lachesis and stakes reach DPoS at any time.
Outside ==
  /\ version < MaxChanges /\ version' = version + 1
  /\ \/ lach' = version' /\ UNCHANGED dpos
     \/ ~jammed /\ dpos' = version' /\ UNCHANGED lach
  /\ rec' = Disturb(None)
  /\ UNCHANGED <<lifeVars, chainVars, poh, ticks, ckVars, loop, attempts, worker>>

-----------------------------------------------------------------------------
(* startBlockProduction.                                                   *)

\* A tick of the loop with the number of the next block; which name the goroutine
\* gets does not matter.
LoopSpawn ==
  LET w == CHOOSE w \in W : worker[w] = Idle
  IN /\ loop.pc = "select" /\ running /\ attempts < MaxAttempts /\ \E u \in W : worker[u] = Idle
     /\ attempts' = attempts + 1
     /\ worker' = [worker EXCEPT ![w] = [Idle EXCEPT !.pc = "start", !.bn = height + 1]]
     /\ loop' = [loop EXCEPT !.pc = "wait", !.w = w]
     /\ UNCHANGED <<lifeVars, chainVars, poh, ticks, stateVars, ckVars, rec>>

\* Bug: the loop waits for the goroutine for as long as it takes.
LoopTimeout_Never == FALSE /\ UNCHANGED vars

\* A result that comes at the same time may be left in the channel.
LoopTimeout ==
  /\ loop.pc = "wait"
  /\ loop' = [pc |-> "select", w |-> None, errors |-> Min({loop.errors + 1, MaxErrors})]
  /\ worker' = [worker EXCEPT ![loop.w] = IF @.pc = "done" THEN Idle ELSE @]
  /\ UNCHANGED <<lifeVars, chainVars, poh, ticks, stateVars, ckVars, attempts, rec>>

LoopResult ==
  /\ loop.pc = "wait" /\ worker[loop.w].pc = "done"
  /\ LET errors == IF worker[loop.w].result THEN 0 ELSE Min({loop.errors + 1, MaxErrors})
     IN loop' = [pc |-> IF errors = MaxErrors THEN "recover" ELSE "select", w |-> None, errors |-> errors]
  /\ worker' = [worker EXCEPT ![loop.w] = Idle]
  /\ UNCHANGED <<lifeVars, chainVars, poh, ticks, stateVars, ckVars, attempts, rec>>

\* stopChan, the context and IsRunning say the same.
LoopExit ==
  /\ loop.pc = "select" /\ ~running
  /\ loop' = [loop EXCEPT !.pc = "exited"]
  /\ UNCHANGED <<lifeVars, chainVars, poh, ticks, stateVars, ckVars, attempts, worker, rec>>

-----------------------------------------------------------------------------
(* ProcessBlock.                                                           *)

Go(w, pc) == worker' = [worker EXCEPT ![w].pc = pc]

Result(ok) == [pc |-> "done", bn |-> 0, lach |-> 0, result |-> ok]

\* The result of a goroutine the loop has given up is lost.
Return(w, ok) == worker' = [worker EXCEPT ![w] = IF loop.w = w THEN Result(ok) ELSE Idle]

\* The check for gaps; HasCheckpoint takes checkpointsMu.
WorkerStart(w) ==
  /\ worker[w].pc = "start"
  /\ \/ ~running /\ Return(w, FALSE)
     \/ running /\ worker[w].bn <= height + 1 /\ Go(w, "produce")
     \/ /\ running /\ worker[w].bn > height + 1 /\ ~stuck
        /\ IF worker[w].bn - 1 \in DOMAIN checkpoints THEN Go(w, "handle") ELSE Return(w, FALSE)
  /\ UNCHANGED <<lifeVars, chainVars, poh, ticks, stateVars, ckVars, loop, attempts, rec>>

\* HandleError of the RecoveryManager recovers from the last checkpoint until its
\* attempts are used up.
HandleError(w) ==
  /\ worker[w].pc = "handle"
  /\ Go(w, "recover") \/ Return(w, FALSE)
  /\ UNCHANGED <<lifeVars, chainVars, poh, ticks, stateVars, ckVars, loop, attempts, rec>>

WorkerRecovered(w) ==
  /\ worker[w].pc = "recover" /\ rec[w].pc \in {"ok", "failed"}
  /\ rec' = [rec EXCEPT ![w] = NoRecovery]
  /\ \/ rec[w].pc = "ok" /\ Go(w, "produce")
     \/ Return(w, FALSE)   \* also when verifySystemConsistency objects
  /\ UNCHANGED <<lifeVars, chainVars, poh, ticks, stateVars, ckVars, loop, attempts>>

\* ProcessEpoch of the ValidatorManager and of DPoS, which takes its locks away
\* from a boundary too, comes before the producer is chosen, there may be none, ...
ProcessEpoch(w) ==
  /\ ~jammed
  /\ IF worker[w].bn % EpochDuration = 0
     THEN version' = version + 1 /\ dpos' = version' /\ rec' = Disturb(w)
     ELSE UNCHANGED <<version, dpos, rec>>
  /\ UNCHANGED <<lifeVars, chainVars, lach, ckVars, loop, attempts>>

WorkerNoProducer(w) ==
  /\ worker[w].pc = "produce" /\ ProcessEpoch(w) /\ Return(w, FALSE)
  /\ UNCHANGED <<poh, ticks>>

\* ... and produceBlock records the block in PoH.  A tick that is due comes first,
\* which is Tick.
WorkerProduce(w) ==
  /\ worker[w].pc = "produce" /\ ProcessEpoch(w) /\ Go(w, "validate")
  /\ poh' = poh + 1 /\ UNCHANGED ticks

WorkerValidate(w) ==
  /\ worker[w].pc = "validate"
  /\ IF worker[w].bn = height + 1 THEN Go(w, "apply") ELSE Return(w, FALSE)
  /\ UNCHANGED <<lifeVars, chainVars, poh, ticks, stateVars, ckVars, loop, attempts, rec>>

AfterApply(w) ==
  /\ applied' = applied \cup {worker[w].bn}
  /\ IF worker[w].bn % Interval = 0 THEN Go(w, "getLachesis") ELSE Return(w, TRUE)
  /\ UNCHANGED <<lifeVars, poh, ticks, stateVars, ckVars, loop, attempts, rec>>

\* Bug: the height is counted up instead of set.
WorkerApply_Increments(w) == worker[w].pc = "apply" /\ height' = height + 1 /\ AfterApply(w)

\* A goroutine the loop has given up may set the height back.
WorkerApply(w) == worker[w].pc = "apply" /\ height' = worker[w].bn /\ AfterApply(w)

\* createCheckpoint gets the state of Lachesis, then those of DPoS and PoH; without
\* one of them there is no checkpoint, which is only logged, ...
CheckpointLachesis(w) ==
  /\ worker[w].pc = "getLachesis"
  /\ \/ worker' = [worker EXCEPT ![w].pc = "store", ![w].lach = lach]
     \/ Return(w, TRUE)
  /\ UNCHANGED <<lifeVars, chainVars, poh, ticks, stateVars, ckVars, loop, attempts, rec>>

\* ... and keeps checkpointsMu when it calls cleanOldCheckpoints, which takes it
\* again once there is something to clean.
CheckpointStore(w) ==
  LET n == worker[w].bn
  IN /\ worker[w].pc = "store" /\ ~stuck /\ ~jammed
     /\ checkpoints' = [m \in DOMAIN checkpoints \cup {n} |->
          IF m = n THEN [block |-> n, lach |-> worker[w].lach, dpos |-> dpos, poh |-> poh] ELSE checkpoints[m]]
     /\ lastCheckpoint' = n
     /\ stuck' = (n > 2 * Interval)
     /\ IF stuck' THEN Go(w, "stuck") ELSE Return(w, TRUE)
     /\ UNCHANGED <<lifeVars, chainVars, poh, ticks, stateVars, jammed, loop, attempts, rec>>

-----------------------------------------------------------------------------
(* recoverFromError, called by the loop or by ProcessBlock.                 *)

Rec(a, pc) == [rec EXCEPT ![a].pc = pc]
Recovering(a) == (a = "loop" /\ loop.pc = "recover") \/ (a \in W /\ worker[a].pc = "recover")

\* The last checkpoint, taken under checkpointsMu, and the states to go back to;
\* a GetState that fails leaves none.
RecoverBegin(a) ==
  /\ Recovering(a) /\ rec[a].pc = "none" /\ ~stuck
  /\ IF lastCheckpoint \in DOMAIN checkpoints
     THEN /\ ~jammed
          /\ \E l \in {lach, NoBackup}, d \in {dpos, NoBackup} :
               rec' = [rec EXCEPT ![a] =
                 [pc |-> "lachesis", ck |-> checkpoints[lastCheckpoint], lach |-> l, dpos |-> d, lost |-> {},
                  quiet |-> TRUE]]
     ELSE rec' = [rec EXCEPT ![a] = [NoRecovery EXCEPT !.pc = "failed"]]
  /\ UNCHANGED <<lifeVars, chainVars, poh, ticks, stateVars, ckVars, loop, attempts, worker>>

\* A snapshot that lists an event it does not hold is refused half-way (module
\* Lachesis); DPoS and PoH are then not touched.
RecoverLachesis(a) ==
  /\ rec[a].pc = "lachesis"
  /\ \/ lach' = rec[a].ck.lach /\ rec' = [Disturb(a) EXCEPT ![a].pc = "dpos"]
     \/ lach' = Torn /\ rec' = [Disturb(a) EXCEPT ![a].pc = "undoLachesis"]
  /\ UNCHANGED <<lifeVars, chainVars, poh, ticks, dpos, version, ckVars, loop, attempts, worker>>

\* A snapshot of DPoS that was torn is refused half-way (module DPoS).
RecoverDPoS(a) ==
  /\ rec[a].pc = "dpos" /\ ~jammed
  /\ \/ dpos' = rec[a].ck.dpos /\ rec' = [Disturb(a) EXCEPT ![a].pc = "poh"]
     \/ dpos' = Torn /\ rec' = [Disturb(a) EXCEPT ![a].pc = "undoLachesis"]
  /\ UNCHANGED <<lifeVars, chainVars, poh, ticks, lach, version, ckVars, loop, attempts, worker>>

\* RestoreState of DPoS holds validatorsMu and waits for epochMu, which a ProcessEpoch
\* at a boundary or a SetSetSize from outside holds, waiting for validatorsMu (module
\* DPoSLocks).  No call of DPoS that needs one of them returns any more.
DPoSJams(a) ==
  /\ ~jammed
  /\ rec[a].pc = "dpos" \/ (rec[a].pc = "undoDPoS" /\ rec[a].dpos # NoBackup)
  /\ \/ \E w \in W : worker[w].pc = "produce" /\ worker[w].bn % EpochDuration = 0
     \/ version < MaxChanges
  /\ jammed' = TRUE
  /\ UNCHANGED <<lifeVars, chainVars, poh, ticks, stateVars, checkpoints, lastCheckpoint, stuck, loop,
                 attempts, worker, rec>>

\* Synchronize refuses a count below its own.
RecoverPoH(a) ==
  /\ rec[a].pc = "poh"
  /\ \/ rec[a].ck.poh < poh /\ rec' = Rec(a, "undoLachesis") /\ UNCHANGED poh
     \/ rec[a].ck.poh >= poh /\ poh' = rec[a].ck.poh /\ rec' = Rec(a, "height")
  /\ UNCHANGED <<lifeVars, chainVars, ticks, stateVars, ckVars, loop, attempts, worker>>

\* What a rollback could not take back; it goes on to the next engine.
Undone(a, pc, lost) == [Disturb(a) EXCEPT ![a].pc = pc, ![a].lost = @ \cup lost]

\* What a rollback that fails leaves of the state s.
NotUndone(backup, s) == IF backup = NoBackup THEN s ELSE Torn

UndoLachesis(a) ==
  /\ rec[a].pc = "undoLachesis"
  /\ \/ rec[a].lach # NoBackup /\ lach' = rec[a].lach /\ rec' = Undone(a, "undoDPoS", {})
     \/ lach' = NotUndone(rec[a].lach, lach) /\ rec' = Undone(a, "undoDPoS", {"lachesis"})
  /\ UNCHANGED <<lifeVars, chainVars, poh, ticks, dpos, version, ckVars, loop, attempts, worker>>

\* Bug: only a DPoS that failed to restore is taken back.
UndoDPoS_IfTorn(a) ==
  /\ rec[a].pc = "undoDPoS" /\ rec[a].dpos # NoBackup
  /\ dpos' = IF dpos = Torn THEN rec[a].dpos ELSE dpos
  /\ rec' = Undone(a, "failed", {})
  /\ UNCHANGED <<lifeVars, chainVars, poh, ticks, lach, version, ckVars, loop, attempts, worker>>

\* Taking PoH back to the count it was saved with changes nothing.
UndoDPoS(a) ==
  /\ rec[a].pc = "undoDPoS" /\ (rec[a].dpos = NoBackup \/ ~jammed)
  /\ \/ rec[a].dpos # NoBackup /\ dpos' = rec[a].dpos /\ rec' = Undone(a, "failed", {})
     \/ dpos' = NotUndone(rec[a].dpos, dpos) /\ rec' = Undone(a, "failed", {"dpos"})
  /\ UNCHANGED <<lifeVars, chainVars, poh, ticks, lach, version, ckVars, loop, attempts, worker>>

RecoverHeight(a) ==
  /\ rec[a].pc = "height"
  /\ height' = rec[a].ck.block /\ rec' = Rec(a, "ok")
  /\ UNCHANGED <<lifeVars, applied, poh, ticks, stateVars, ckVars, loop, attempts, worker>>

LoopRecovered ==
  /\ loop.pc = "recover" /\ rec["loop"].pc \in {"ok", "failed"}
  /\ loop' = [loop EXCEPT !.pc = "select"] /\ rec' = [rec EXCEPT !["loop"] = NoRecovery]
  /\ UNCHANGED <<lifeVars, chainVars, poh, ticks, stateVars, ckVars, attempts, worker>>

-----------------------------------------------------------------------------
LoopStep == LoopSpawn \/ LoopTimeout \/ LoopResult \/ LoopExit \/ LoopRecovered

WorkerStep(w) ==
  \/ WorkerStart(w) \/ HandleError(w) \/ WorkerRecovered(w) \/ WorkerNoProducer(w) \/ WorkerProduce(w)
  \/ WorkerValidate(w) \/ WorkerApply(w) \/ CheckpointLachesis(w) \/ CheckpointStore(w)

RecoverStep(a) ==
  \/ RecoverBegin(a) \/ RecoverLachesis(a) \/ RecoverDPoS(a) \/ RecoverPoH(a)
  \/ UndoLachesis(a) \/ UndoDPoS(a) \/ RecoverHeight(a)

Next ==
  \/ Start \/ Stop \/ Tick \/ Outside
  \/ LoopStep \/ \E w \in W : WorkerStep(w) \/ \E a \in Actors : RecoverStep(a) \/ DPoSJams(a)

Spec == Init /\ [][Next]_vars

\* The goroutines of the loop, of ProcessBlock and their calls run on.
FairSpec ==
  /\ Spec /\ WF_vars(LoopStep)
  /\ \A w \in W : WF_vars(WorkerStep(w))
  /\ \A a \in Actors : WF_vars(RecoverStep(a))

-----------------------------------------------------------------------------
\* Type correctness; a checkpoint is kept under the number of its block.
TypeOK ==
  /\ running \in BOOLEAN /\ once \in BOOLEAN /\ stuck \in BOOLEAN /\ jammed \in BOOLEAN
  /\ height \in Nat /\ applied \subseteq Nat /\ poh \in Nat /\ version \in Nat
  /\ lach \in -1..version /\ dpos \in -1..version
  /\ \A n \in DOMAIN checkpoints : checkpoints[n].block = n /\ n % Interval = 0
  /\ loop.errors \in 0..MaxErrors

\* When a number is applied, all lower ones were.
NoGap == applied = 1..Cardinality(applied)

\* The count of PoH covers the height and the checkpoints, which
\* verifySystemConsistency demands after a recovery.
PoHCoversHeight ==
  /\ height <= poh
  /\ \A n \in DOMAIN checkpoints : n <= checkpoints[n].poh

\* Blocks are applied without a gap and PoH counts at least as many, although
\* goroutines that were given up and recoveries set the height back.
ChainConsistent == NoGap /\ PoHCoversHeight

\* A recovery nobody disturbs leaves Lachesis and DPoS both as the checkpoint has
\* them or, when one of its steps fails, both as they were before, but for an engine
\* whose rollback failed or had no backup.
RecoveryAtomic ==
  \A a \in Actors : rec[a].quiet =>
    /\ rec[a].pc = "ok" => lach = rec[a].ck.lach /\ dpos = rec[a].ck.dpos
    /\ rec[a].pc = "failed" /\ rec[a].ck # NoCheckpoint =>
         /\ lach = rec[a].lach \/ "lachesis" \in rec[a].lost
         /\ dpos = rec[a].dpos \/ "dpos" \in rec[a].lost

\* After Stop, and while nobody calls Start again, the production loop ends,
\* whatever becomes of the goroutines it started, unless it asked for a recovery
\* when checkpointsMu was stuck or calls of DPoS waited for each other.
StopEndsLoop ==
  (once /\ starts = 1) ~>
    (loop.pc = "exited" \/ starts > 1 \/ ((stuck \/ jammed) /\ loop.pc = "recover"))
=============================================================================
