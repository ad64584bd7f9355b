------------------------------ MODULE Lachesis ------------------------------
(***************************************************************************)
(* The finality engine of consensus/diamantefinality/lachesis.go over the   *)
(* DAG, the vote and the Finalizer of finalize.go.                          *)
(*                                                                          *)
(* Two activities finalize events.  ProcessEvent is called by CreateEvent's *)
(* goroutine and by the hybrid consensus: it votes and finalizes under      *)
(* eventProcessingMu.  The runConsensus loop takes a snapshot of the        *)
(* unfinalized events every 100ms and applies its own rule, detectFinality. *)
(* The stakes one vote reads are read in one step.                          *)
(***************************************************************************)
EXTENDS DAG

CONSTANTS
    Worker,         \* concurrent ProcessEvent calls
    Loop,           \* runConsensus goroutines that may come to exist
    Thresholds,     \* percentages SetVotingThreshold is called with
    MaxListings,    \* bound: ProcessEvent is not called again on an event listed so often
    MaxStarts,      \* bound: Start calls
    Restorer        \* concurrent RestoreState calls

VARIABLES
    listed,         \* event -> number of its entries in finalizedEvents
    finalizer,      \* ids in Finalizer.finalized
    lThreshold,     \* Lachesis.votingThreshold, in percent
    vThreshold,     \* VirtualVoting.threshold, in percent
    worker,         \* ProcessEvent: control state, event and generation of its object
    loop,           \* runConsensus: control state, context selected on, snapshot
    running, ctx,   \* Start and Stop: the flag and the number of the current context
    lstage, lsnap,  \* GetState: control state and what has been copied
    lsaved,         \* the snapshots callers keep
    restore         \* RestoreState: control state, snapshot, gen after the DAG's restore

finalVars == <<listed, finalizer>>
thresholdVars == <<lThreshold, vThreshold>>
lifeVars == <<running, ctx>>
lsnapVars == <<lstage, lsnap, lsaved, restore>>
engineVars == <<finalVars, thresholdVars, worker, loop, lifeVars, lsnapVars>>
vars == <<dagVars, engineVars>>

ASSUME LachesisAssumption ==
    /\ IsFiniteSet(Worker) /\ IsFiniteSet(Loop)
    /\ Thresholds \subseteq 1..100
    /\ MaxListings \in Nat \ {0} /\ MaxStarts \in Nat
    /\ MaxStarts <= Cardinality(Loop)
    /\ IsFiniteSet(Restorer)

DefaultThreshold == 66
NoListing == [e \in Call |-> 0]
IdleWorker == [pc |-> "idle", ev |-> Foreign, gen |-> 0]
NoState == [listed |-> NoListing, gen |-> 0, vThreshold |-> DefaultThreshold, finalizer |-> {},
            dag |-> NoSnap]
NoRestore == [pc |-> "idle", state |-> NoState, gen |-> 0]
NoLoop == [pc |-> "off", ctx |-> 0, born |-> 0, todo |-> {}, gen |-> 0]

Init ==
    /\ DAGInit
    /\ listed = NoListing /\ finalizer = {}
    /\ lThreshold = DefaultThreshold /\ vThreshold = DefaultThreshold
    /\ worker = [w \in Worker |-> IdleWorker] /\ loop = [r \in Loop |-> NoLoop]
    /\ running = FALSE /\ ctx = 0
    /\ lstage = "idle" /\ lsnap = NoState /\ lsaved = {}
    /\ restore = [k \in Restorer |-> NoRestore]

(* Flagging an event object that a restore has replaced is not seen by      *)
(* anybody who reads the Events map.                                        *)
Flag(e, g) == flagged' = IF g = gen /\ e \in DOMAIN events THEN flagged \cup {e} ELSE flagged

dagButFlags == <<nodeVars, events, maxHeight, callVars, gen, snapVars>>

----------------------------------------------------------------------------
(* Configuration and nodes.  The callers of SetVotingThreshold pass values  *)
(* VirtualVoting accepts.                                                   *)

SetVotingThreshold(t) ==
    /\ t # lThreshold \/ t # vThreshold
    /\ lThreshold' = t /\ vThreshold' = t
    /\ UNCHANGED <<dagVars, finalVars, worker, loop, lifeVars, lsnapVars>>

(* CreateEvent, AddNode and UpdateNodeStake change the DAG only; the        *)
(* goroutine CreateEvent starts is one of the workers.                      *)
DAGStep ==
    /\ \/ \E n \in Node : RemoveNode(n) \/ \E s \in Stakes : AddNode(n, s) \/ UpdateNodeStake(n, s)
       \/ \E c \in Call : NewEvent(c)
       \/ RepairConsistency
    /\ UNCHANGED engineVars

----------------------------------------------------------------------------
(* ProcessEvent                                                             *)

(* The creator is checked before eventProcessingMu is taken.                *)
ProcessEvent(w, e) ==
    /\ worker[w].pc = "idle" /\ npc[e] = "done"
    /\ listed[e] < MaxListings
    /\ IsActiveValidator(draft[e].creator)
    /\ worker' = [worker EXCEPT ![w] = [pc |-> "lock", ev |-> e, gen |-> gen]]
    /\ UNCHANGED <<dagVars, finalVars, thresholdVars, loop, lifeVars, lsnapVars>>

EventProcessingFree == \A w \in Worker : worker[w].pc \notin {"finalize", "record"}

ProcessVote(w) ==
    /\ worker[w].pc = "lock" /\ EventProcessingFree
    /\ worker' = [worker EXCEPT ![w] = IF Vote(worker[w].ev, vThreshold)
                                       THEN [@ EXCEPT !.pc = "finalize"] ELSE IdleWorker]
    /\ UNCHANGED <<dagVars, finalVars, thresholdVars, loop, lifeVars, lsnapVars>>

(* Finalize: an event it knows is accepted without a vote.                  *)
Finalize(w) ==
    LET e == worker[w].ev IN
    \/ /\ e \in finalizer
       /\ worker' = [worker EXCEPT ![w].pc = "record"]
       /\ UNCHANGED <<finalizer, flagged>>
    \/ /\ e \notin finalizer /\ Vote(e, vThreshold)
       /\ Flag(e, worker[w].gen)
       /\ finalizer' = finalizer \cup {e}
       /\ worker' = [worker EXCEPT ![w].pc = "record"]
    \/ /\ e \notin finalizer /\ ~Vote(e, vThreshold)
       /\ worker' = [worker EXCEPT ![w] = IdleWorker]
       /\ UNCHANGED <<finalizer, flagged>>

ProcessFinalize(w) ==
    /\ worker[w].pc = "finalize"
    /\ Finalize(w)
    /\ UNCHANGED <<dagButFlags, listed, thresholdVars, loop, lifeVars, lsnapVars>>

addFinalizedEvent_OnlyNew(e) ==
    listed' = IF e \in flagged THEN listed ELSE [listed EXCEPT ![e] = @ + 1]

addFinalizedEvent(e) == listed' = [listed EXCEPT ![e] = @ + 1]

ProcessRecord(w) ==
    /\ worker[w].pc = "record"
    /\ addFinalizedEvent(worker[w].ev)
    /\ worker' = [worker EXCEPT ![w] = IdleWorker]
    /\ UNCHANGED <<dagVars, finalizer, thresholdVars, loop, lifeVars, lsnapVars>>

----------------------------------------------------------------------------
(* The consensus loop                                                       *)

(* Stake is added up over the active nodes that have seen the event until   *)
(* it reaches the required weight, which a total of 0 makes 0.              *)
detectFinality(e) ==
    LET seen == {n \in ActiveNodes : HasSeen(n, e)}
    IN seen # {} /\ 100 * StakeOf(seen) >= GetTotalStake * lThreshold

(* Start makes a new context and a new goroutine, which has yet to read     *)
(* l.ctx.                                                                   *)
Start(r) ==
    /\ ~running /\ ctx < MaxStarts /\ loop[r].pc = "off"
    /\ running' = TRUE /\ ctx' = ctx + 1
    /\ loop' = [loop EXCEPT ![r] = [NoLoop EXCEPT !.pc = "scan", !.born = ctx + 1]]
    /\ UNCHANGED <<dagVars, finalVars, thresholdVars, worker, lsnapVars>>

Stop ==
    /\ running /\ running' = FALSE
    /\ UNCHANGED <<dagVars, finalVars, thresholdVars, worker, loop, ctx, lsnapVars>>

Cancelled(c) == c < ctx \/ ~running

LoopDone(r) ==
    /\ loop[r].pc = "select" /\ Cancelled(loop[r].ctx)
    /\ loop' = [loop EXCEPT ![r] = NoLoop]
    /\ UNCHANGED <<dagVars, finalVars, thresholdVars, worker, lifeVars, lsnapVars>>

(* processEvents: GetUnfinalizedEvents, then one event after the other.     *)
LoopTick(r) ==
    /\ loop[r].pc = "select"
    /\ loop' = [loop EXCEPT ![r] = [@ EXCEPT !.pc = "scan", !.todo = DOMAIN events \ flagged, !.gen = gen]]
    /\ UNCHANGED <<dagVars, finalVars, thresholdVars, worker, lifeVars, lsnapVars>>

LoopCheck(r, e) ==
    /\ loop[r].pc = "scan" /\ e \in loop[r].todo
    /\ loop' = [loop EXCEPT ![r].todo = @ \ {e}]
    /\ IF detectFinality(e)
       THEN addFinalizedEvent(e) /\ Flag(e, loop[r].gen)
       ELSE UNCHANGED <<listed, flagged>>
    /\ UNCHANGED <<dagButFlags, finalizer, thresholdVars, worker, lifeVars, lsnapVars>>

(* The select evaluates l.ctx again: after a Stop and a Start that is the   *)
(* new context.                                                             *)
LoopEnd_Returns(r) ==
    /\ loop[r].pc = "scan" /\ loop[r].todo = {}
    /\ loop' = [loop EXCEPT ![r] = NoLoop]
    /\ UNCHANGED <<dagVars, finalVars, thresholdVars, worker, lifeVars, lsnapVars>>

LoopEnd(r) ==
    /\ loop[r].pc = "scan" /\ loop[r].todo = {}
    /\ loop' = [loop EXCEPT ![r] = [@ EXCEPT !.pc = "select", !.ctx = ctx]]
    /\ UNCHANGED <<dagVars, finalVars, thresholdVars, worker, lifeVars, lsnapVars>>

----------------------------------------------------------------------------
(* GetState: the list, then the DAG's three parts, the voting threshold and *)
(* the Finalizer, each under its own lock.  lsnap.gen is the number of      *)
(* restores at the time the events were copied.                             *)

GetStateListed ==
    /\ lstage = "idle" /\ Cardinality(lsaved) < MaxSnaps /\ lstage' = "dag"
    /\ lsnap' = [NoState EXCEPT !.listed = listed]
    /\ UNCHANGED <<dagVars, finalVars, thresholdVars, worker, loop, lifeVars, lsaved, restore>>

GetStateDAG ==
    /\ lstage = "dag"
    /\ \/ GetStateNodes /\ UNCHANGED <<lstage, lsnap>>
       \/ GetStateEvents /\ lsnap' = [lsnap EXCEPT !.gen = gen] /\ UNCHANGED lstage
       \/ GetStateMax /\ lsnap' = [lsnap EXCEPT !.dag = Copied] /\ lstage' = "voting"
    /\ UNCHANGED <<finalVars, thresholdVars, worker, loop, lifeVars, lsaved, restore>>

GetStateVoting ==
    /\ lstage = "voting" /\ lstage' = "finalizer"
    /\ lsnap' = [lsnap EXCEPT !.vThreshold = vThreshold]
    /\ UNCHANGED <<dagVars, finalVars, thresholdVars, worker, loop, lifeVars, lsaved, restore>>

GetStateFinalizer ==
    /\ lstage = "finalizer" /\ lstage' = "idle"
    /\ lsnap' = NoState /\ lsaved' = lsaved \cup {[lsnap EXCEPT !.finalizer = finalizer]}
    /\ UNCHANGED <<dagVars, finalVars, thresholdVars, worker, loop, lifeVars, restore>>

(* RestoreState puts the parts back in the order DAG, threshold, Finalizer, *)
(* list; votingThreshold is not among them.                                 *)
RestoreStateDAG(k, s) ==
    /\ restore[k].pc = "idle" /\ s \in lsaved
    /\ RestoreState(s.dag)
    /\ restore' = [restore EXCEPT ![k] = [pc |-> "voting", state |-> s, gen |-> gen']]
    /\ UNCHANGED <<finalVars, thresholdVars, worker, loop, lifeVars, lstage, lsnap, lsaved>>

RestoreStateVoting(k) ==
    /\ restore[k].pc = "voting"
    /\ restore' = [restore EXCEPT ![k].pc = "finalizer"]
    /\ vThreshold' = restore[k].state.vThreshold
    /\ UNCHANGED <<dagVars, finalVars, lThreshold, worker, loop, lifeVars, lstage, lsnap, lsaved>>

RestoreStateFinalizer(k) ==
    /\ restore[k].pc = "finalizer"
    /\ restore' = [restore EXCEPT ![k].pc = "listed"]
    /\ finalizer' = restore[k].state.finalizer
    /\ UNCHANGED <<dagVars, listed, thresholdVars, worker, loop, lifeVars, lstage, lsnap, lsaved>>

MissingFromDAG(s) == {e \in Call : s.listed[e] > 0} \ DOMAIN events

(* The list is made anew from the events in the map.                        *)
RestoreStateListed(k) ==
    /\ restore[k].pc = "listed" /\ MissingFromDAG(restore[k].state) = {}
    /\ restore' = [restore EXCEPT ![k] = NoRestore]
    /\ listed' = restore[k].state.listed
    /\ UNCHANGED <<dagVars, finalizer, thresholdVars, worker, loop, lifeVars, lstage, lsnap, lsaved>>

(* An event that is not in the map ends it with an error, and with what was *)
(* listed until then.                                                       *)
RestoreStateFails(k) ==
    LET s == restore[k].state
        all == FoldFunctionOnSet(+, 0, s.listed, Call)
    IN /\ restore[k].pc = "listed" /\ MissingFromDAG(s) # {}
       /\ restore' = [restore EXCEPT ![k].pc = "failed"]
       /\ listed' \in {part \in [Call -> 0..all] :
                          \A e \in Call : part[e] <= s.listed[e] /\ (e \notin DOMAIN events => part[e] = 0)}
       /\ UNCHANGED <<dagVars, finalizer, thresholdVars, worker, loop, lifeVars, lstage, lsnap, lsaved>>

RestoreStateReturns(k) ==
    /\ restore[k].pc = "failed" /\ restore' = [restore EXCEPT ![k] = NoRestore]
    /\ UNCHANGED <<dagVars, finalVars, thresholdVars, worker, loop, lifeVars, lstage, lsnap, lsaved>>

----------------------------------------------------------------------------
EngineNext ==
    \/ DAGStep
    \/ \E t \in Thresholds : SetVotingThreshold(t)
    \/ \E w \in Worker :
          \/ \E e \in Call : ProcessEvent(w, e)
          \/ ProcessVote(w) \/ ProcessFinalize(w) \/ ProcessRecord(w)
    \/ Stop
    \/ \E r \in Loop :
          \/ Start(r) \/ LoopDone(r) \/ LoopTick(r) \/ LoopEnd(r)
          \/ \E e \in Call : LoopCheck(r, e)

SnapshotNext ==
    \/ GetStateListed \/ GetStateDAG \/ GetStateVoting \/ GetStateFinalizer
    \/ \E k \in Restorer :
          \/ \E s \in lsaved : RestoreStateDAG(k, s)
          \/ RestoreStateVoting(k) \/ RestoreStateFinalizer(k)
          \/ RestoreStateListed(k) \/ RestoreStateFails(k) \/ RestoreStateReturns(k)

Next == EngineNext \/ SnapshotNext

Spec == Init /\ [][Next]_vars

(* The engine when nobody saves or restores it.                             *)
EngineSpec == Init /\ [][EngineNext]_vars

(* Goroutines that can run do run, the ticker keeps ticking, and a select   *)
(* with two ready channels does not ignore one of them for ever.            *)
Fairness ==
    /\ \A w \in Worker : WF_vars(ProcessVote(w)) /\ WF_vars(ProcessFinalize(w)) /\ WF_vars(ProcessRecord(w))
    /\ \A r \in Loop : /\ SF_vars(LoopDone(r)) /\ WF_vars(LoopTick(r)) /\ WF_vars(LoopEnd(r))
                       /\ WF_vars(\E e \in Call : LoopCheck(r, e))
FairSpec == Spec /\ Fairness

----------------------------------------------------------------------------
(* Properties                                                               *)

TypeOK ==
    /\ DAGTypeOK
    /\ listed \in [Call -> Nat] /\ finalizer \subseteq Call
    /\ {lThreshold, vThreshold} \subseteq 1..100
    /\ worker \in [Worker -> [pc : {"idle", "lock", "finalize", "record"}, ev : Call \cup {Foreign}, gen : Nat]]
    /\ loop \in [Loop -> [pc : {"off", "select", "scan"}, ctx : 0..MaxStarts, born : 0..MaxStarts,
                          todo : SUBSET Call, gen : Nat]]
    /\ running \in BOOLEAN /\ ctx \in 0..MaxStarts
    /\ lstage \in {"idle", "dag", "voting", "finalizer"}
    /\ \A k \in Restorer : restore[k].pc \in {"idle", "voting", "finalizer", "listed", "failed"}

(* An event object marked Finalized, which the loop never looks at again,   *)
(* is in finalizedEvents or a ProcessEvent call is about to put it there:   *)
(* neither the worker nor the loop relies on the other to record it.  (Not  *)
(* so after a restore: GetState copies the list before the events.)         *)
NoFinalizedLost ==
    gen = 0 =>
        \A e \in flagged : listed[e] > 0 \/ \E w \in Worker : worker[w].pc = "record" /\ worker[w].ev = e

(* The two finality rules, Vote of ProcessEvent and detectFinality of the   *)
(* loop, agree on every event of an active creator: which of the two        *)
(* activities meets the event first does not decide whether it is final.    *)
(* (A restore brings back only one of the two thresholds.)                  *)
RulesAgree ==
    gen = 0 => \A e \in DOMAIN events : IsActiveValidator(events[e].creator) /\ GetTotalStake > 0
        => (Vote(e, vThreshold) <=> detectFinality(e))

(* RestoreState fails with "DAG missing event ID" (lachesis.go:464) only on *)
(* a snapshot that GetState took of an engine that had already been         *)
(* restored, or when another restore comes between its own steps: what was  *)
(* saved before the first restore can be restored at any time and any       *)
(* number of times, though the list and the graph are copied and put back   *)
(* one after the other while events are finalized.  (Nobody repairs the     *)
(* graph meanwhile.)                                                        *)
SnapshotRestorable ==
    \A k \in Restorer :
        restore[k].pc = "failed" => restore[k].state.gen > 0 \/ restore[k].gen # gen

(* An event the active nodes have seen with enough stake, from some time    *)
(* on, of an engine that is not stopped and not restored, is recorded.      *)
FinalityReached ==
    \A e \in Call :
        <>[](running /\ gen = 0 /\ e \in DOMAIN events /\ detectFinality(e)) => <>(listed[e] > 0)

(* "Stop halts the consensus loop" (lachesis.go:331): a loop whose context  *)
(* Stop has cancelled ends.                                                 *)
StoppedLoopEnds == \A r \in Loop : (loop[r].pc # "off" /\ Cancelled(loop[r].born)) ~> loop[r].pc = "off"
=============================================================================
