-------------------------------- MODULE DAG --------------------------------
(***************************************************************************)
(* The event graph of consensus/diamantefinality/dag.go and the stake vote  *)
(* over it of voting.go.                                                    *)
(*                                                                          *)
(* nodesMu, eventsMu and maxHeightMu are taken one after the other, never   *)
(* together, by NewEvent and GetState, so both are sequences of steps.      *)
(* A NewEvent call names the event it creates: event ids are hashes that    *)
(* differ for any two calls.                                                *)
(***************************************************************************)
EXTENDS Integers, FiniteSets, Functions

CONSTANTS
    Node,           \* validators
    Call,           \* NewEvent calls, and the ids of their events
    Foreign,        \* no node and no id of this DAG
    ForeignParents, \* ids of other nodes' events that callers name as parents
    Stakes,         \* stakes AddNode and UpdateNodeStake are called with
    WithRepair,     \* may RepairConsistency be called?
    WithRemove,     \* may RemoveNode be called?
    MaxSnaps,       \* bound: snapshots kept
    MaxRestores     \* bound: RestoreState calls

VARIABLES
    status,         \* node -> "unknown", "active" or "inactive"
    stake,          \* node -> Stake
    nodeEvents,     \* node -> ids in Node.Events
    events,         \* id -> [creator, parents, height], the Events map
    flagged,        \* ids whose Event.Finalized is true
    maxHeight,
    npc, draft,     \* NewEvent: control state and the event under way
    overtaken,      \* history: calls a restore came to before they inserted their event
    gen,            \* number of RestoreState calls: older *Node pointers are stale
    spc, snap,      \* GetState: control state and what has been copied
    snaps           \* the snapshots that callers keep

nodeVars == <<status, stake, nodeEvents>>
callVars == <<npc, draft, overtaken>>
snapVars == <<spc, snap, snaps>>
dagVars == <<nodeVars, events, flagged, maxHeight, callVars, gen, snapVars>>

NoSnap == [status |-> [n \in Node |-> "unknown"], stake |-> [n \in Node |-> 0],
           nodeEvents |-> [n \in Node |-> {}], events |-> [e \in {} |-> e],
           flagged |-> {}, maxHeight |-> 0]
NoDraft == [creator |-> Foreign, parents |-> {}, height |-> 0, gen |-> 0]

ASSUME DAGAssumption ==
    /\ Foreign \notin Call \cup Node /\ ForeignParents \cap Call = {}
    /\ IsFiniteSet(Node) /\ IsFiniteSet(Call)
    /\ Stakes \subseteq Nat
    /\ {WithRepair, WithRemove} \subseteq BOOLEAN
    /\ {MaxSnaps, MaxRestores} \subseteq Nat

DAGInit ==
    /\ status = [n \in Node |-> "unknown"] /\ stake = [n \in Node |-> 0]
    /\ nodeEvents = [n \in Node |-> {}]
    /\ events = [e \in {} |-> e] /\ flagged = {} /\ maxHeight = 0
    /\ npc = [c \in Call |-> "idle"] /\ draft = [c \in Call |-> NoDraft]
    /\ overtaken = {} /\ gen = 0
    /\ spc = "idle" /\ snap = NoSnap /\ snaps = {}

----------------------------------------------------------------------------
(* Nodes.  An operator Op_Slip is Op with a coding slip and is used by no   *)
(* action.                                                                  *)

AddNode(n, s) ==
    /\ status[n] # "active" \/ stake[n] # s
    /\ status' = [status EXCEPT ![n] = "active"]
    /\ stake' = [stake EXCEPT ![n] = s]
    /\ UNCHANGED <<nodeEvents, events, flagged, maxHeight, callVars, gen, snapVars>>

UpdateNodeStake(n, s) ==
    /\ status[n] # "unknown" /\ stake[n] # s
    /\ stake' = [stake EXCEPT ![n] = s]
    /\ UNCHANGED <<status, nodeEvents, events, flagged, maxHeight, callVars, gen, snapVars>>

RemoveNode(n) ==
    /\ WithRemove /\ status[n] = "active"
    /\ status' = [status EXCEPT ![n] = "inactive"]
    /\ UNCHANGED <<stake, nodeEvents, events, flagged, maxHeight, callVars, gen, snapVars>>

IsActiveValidator(n) == status[n] = "active"
ActiveNodes == {n \in Node : IsActiveValidator(n)}

StakeOf(ns) == FoldFunctionOnSet(+, 0, stake, ns)
GetTotalStake == StakeOf(ActiveNodes)

----------------------------------------------------------------------------
(* NewEvent                                                                 *)

(* One more than the highest known parent; unknown parents count as 1.      *)
NewHeight_SameAsParent(parents) ==
    LET known == {events[p].height : p \in parents \cap DOMAIN events}
    IN IF known = {} THEN 1 ELSE CHOOSE h \in known : \A g \in known : g <= h

NewHeight(parents) ==
    LET known == {1} \cup {events[p].height : p \in parents \cap DOMAIN events}
        top   == CHOOSE h \in known : \A g \in known : g <= h
    IN IF parents = {} THEN 1 ELSE top + 1

NewEventCheck(c, creator, parents) ==
    /\ npc[c] = "idle"
    /\ IsActiveValidator(creator)
    /\ npc' = [npc EXCEPT ![c] = "insert"]
    /\ draft' = [draft EXCEPT ![c] = [creator |-> creator, parents |-> parents,
                                      height |-> NewHeight(parents), gen |-> gen]]
    /\ UNCHANGED <<nodeVars, events, flagged, maxHeight, overtaken, gen, snapVars>>

NewEventInsert(c) ==
    /\ npc[c] = "insert"
    /\ events' = [e \in DOMAIN events \cup {c} |->
                    IF e = c THEN [creator |-> draft[c].creator, parents |-> draft[c].parents,
                                   height |-> draft[c].height]
                             ELSE events[e]]
    /\ npc' = [npc EXCEPT ![c] = "link"]
    /\ overtaken' = IF draft[c].gen = gen THEN overtaken ELSE overtaken \cup {c}
    /\ UNCHANGED <<nodeVars, flagged, maxHeight, draft, gen, snapVars>>

(* The *Node read at the start gets the event, also when RestoreState has   *)
(* replaced the Nodes map since.                                            *)
NewEventLink(c) ==
    /\ npc[c] = "link"
    /\ nodeEvents' = IF draft[c].gen = gen
                     THEN [nodeEvents EXCEPT ![draft[c].creator] = @ \cup {c}] ELSE nodeEvents
    /\ npc' = [npc EXCEPT ![c] = "raise"]
    /\ UNCHANGED <<status, stake, events, flagged, maxHeight, draft, overtaken, gen, snapVars>>

(* maxHeightMu covers the comparison and the store, but RepairConsistency   *)
(* writes MaxHeight without it.                                             *)
MaxHeightFree == \A c \in Call : npc[c] # "store"

Higher(c) == draft[c].height > maxHeight

NewEventCompare(c) ==
    /\ npc[c] = "raise" /\ MaxHeightFree
    /\ npc' = [npc EXCEPT ![c] = IF Higher(c) THEN "store" ELSE "done"]
    /\ UNCHANGED <<nodeVars, events, flagged, maxHeight, draft, overtaken, gen, snapVars>>

NewEventStore(c) ==
    /\ npc[c] = "store"
    /\ maxHeight' = draft[c].height
    /\ npc' = [npc EXCEPT ![c] = "done"]
    /\ UNCHANGED <<nodeVars, events, flagged, draft, overtaken, gen, snapVars>>

(* Callers name any ids: of events that are in the map, that a repair or a  *)
(* restore has taken out of it, or that other nodes have.                   *)
ParentChoices == SUBSET ({c \in Call : npc[c] \notin {"idle", "insert"}} \cup ForeignParents)

NewEvent(c) ==
    \/ \E creator \in Node, parents \in ParentChoices : NewEventCheck(c, creator, parents)
    \/ NewEventInsert(c) \/ NewEventLink(c) \/ NewEventCompare(c) \/ NewEventStore(c)

----------------------------------------------------------------------------
(* RepairConsistency: one pass over the creators, one over the parents.     *)

Orphans(es) == {e \in es : ~(events[e].parents \subseteq es)}
KeptByRepair ==
    LET known == {e \in DOMAIN events : status[events[e].creator] # "unknown"}
    IN known \ Orphans(known)

RepairConsistency ==
    /\ WithRepair
    /\ events' = [e \in KeptByRepair |-> events[e]]
    /\ maxHeight' = IF KeptByRepair = {} THEN 0
                    ELSE CHOOSE h \in {events[e].height : e \in KeptByRepair} :
                            \A e \in KeptByRepair : events[e].height <= h
    /\ flagged' = flagged \cap KeptByRepair
    /\ UNCHANGED <<nodeVars, callVars, gen, snapVars>>

----------------------------------------------------------------------------
(* GetState copies the nodes, the events and MaxHeight under their own      *)
(* locks, one after the other.  RestoreState holds all three.  Callers keep *)
(* any snapshots and restore any of them, also again: a recovery that fails *)
(* restores the checkpoint and then what it found.                          *)

GetStateNodes ==
    /\ spc = "idle" /\ Cardinality(snaps) < MaxSnaps /\ spc' = "events"
    /\ snap' = [NoSnap EXCEPT !.status = status, !.stake = stake, !.nodeEvents = nodeEvents]
    /\ UNCHANGED <<nodeVars, events, flagged, maxHeight, callVars, gen, snaps>>

GetStateEvents_Unfinalized ==
    /\ spc = "events" /\ spc' = "max"
    /\ snap' = [snap EXCEPT !.events = Restrict(events, DOMAIN events \ flagged)]
    /\ UNCHANGED <<nodeVars, events, flagged, maxHeight, callVars, gen, snaps>>

GetStateEvents ==
    /\ spc = "events" /\ spc' = "max"
    /\ snap' = [snap EXCEPT !.events = events, !.flagged = flagged]
    /\ UNCHANGED <<nodeVars, events, flagged, maxHeight, callVars, gen, snaps>>

Copied == [snap EXCEPT !.maxHeight = maxHeight]

GetStateMax ==
    /\ spc = "max" /\ MaxHeightFree /\ spc' = "idle"
    /\ snap' = NoSnap /\ snaps' = snaps \cup {Copied}
    /\ UNCHANGED <<nodeVars, events, flagged, maxHeight, callVars, gen>>

RestoreState(s) ==
    /\ s \in snaps /\ MaxHeightFree
    /\ gen < MaxRestores /\ gen' = gen + 1
    /\ status' = s.status /\ stake' = s.stake /\ nodeEvents' = s.nodeEvents
    /\ events' = s.events /\ flagged' = s.flagged /\ maxHeight' = s.maxHeight
    /\ UNCHANGED <<callVars, snapVars>>

DAGNext ==
    \/ \E n \in Node : RemoveNode(n) \/ \E s \in Stakes : AddNode(n, s) \/ UpdateNodeStake(n, s)
    \/ \E c \in Call : NewEvent(c)
    \/ RepairConsistency
    \/ GetStateNodes \/ GetStateEvents \/ GetStateMax
    \/ \E s \in snaps : RestoreState(s)

DAGSpec == DAGInit /\ [][DAGNext]_dagVars

----------------------------------------------------------------------------
(* Voting                                                                   *)

(* The events met when walking parents upwards from the event object of     *)
(* call e, which a caller may still hold when a restore has dropped it from *)
(* the Events map; parents missing from the map are skipped.                *)
Ancestors(e) ==
    LET near == DOMAIN events \cup {e}
        complete(S) == \A x \in S : draft[x].parents \cap DOMAIN events \subseteq S
    IN {a \in near : \A S \in SUBSET near : e \in S /\ complete(S) => a \in S}

HasSeen(n, e) == \E x \in Ancestors(e) : draft[x].creator = n

(* Vote: the creator's stake counts whether or not it is active.  The       *)
(* threshold is in percent.                                                 *)
Vote_CreatorTwice(e, threshold) ==
    LET seen == {n \in ActiveNodes : HasSeen(n, e)}
    IN GetTotalStake > 0 /\ 100 * (StakeOf(seen) + stake[draft[e].creator]) >= GetTotalStake * threshold

Vote(e, threshold) ==
    LET seen == {n \in ActiveNodes \ {draft[e].creator} : HasSeen(n, e)}
    IN /\ GetTotalStake > 0
       /\ 100 * StakeOf(seen \cup {draft[e].creator}) >= GetTotalStake * threshold

----------------------------------------------------------------------------
(* Properties                                                               *)

DAGEvent == [creator : Node, parents : SUBSET (Call \cup ForeignParents), height : Nat \ {0}]

DAGTypeOK ==
    /\ status \in [Node -> {"unknown", "active", "inactive"}]
    /\ stake \in [Node -> Nat]
    /\ nodeEvents \in [Node -> SUBSET Call]
    /\ DOMAIN events \subseteq Call /\ \A e \in DOMAIN events : events[e] \in DAGEvent
    /\ flagged \subseteq DOMAIN events
    /\ maxHeight \in Nat /\ gen \in Nat
    /\ npc \in [Call -> {"idle", "insert", "link", "raise", "store", "done"}]
    /\ spc \in {"idle", "events", "max"} /\ overtaken \subseteq Call

(* "The event's height is computed as 1 higher than the maximum parent      *)
(* height" (dag.go:102): heights grow along every edge, also when calls     *)
(* overlap, callers name parents that are no longer in the map, and these   *)
(* are brought back by a restore, any number of times.  Only an event whose *)
(* own call a restore overtook, after the height was computed and before    *)
(* the event was inserted, may be too low.                                  *)
HeightAboveParents ==
    \A e \in DOMAIN events \ overtaken : \A p \in events[e].parents \cap DOMAIN events :
        events[p].height < events[e].height
=============================================================================
