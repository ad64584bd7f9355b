--------------------------- MODULE FinalityProofs ---------------------------
(***************************************************************************)
(* Machine-checked properties of the event graph, the finality engine over  *)
(* it and the gossip, for every set of validators, events, workers and      *)
(* loops, every threshold and every stake.                                  *)
(***************************************************************************)
EXTENDS Lachesis, Gossip, FiniteTheorems

----------------------------------------------------------------------------
(* The event graph                                                          *)

(* NewEvent has put the event into the Events map.                          *)
Inserted == {"link", "raise", "store", "done"}

DAGShape ==
    /\ npc \in [Call -> {"idle", "insert"} \cup Inserted] /\ DOMAIN draft = Call
    /\ DOMAIN snap = DOMAIN NoSnap /\ gen \in Nat

(* A map of events, the graph's or a copy of it, holds what the NewEvent    *)
(* calls put there, and heights grow along its edges.                       *)
MapOK(es) ==
    /\ DOMAIN es \subseteq Call
    /\ \A e \in DOMAIN es : npc[e] \in Inserted /\ es[e].creator = draft[e].creator
                            /\ es[e].parents = draft[e].parents /\ es[e].height = draft[e].height
    /\ \A e \in DOMAIN es \ overtaken : \A p \in draft[e].parents \cap DOMAIN es :
          draft[p].height < draft[e].height

(* The parents a call names have been in the map.  Its height is above      *)
(* those that are still there, until a restore brings back others.          *)
DraftsInv ==
    \A c \in Call : npc[c] # "idle" =>
        /\ draft[c].creator \in Node /\ draft[c].height \in Int
        /\ draft[c].gen \in Nat /\ draft[c].gen <= gen
        /\ \A p \in draft[c].parents \cap Call : npc[p] \in Inserted
        /\ npc[c] = "insert" /\ draft[c].gen = gen =>
              \A p \in draft[c].parents \cap DOMAIN events : draft[p].height < draft[c].height

(* HeightAboveParents is not inductive: RestoreState brings back maps that  *)
(* were copied earlier, while calls are on their way that looked at another *)
(* one.                                                                     *)
DAGInv ==
    /\ DAGShape /\ MapOK(events) /\ MapOK(snap.events) /\ (\A s \in snaps : MapOK(s.events))
    /\ DraftsInv

(* The height of a new event is above that of every parent in the map.      *)
LEMMA NewHeightAbove ==
    ASSUME DAGInv, NEW parents
    PROVE  /\ NewHeight(parents) \in Int
           /\ \A p \in parents \cap DOMAIN events : events[p].height < NewHeight(parents)
<1> DEFINE S == parents \cap DOMAIN events
           f == [p \in S |-> events[p].height]
           known == {1} \cup {events[p].height : p \in S}
           top == CHOOSE h \in known : \A g \in known : g <= h
<1>1. \A p \in S : f[p] = events[p].height /\ f[p] \in Int
  BY DEF DAGInv, MapOK, DraftsInv, Inserted
<1>2. IsFiniteSet(S)
  <2>1. S \in SUBSET Call
    BY DEF DAGInv, MapOK
  <2> QED BY <2>1, FS_Subset, DAGAssumption
<1>3. \E h \in known : \A g \in known : g <= h
  <2>1. CASE S = {}
    <3>1. \A g \in known : g = 1
      BY <2>1
    <3> QED BY <3>1
  <2>2. CASE S # {}
    <3>1. PICK x \in S : \A y \in S : f[y] <= f[x]
      <4> HIDE DEF S, f
      <4> QED BY <1>1, <1>2, <2>2, HighestOf
    <3>2. \A g \in known : g = 1 \/ \E y \in S : g = f[y]
      BY <1>1
    <3>3. f[x] \in known /\ 1 \in known
      BY <1>1
    <3>4. CASE f[x] <= 1
      <4>1. \A y \in S : f[y] <= 1
        BY <1>1, <3>1, <3>4
      <4>2. \A g \in known : g <= 1
        <5> HIDE DEF f, known, S
        <5> QED BY <3>2, <4>1
      <4> QED BY <3>3, <4>2
    <3>5. CASE ~(f[x] <= 1)
      <4>1. f[x] \in Int /\ 1 <= f[x]
        BY <1>1, <3>5
      <4>2. \A g \in known : g <= f[x]
        <5> HIDE DEF f, known, S
        <5> QED BY <3>1, <3>2, <4>1
      <4> QED BY <3>3, <4>2
    <3> QED BY <3>4, <3>5
  <2> QED BY <2>1, <2>2
<1>4. top \in known /\ \A g \in known : g <= top
  <2> HIDE DEF known
  <2> QED BY <1>3
<1>5. top \in Int
  <2>1. \A g \in known : g \in Int
    BY <1>1
  <2> HIDE DEF top, known
  <2> QED BY <1>4, <2>1
<1>6. NewHeight(parents) = IF parents = {} THEN 1 ELSE top + 1
  BY DEF NewHeight
<1>7. \A p \in S : events[p].height \in known /\ parents # {} /\ events[p].height \in Int
  BY <1>1
<1> HIDE DEF top, known
<1>8. \A p \in S : events[p].height < NewHeight(parents)
  BY <1>4, <1>5, <1>6, <1>7
<1> QED BY <1>5, <1>6, <1>8

(* The steps that leave the events, the calls and the snapshots alone.      *)
LEMMA DAGUnmoved ==
    ASSUME DAGInv, UNCHANGED <<events, npc, draft, overtaken, gen, snap, snaps>>
    PROVE  DAGInv'
BY DEF DAGInv, DAGShape, MapOK, DraftsInv

(* NewEvent: the height is fixed, or the event goes on its way.             *)
LEMMA NewEventKeeps ==
    ASSUME DAGInv, NEW c \in Call, NewEvent(c)
    PROVE  DAGInv'
<1> USE DEF callVars, snapVars
<1>0. DAGShape /\ DraftsInv
  BY DEF DAGInv
<1>1. ASSUME NEW creator \in Node, NEW parents \in ParentChoices, NewEventCheck(c, creator, parents)
      PROVE  DAGInv'
  <2> DEFINE rec == [creator |-> creator, parents |-> parents, height |-> NewHeight(parents), gen |-> gen]
  <2>1. /\ npc[c] = "idle" /\ npc' = [npc EXCEPT ![c] = "insert"]
        /\ draft' = [draft EXCEPT ![c] = rec] /\ UNCHANGED <<events, overtaken, gen, snap, snaps>>
    BY <1>1 DEF NewEventCheck
  <2>2. /\ rec.creator \in Node /\ rec.parents = parents /\ rec.height = NewHeight(parents)
        /\ rec.gen = gen
    OBVIOUS
  <2> HIDE DEF rec
  <2>3. /\ DAGShape' /\ npc'[c] = "insert" /\ draft'[c] = rec
        /\ \A d \in Call \ {c} : npc'[d] = npc[d] /\ draft'[d] = draft[d]
    BY <1>0, <2>1 DEF DAGShape
  <2>4. "idle" \notin Inserted /\ "insert" \notin Inserted
    BY DEF Inserted
  <2>5. ASSUME NEW es, MapOK(es)
        PROVE  /\ DOMAIN es \subseteq Call
               /\ \A e \in DOMAIN es : npc'[e] \in Inserted /\ es[e].creator = draft'[e].creator
                            /\ es[e].parents = draft'[e].parents /\ es[e].height = draft'[e].height
               /\ \A e \in DOMAIN es \ overtaken : \A p \in draft'[e].parents \cap DOMAIN es :
                     draft'[p].height < draft'[e].height
    <3>1. c \notin DOMAIN es
      BY <2>1, <2>4, <2>5 DEF MapOK
    <3>2. \A e \in DOMAIN es : e \in Call \ {c}
      BY <2>5, <3>1 DEF MapOK
    <3> QED BY <2>3, <2>5, <3>2 DEF MapOK
  <2>6. MapOK(events)' /\ MapOK(snap.events)' /\ (\A s \in snaps : MapOK(s.events))'
    BY <2>1, <2>5 DEF DAGInv, MapOK
  <2>7. DraftsInv'
    <3> SUFFICES ASSUME NEW d \in Call, npc'[d] # "idle"
                 PROVE  /\ draft'[d].creator \in Node /\ draft'[d].height \in Int
                        /\ draft'[d].gen \in Nat /\ draft'[d].gen <= gen
                        /\ \A p \in draft'[d].parents \cap Call : npc'[p] \in Inserted
                        /\ npc'[d] = "insert" /\ draft'[d].gen = gen =>
                              \A p \in draft'[d].parents \cap DOMAIN events :
                                 draft'[p].height < draft'[d].height
      BY <2>1 DEF DraftsInv
    <3>1. \A p \in DOMAIN events : p \in Call /\ p # c /\ events[p].height = draft[p].height
      BY <2>1, <2>4 DEF DAGInv, MapOK
    <3>2. CASE d = c
      <4>1. \A p \in parents \cap Call : p # c /\ npc[p] \in Inserted
        <5>1. \A p \in parents \cap Call : npc[p] \notin {"idle", "insert"}
          BY DAGAssumption DEF ParentChoices
        <5> QED BY <1>0, <2>1, <5>1 DEF DAGShape
      <4>2. gen \in Nat /\ gen <= gen
        BY <1>0 DEF DAGShape
      <4>3. /\ NewHeight(parents) \in Int
            /\ \A p \in parents \cap DOMAIN events : events[p].height < NewHeight(parents)
        BY NewHeightAbove
      <4> QED BY <2>2, <2>3, <3>1, <3>2, <4>1, <4>2, <4>3
    <3>3. CASE d # c
      <4>1. npc'[d] = npc[d] /\ draft'[d] = draft[d] /\ npc[d] # "idle"
        BY <2>3, <3>3
      <4>2. \A p \in draft[d].parents \cap Call : npc[p] \in Inserted /\ p # c
        BY <1>0, <2>1, <2>4, <4>1 DEF DraftsInv
      <4>3. \A p \in DOMAIN events : draft'[p] = draft[p]
        BY <2>3, <3>1
      <4>4. \A p \in draft[d].parents \cap Call : npc'[p] \in Inserted
        BY <2>3, <4>2
      <4> QED BY <1>0, <4>1, <4>3, <4>4 DEF DraftsInv
    <3> QED BY <3>2, <3>3
  <2> QED BY <2>3, <2>6, <2>7 DEF DAGInv
<1>2. ASSUME NEW s \in Inserted, npc[c] # "idle", npc' = [npc EXCEPT ![c] = s],
             UNCHANGED <<draft, gen, snap, snaps>>, overtaken \subseteq overtaken'
      PROVE  /\ DAGShape' /\ npc'[c] = s
             /\ \A d \in Call \ {c} : npc'[d] = npc[d]
             /\ \A es : MapOK(es) =>
                   /\ DOMAIN es \subseteq Call
                   /\ \A e \in DOMAIN es : npc'[e] \in Inserted /\ es[e].creator = draft[e].creator
                            /\ es[e].parents = draft[e].parents /\ es[e].height = draft[e].height
                   /\ \A e \in DOMAIN es \ overtaken' : \A p \in draft[e].parents \cap DOMAIN es :
                         draft[p].height < draft[e].height
             /\ MapOK(snap.events)' /\ (\A t \in snaps : MapOK(t.events))'
             /\ \A d \in Call : npc'[d] # "idle" => npc[d] # "idle"
             /\ \A d \in Call : npc[d] \in Inserted => npc'[d] \in Inserted
  <2>1. DAGShape' /\ npc'[c] = s /\ \A d \in Call \ {c} : npc'[d] = npc[d]
    BY <1>0, <1>2 DEF DAGShape
  <2>2. \A d \in Call : (npc'[d] # "idle" => npc[d] # "idle") /\ (npc[d] \in Inserted => npc'[d] \in Inserted)
    BY <1>2, <2>1
  <2>3. ASSUME NEW es, MapOK(es)
        PROVE  /\ DOMAIN es \subseteq Call
               /\ \A e \in DOMAIN es : npc'[e] \in Inserted /\ es[e].creator = draft[e].creator
                            /\ es[e].parents = draft[e].parents /\ es[e].height = draft[e].height
               /\ \A e \in DOMAIN es \ overtaken' : \A p \in draft[e].parents \cap DOMAIN es :
                     draft[p].height < draft[e].height
    BY <1>2, <2>2, <2>3 DEF MapOK
  <2>4. MapOK(snap.events)' /\ (\A t \in snaps : MapOK(t.events))'
    BY <1>2, <2>3 DEF DAGInv, MapOK
  <2> QED BY <2>1, <2>2, <2>3, <2>4
<1>3. CASE NewEventInsert(c)
  <2> DEFINE rec == [creator |-> draft[c].creator, parents |-> draft[c].parents, height |-> draft[c].height]
  <2>1. /\ events' = [e \in DOMAIN events \cup {c} |-> IF e = c THEN rec ELSE events[e]]
        /\ npc[c] = "insert" /\ npc' = [npc EXCEPT ![c] = "link"] /\ UNCHANGED <<draft, gen, snap, snaps>>
        /\ overtaken \subseteq overtaken' /\ (draft[c].gen # gen => c \in overtaken')
    BY <1>3 DEF NewEventInsert
  <2>2. /\ rec.creator = draft[c].creator /\ rec.parents = draft[c].parents
        /\ rec.height = draft[c].height
    OBVIOUS
  <2> HIDE DEF rec
  <2>3. "link" \in Inserted /\ "insert" \notin Inserted /\ "idle" \notin Inserted
    BY DEF Inserted
  <2>4. /\ DAGShape' /\ npc'[c] = "link"
        /\ \A d \in Call \ {c} : npc'[d] = npc[d]
        /\ DOMAIN events \subseteq Call
        /\ \A e \in DOMAIN events : npc'[e] \in Inserted /\ events[e].creator = draft[e].creator
                            /\ events[e].parents = draft[e].parents /\ events[e].height = draft[e].height
        /\ \A e \in DOMAIN events \ overtaken' : \A p \in draft[e].parents \cap DOMAIN events :
              draft[p].height < draft[e].height
        /\ MapOK(snap.events)' /\ (\A t \in snaps : MapOK(t.events))'
        /\ \A d \in Call : npc'[d] # "idle" => npc[d] # "idle"
        /\ \A d \in Call : npc[d] \in Inserted => npc'[d] \in Inserted
    BY <1>2, <2>1, <2>3 DEF DAGInv
  <2>5. \A d \in Call : npc[d] # "idle" => c \notin draft[d].parents
    BY <1>0, <2>1, <2>3 DEF DraftsInv
  <2>6. /\ DOMAIN events' = DOMAIN events \cup {c} /\ events'[c] = rec
        /\ \A e \in DOMAIN events \ {c} : events'[e] = events[e]
    BY <2>1
  <2>7. c \notin DOMAIN events /\ \A e \in DOMAIN events : e \in Call /\ npc[e] # "idle"
    BY <2>1, <2>3 DEF DAGInv, MapOK
  <2>8. \A e \in DOMAIN events' : npc'[e] \in Inserted /\ events'[e].creator = draft[e].creator
                            /\ events'[e].parents = draft[e].parents /\ events'[e].height = draft[e].height
    BY <2>2, <2>3, <2>4, <2>6, <2>7
  <2>9. \A e \in DOMAIN events' \ overtaken' : \A p \in draft[e].parents \cap DOMAIN events' :
          draft[p].height < draft[e].height
    <3> SUFFICES ASSUME NEW e \in DOMAIN events' \ overtaken', NEW p \in draft[e].parents \cap DOMAIN events'
                 PROVE  draft[p].height < draft[e].height
      OBVIOUS
    <3>1. p # c /\ p \in DOMAIN events
      BY <2>1, <2>5, <2>6, <2>7
    <3>2. CASE e = c
      BY <1>0, <2>1, <3>1, <3>2 DEF DraftsInv
    <3>3. CASE e # c
      BY <2>4, <2>6, <3>1, <3>3
    <3> QED BY <3>2, <3>3
  <2>10. MapOK(events)'
    BY <2>1, <2>4, <2>6, <2>8, <2>9 DEF MapOK
  <2>11. DraftsInv'
    <3> SUFFICES ASSUME NEW d \in Call, npc'[d] # "idle"
                 PROVE  /\ draft[d].creator \in Node /\ draft[d].height \in Int
                        /\ draft[d].gen \in Nat /\ draft[d].gen <= gen
                        /\ \A p \in draft[d].parents \cap Call : npc'[p] \in Inserted
                        /\ npc'[d] = "insert" /\ draft[d].gen = gen =>
                              \A p \in draft[d].parents \cap DOMAIN events' :
                                 draft[p].height < draft[d].height
      BY <2>1 DEF DraftsInv
    <3>1. npc[d] # "idle"
      BY <2>4
    <3>2. \A p \in draft[d].parents \cap DOMAIN events' : p \in DOMAIN events
      BY <2>5, <2>6, <3>1
    <3>3. npc'[d] = "insert" => npc[d] = "insert"
      BY <2>3, <2>4
    <3> QED BY <1>0, <2>4, <3>1, <3>2, <3>3 DEF DraftsInv
  <2> QED BY <2>4, <2>10, <2>11 DEF DAGInv
<1>4. CASE NewEventLink(c) \/ NewEventCompare(c) \/ NewEventStore(c)
  <2>1. PICK s \in Inserted : npc' = [npc EXCEPT ![c] = s]
    BY <1>4 DEF NewEventLink, NewEventCompare, NewEventStore, Inserted
  <2>2. npc[c] # "idle" /\ npc[c] \in Inserted /\ UNCHANGED <<events, draft, overtaken, gen, snap, snaps>>
    BY <1>4 DEF NewEventLink, NewEventCompare, NewEventStore, Inserted
  <2>3. /\ DAGShape' /\ npc'[c] = s
        /\ \A d \in Call \ {c} : npc'[d] = npc[d]
        /\ DOMAIN events \subseteq Call
        /\ \A e \in DOMAIN events : npc'[e] \in Inserted /\ events[e].creator = draft[e].creator
                            /\ events[e].parents = draft[e].parents /\ events[e].height = draft[e].height
        /\ \A e \in DOMAIN events \ overtaken' : \A p \in draft[e].parents \cap DOMAIN events :
              draft[p].height < draft[e].height
        /\ MapOK(snap.events)' /\ (\A t \in snaps : MapOK(t.events))'
        /\ \A d \in Call : npc'[d] # "idle" => npc[d] # "idle"
        /\ \A d \in Call : npc[d] \in Inserted => npc'[d] \in Inserted
    BY <1>2, <2>1, <2>2 DEF DAGInv
  <2>4. MapOK(events)'
    BY <2>2, <2>3 DEF MapOK
  <2>5. "insert" \notin Inserted
    BY DEF Inserted
  <2>6. DraftsInv'
    BY <1>0, <2>2, <2>3, <2>5 DEF DraftsInv
  <2> QED BY <2>3, <2>4, <2>6 DEF DAGInv
<1> QED BY <1>1, <1>3, <1>4 DEF NewEvent

(* RepairConsistency only takes events out.                                 *)
LEMMA RepairKeeps ==
    ASSUME DAGInv, RepairConsistency
    PROVE  DAGInv'
<1>1. /\ UNCHANGED <<npc, draft, overtaken, gen, snap, snaps>>
      /\ events' = [e \in KeptByRepair |-> events[e]]
  BY DEF RepairConsistency, callVars, snapVars
<1>2. KeptByRepair \subseteq DOMAIN events
  BY DEF KeptByRepair
<1>3. MapOK(events)'
  BY <1>1, <1>2 DEF DAGInv, MapOK
<1>4. DAGShape' /\ MapOK(snap.events)' /\ (\A s \in snaps : MapOK(s.events))'
  BY <1>1 DEF DAGInv, DAGShape, MapOK
<1>5. DraftsInv'
  BY <1>1, <1>2 DEF DAGInv, DraftsInv
<1> QED BY <1>3, <1>4, <1>5 DEF DAGInv

(* Whatever is copied and restored was put there by NewEvent.               *)
LEMMA DAGStateKeeps ==
    ASSUME DAGInv, GetStateNodes \/ GetStateEvents \/ GetStateMax \/ \E s \in snaps : RestoreState(s)
    PROVE  DAGInv'
<1> USE DEF callVars, snapVars
<1>1. UNCHANGED <<npc, draft, overtaken>>
  BY DEF GetStateNodes, GetStateEvents, GetStateMax, RestoreState
<1>2. DraftsInv /\ DAGShape /\ MapOK(events) /\ MapOK(snap.events) /\ \A s \in snaps : MapOK(s.events)
  BY DEF DAGInv
<1>3. ASSUME NEW es, MapOK(es)
      PROVE  /\ DOMAIN es \subseteq Call
             /\ \A e \in DOMAIN es : npc'[e] \in Inserted /\ es[e].creator = draft'[e].creator
                          /\ es[e].parents = draft'[e].parents /\ es[e].height = draft'[e].height
             /\ \A e \in DOMAIN es \ overtaken' : \A p \in draft'[e].parents \cap DOMAIN es :
                   draft'[p].height < draft'[e].height
  BY <1>1, <1>3 DEF MapOK
<1>4. DOMAIN snap = DOMAIN NoSnap /\ "events" \in DOMAIN NoSnap /\ DOMAIN NoSnap.events = {}
  BY DEF DAGInv, DAGShape, NoSnap
<1>5. MapOK(NoSnap.events)
  BY <1>4 DEF MapOK
<1>6. CASE GetStateNodes \/ GetStateEvents \/ GetStateMax
  <2>1. events' = events /\ gen' = gen
    BY <1>6 DEF GetStateNodes, GetStateEvents, GetStateMax
  <2>2. DOMAIN snap' = DOMAIN NoSnap /\ MapOK(snap'.events) /\ \A s \in snaps' : MapOK(s.events)
    <3>1. CASE GetStateNodes
      <4>1. /\ snap'.events = NoSnap.events /\ DOMAIN snap' = DOMAIN NoSnap /\ snaps' = snaps
        BY <3>1 DEF GetStateNodes, NoSnap
      <4> QED BY <1>2, <1>5, <4>1
    <3>2. CASE GetStateEvents
      <4>1. /\ snap'.events = events /\ DOMAIN snap' = DOMAIN NoSnap /\ snaps' = snaps
        BY <1>4, <3>2 DEF GetStateEvents
      <4> QED BY <1>2, <4>1
    <3>3. CASE GetStateMax
      <4>1. /\ snap' = NoSnap /\ snaps' = snaps \cup {Copied}
        BY <3>3 DEF GetStateMax
      <4>2. Copied.events = snap.events
        BY <1>4 DEF Copied
      <4> QED BY <1>2, <1>5, <4>1, <4>2
    <3> QED BY <1>6, <3>1, <3>2, <3>3
  <2>3. MapOK(events)' /\ MapOK(snap.events)' /\ (\A s \in snaps : MapOK(s.events))'
    BY <1>2, <1>3, <2>1, <2>2 DEF MapOK
  <2>4. DraftsInv' /\ DAGShape'
    BY <1>1, <1>2, <2>1, <2>2 DEF DraftsInv, DAGShape
  <2> QED BY <2>3, <2>4 DEF DAGInv
<1>7. ASSUME NEW s \in snaps, RestoreState(s) PROVE DAGInv'
  <2>1. UNCHANGED <<snap, snaps>> /\ events' = s.events /\ gen' = gen + 1
    BY <1>7 DEF RestoreState
  <2>2. MapOK(events)' /\ MapOK(snap.events)' /\ (\A t \in snaps : MapOK(t.events))'
    BY <1>2, <1>3, <2>1 DEF MapOK
  <2>3. DAGShape'
    BY <1>1, <1>2, <2>1 DEF DAGShape
  <2>4. DraftsInv'
    <3>1. gen \in Nat /\ \A g \in Nat : g <= gen => g <= gen + 1 /\ g # gen + 1
      BY <1>2 DEF DAGShape
    <3> QED BY <1>1, <1>2, <2>1, <3>1 DEF DraftsInv
  <2> QED BY <2>2, <2>3, <2>4 DEF DAGInv
<1> QED BY <1>6, <1>7

(* Every step of the graph.                                                 *)
LEMMA DAGNextKeeps ==
    ASSUME DAGInv, DAGNext
    PROVE  DAGInv'
<1>1. ASSUME NEW n \in Node, RemoveNode(n) \/ \E s \in Stakes : AddNode(n, s) \/ UpdateNodeStake(n, s)
      PROVE  DAGInv'
  BY <1>1, DAGUnmoved DEF RemoveNode, AddNode, UpdateNodeStake, callVars, snapVars
<1> QED BY <1>1, NewEventKeeps, RepairKeeps, DAGStateKeeps DEF DAGNext

(* The empty graph satisfies the invariant.                                 *)
LEMMA DAGInitInv == DAGInit => DAGInv
<1> SUFFICES ASSUME DAGInit PROVE DAGInv
  OBVIOUS
<1>1. /\ npc = [c \in Call |-> "idle"] /\ DOMAIN draft = Call /\ snap = NoSnap /\ snaps = {} /\ gen = 0
      /\ DOMAIN events = {} /\ DOMAIN NoSnap.events = {}
  BY DEF DAGInit, NoSnap
<1>2. DAGShape /\ DraftsInv
  BY <1>1 DEF DAGShape, DraftsInv
<1>3. MapOK(events) /\ MapOK(snap.events)
  BY <1>1 DEF MapOK
<1> QED BY <1>1, <1>2, <1>3 DEF DAGInv

(* What the calls drafted orders what the map holds.                        *)
LEMMA DraftsGiveHeights == DAGInv => HeightAboveParents
<1> SUFFICES ASSUME DAGInv, NEW e \in DOMAIN events \ overtaken,
                    NEW p \in events[e].parents \cap DOMAIN events
             PROVE  events[p].height < events[e].height
  BY DEF HeightAboveParents
<1> QED BY DEF DAGInv, MapOK

(* Heights grow along every edge of the graph, also when NewEvent calls     *)
(* overlap with each other, with RepairConsistency, and with any number of  *)
(* GetState and RestoreState calls: only an event whose own call a restore  *)
(* overtook may be too low.                                                 *)
THEOREM HeightsGrow == DAGSpec => []HeightAboveParents
<1>1. DAGInv /\ [DAGNext]_dagVars => DAGInv'
  <2>1. DAGInv /\ UNCHANGED dagVars => DAGInv'
    BY DAGUnmoved DEF dagVars, callVars, snapVars
  <2> QED BY <2>1, DAGNextKeeps
<1> QED BY <1>1, DAGInitInv, DraftsGiveHeights, PTL DEF DAGSpec

----------------------------------------------------------------------------
(* The finality engine                                                      *)

(* The engine changes the graph only by the graph's own steps.              *)
LEMMA EngineKeepsDAG ==
    ASSUME DAGInv, [Next]_vars
    PROVE  DAGInv'
<1> USE DEF dagVars, dagButFlags, callVars, snapVars
<1>1. CASE UNCHANGED <<events, npc, draft, overtaken, gen, snap, snaps>>
  BY <1>1, DAGUnmoved
<1>2. CASE DAGNext
  BY <1>2, DAGNextKeeps
<1>3. UNCHANGED vars => UNCHANGED <<events, npc, draft, overtaken, gen, snap, snaps>>
  BY DEF vars
<1>4. ASSUME EngineNext PROVE DAGNext \/ UNCHANGED <<events, npc, draft, overtaken, gen, snap, snaps>>
  <2>1. DAGStep => DAGNext
    BY DEF DAGStep, DAGNext
  <2>2. ASSUME NEW w \in Worker, \/ \E e \in Call : ProcessEvent(w, e)
                                 \/ ProcessVote(w) \/ ProcessFinalize(w) \/ ProcessRecord(w)
        PROVE  UNCHANGED <<events, npc, draft, overtaken, gen, snap, snaps>>
    BY <2>2 DEF ProcessEvent, ProcessVote, ProcessFinalize, ProcessRecord
  <2>3. ASSUME NEW r \in Loop, \/ Start(r) \/ LoopDone(r) \/ LoopTick(r) \/ LoopEnd(r)
                               \/ \E e \in Call : LoopCheck(r, e)
        PROVE  UNCHANGED <<events, npc, draft, overtaken, gen, snap, snaps>>
    BY <2>3 DEF Start, LoopDone, LoopTick, LoopEnd, LoopCheck
  <2>4. (Stop \/ \E t \in Thresholds : SetVotingThreshold(t)) => UNCHANGED <<events, npc, draft, overtaken, gen, snap, snaps>>
    BY DEF Stop, SetVotingThreshold
  <2> QED BY <1>4, <2>1, <2>2, <2>3, <2>4 DEF EngineNext
<1>5. ASSUME SnapshotNext PROVE DAGNext \/ UNCHANGED <<events, npc, draft, overtaken, gen, snap, snaps>>
  <2>1. ASSUME NEW k \in Restorer, NEW s \in lsaved, RestoreStateDAG(k, s) PROVE DAGNext
    <3>1. s.dag \in snaps /\ RestoreState(s.dag)
      BY <2>1 DEF RestoreStateDAG, RestoreState
    <3> QED BY <3>1 DEF DAGNext
  <2>2. ASSUME NEW k \in Restorer, \/ RestoreStateVoting(k) \/ RestoreStateFinalizer(k)
                                   \/ RestoreStateListed(k) \/ RestoreStateFails(k) \/ RestoreStateReturns(k)
        PROVE  UNCHANGED <<events, npc, draft, overtaken, gen, snap, snaps>>
    BY <2>2 DEF RestoreStateVoting, RestoreStateFinalizer, RestoreStateListed, RestoreStateFails,
                RestoreStateReturns
  <2>3. GetStateDAG => DAGNext
    BY DEF GetStateDAG, DAGNext
  <2>4. GetStateListed \/ GetStateVoting \/ GetStateFinalizer =>
           UNCHANGED <<events, npc, draft, overtaken, gen, snap, snaps>>
    BY DEF GetStateListed, GetStateVoting, GetStateFinalizer
  <2> QED BY <1>5, <2>1, <2>2, <2>3, <2>4 DEF SnapshotNext
<1> QED BY <1>1, <1>2, <1>3, <1>4, <1>5 DEF Next

(* The control state.  A list, a copy of it, or one under way to be put     *)
(* back: RestoreState has replaced the graph before it touches the          *)
(* threshold, the Finalizer and the list.                                   *)
WorkerType == [pc : {"idle", "lock", "finalize", "record"}, ev : Call \cup {Foreign}, gen : Nat]
StateShape(s) == DOMAIN s = DOMAIN NoState /\ s.listed \in [Call -> Nat]
CopiesShape ==
    /\ StateShape(lsnap) /\ \A s \in lsaved : StateShape(s)
    /\ DOMAIN restore = Restorer
    /\ \A k \in Restorer : /\ DOMAIN restore[k] = DOMAIN NoRestore /\ StateShape(restore[k].state)
                           /\ restore[k].gen \in Nat /\ restore[k].gen <= gen
                           /\ restore[k].pc # "idle" => gen > 0
ControlInv ==
    /\ gen \in Nat /\ (gen = 0 => flagged \subseteq Call)
    /\ worker \in [Worker -> WorkerType]
    /\ \A w \in Worker : worker[w].pc # "idle" => worker[w].ev \in Call
    /\ listed \in [Call -> Nat] /\ CopiesShape

(* Until a restore the two thresholds are set together.                     *)
ThresholdsAgree == gen = 0 => lThreshold = vThreshold

EngineInv == DAGInv /\ ControlInv /\ ThresholdsAgree /\ NoFinalizedLost

Recording(e) == \E w \in Worker : worker[w].pc = "record" /\ worker[w].ev = e

(* One worker moves.                                                        *)
LEMMA WorkerMoves ==
    ASSUME ControlInv, NEW w \in Worker, NEW rec \in WorkerType,
           worker' = [worker EXCEPT ![w] = rec], rec.pc # "idle" => rec.ev \in Call
    PROVE  /\ worker' \in [Worker -> WorkerType] /\ worker'[w] = rec
           /\ \A v \in Worker \ {w} : worker'[v] = worker[v]
           /\ \A v \in Worker : worker'[v].pc # "idle" => worker'[v].ev \in Call
<1>1. /\ worker' \in [Worker -> WorkerType] /\ worker'[w] = rec
      /\ \A v \in Worker \ {w} : worker'[v] = worker[v]
  BY DEF ControlInv
<1> QED BY <1>1 DEF ControlInv

(* ProcessEvent, up to the list: an event it marks it is about to record.   *)
LEMMA ProcessKeeps ==
    ASSUME EngineInv, NEW w \in Worker,
           \/ \E e \in Call : ProcessEvent(w, e)
           \/ ProcessVote(w) \/ ProcessFinalize(w)
    PROVE  ControlInv' /\ ThresholdsAgree' /\ NoFinalizedLost'
<1>1. ControlInv /\ worker[w] \in WorkerType
  BY DEF EngineInv, ControlInv
<1>2. /\ UNCHANGED <<gen, listed, lsnap, lsaved, restore, lThreshold, vThreshold>>
      /\ worker[w].pc # "record"
  BY DEF ProcessEvent, ProcessVote, ProcessFinalize, dagVars, dagButFlags, finalVars, thresholdVars,
         lsnapVars
<1>3. IdleWorker \in WorkerType /\ IdleWorker.pc = "idle"
  BY DEF IdleWorker, WorkerType
<1>4. ASSUME NEW s \in {"lock", "finalize", "record"}, worker[w].pc # "idle"
      PROVE  /\ [worker[w] EXCEPT !.pc = s] \in WorkerType
             /\ [worker[w] EXCEPT !.pc = s].pc = s
             /\ [worker[w] EXCEPT !.pc = s].ev = worker[w].ev /\ worker[w].ev \in Call
  BY <1>1, <1>4 DEF WorkerType, ControlInv
<1>5. \E rec \in WorkerType :
         /\ worker' = [worker EXCEPT ![w] = rec]
         /\ rec.pc # "idle" => rec.ev \in Call
         /\ \/ flagged' = flagged
            \/ flagged' \subseteq flagged \cup {rec.ev} /\ rec.pc = "record"
  <2>1. ASSUME NEW e \in Call, ProcessEvent(w, e)
        PROVE  /\ worker' = [worker EXCEPT ![w] = [pc |-> "lock", ev |-> e, gen |-> gen]]
               /\ [pc |-> "lock", ev |-> e, gen |-> gen] \in WorkerType /\ flagged' = flagged
    BY <1>1, <2>1 DEF ProcessEvent, dagVars, WorkerType, ControlInv
  <2>2. CASE ProcessVote(w)
    <3>1. worker[w].pc # "idle" /\ flagged' = flagged
      BY <2>2 DEF ProcessVote, dagVars
    <3>2. CASE worker' = [worker EXCEPT ![w] = [worker[w] EXCEPT !.pc = "finalize"]]
      BY <1>4, <3>1, <3>2
    <3>3. CASE worker' = [worker EXCEPT ![w] = IdleWorker]
      BY <1>3, <3>1, <3>3
    <3> QED BY <2>2, <3>2, <3>3 DEF ProcessVote
  <2>3. CASE ProcessFinalize(w)
    <3>1. worker[w].pc # "idle"
      BY <2>3 DEF ProcessFinalize
    <3>2. CASE worker' = [worker EXCEPT ![w] = IdleWorker] /\ flagged' = flagged
      BY <1>3, <3>2
    <3>3. CASE /\ worker' = [worker EXCEPT ![w] = [worker[w] EXCEPT !.pc = "record"]]
               /\ flagged' \subseteq flagged \cup {worker[w].ev}
      BY <1>4, <3>1, <3>3
    <3>4. \/ worker' = [worker EXCEPT ![w] = IdleWorker] /\ flagged' = flagged
          \/ /\ worker' = [worker EXCEPT ![w].pc = "record"]
             /\ flagged' = flagged \/ flagged' = flagged \cup {worker[w].ev}
      BY <2>3 DEF ProcessFinalize, Finalize, Flag
    <3> QED BY <3>2, <3>3, <3>4
  <2> QED BY <2>1, <2>2, <2>3
<1>6. PICK rec \in WorkerType :
         /\ worker' = [worker EXCEPT ![w] = rec]
         /\ rec.pc # "idle" => rec.ev \in Call
         /\ \/ flagged' = flagged
            \/ flagged' \subseteq flagged \cup {rec.ev} /\ rec.pc = "record"
  BY <1>5
<1>7. /\ worker' \in [Worker -> WorkerType] /\ worker'[w] = rec
      /\ \A v \in Worker \ {w} : worker'[v] = worker[v]
      /\ \A v \in Worker : worker'[v].pc # "idle" => worker'[v].ev \in Call
  BY <1>1, <1>6, WorkerMoves
<1>8. ControlInv' /\ ThresholdsAgree'
  BY <1>1, <1>2, <1>6, <1>7 DEF ControlInv, CopiesShape, StateShape, ThresholdsAgree, EngineInv
<1>9. NoFinalizedLost'
  <2> SUFFICES ASSUME gen = 0, NEW e \in flagged'
               PROVE  listed[e] > 0 \/ \E v \in Worker : worker'[v].pc = "record" /\ worker'[v].ev = e
    BY <1>2 DEF NoFinalizedLost
  <2>1. CASE e \in flagged
    BY <1>2, <1>7, <2>1 DEF EngineInv, NoFinalizedLost
  <2>2. CASE e \notin flagged
    BY <1>6, <1>7, <2>2
  <2> QED BY <2>1, <2>2
<1> QED BY <1>8, <1>9

(* addFinalizedEvent, by a worker or by the loop.                           *)
LEMMA RecordKeeps ==
    ASSUME EngineInv,
           \/ \E w \in Worker : ProcessRecord(w)
           \/ \E r \in Loop, e \in Call : LoopCheck(r, e)
    PROVE  ControlInv' /\ ThresholdsAgree' /\ NoFinalizedLost'
<1>1. ControlInv /\ UNCHANGED <<gen, lsnap, lsaved, restore, lThreshold, vThreshold>>
  BY DEF EngineInv, ProcessRecord, LoopCheck, dagVars, dagButFlags, finalVars, thresholdVars, lsnapVars
<1>2. ASSUME NEW e \in Call, addFinalizedEvent(e)
      PROVE  listed' \in [Call -> Nat] /\ listed'[e] > 0 /\ \A d \in Call : listed[d] > 0 => listed'[d] > 0
  BY <1>1, <1>2 DEF addFinalizedEvent, ControlInv
<1>3. gen = 0 => flagged \subseteq Call
  BY <1>1 DEF ControlInv
<1>4. ASSUME NEW w \in Worker, ProcessRecord(w)
      PROVE  ControlInv' /\ ThresholdsAgree' /\ NoFinalizedLost'
  <2> DEFINE e == worker[w].ev
  <2>1. /\ worker[w].pc = "record" /\ addFinalizedEvent(e) /\ flagged' = flagged
        /\ worker' = [worker EXCEPT ![w] = IdleWorker]
    BY <1>4 DEF ProcessRecord, dagVars
  <2>2. IdleWorker \in WorkerType /\ IdleWorker.pc = "idle"
    BY DEF IdleWorker, WorkerType
  <2>3. /\ worker' \in [Worker -> WorkerType] /\ \A v \in Worker \ {w} : worker'[v] = worker[v]
        /\ \A v \in Worker : worker'[v].pc # "idle" => worker'[v].ev \in Call
    BY <1>1, <2>1, <2>2, WorkerMoves
  <2>4. e \in Call /\ \A v \in Worker : worker[v].pc = "record" => worker[v].ev \in Call
    BY <1>1, <2>1 DEF ControlInv
  <2> HIDE DEF e
  <2>5. listed' \in [Call -> Nat] /\ listed'[e] > 0 /\ \A d \in Call : listed[d] > 0 => listed'[d] > 0
    BY <1>2, <2>1, <2>4
  <2>6. ControlInv' /\ ThresholdsAgree'
    BY <1>1, <2>1, <2>3, <2>5 DEF ControlInv, CopiesShape, StateShape, ThresholdsAgree, EngineInv
  <2>7. NoFinalizedLost'
    <3> SUFFICES ASSUME gen = 0, NEW d \in flagged
                 PROVE  listed'[d] > 0 \/ \E v \in Worker : worker'[v].pc = "record" /\ worker'[v].ev = d
      BY <1>1, <2>1 DEF NoFinalizedLost
    <3>1. listed[d] > 0 \/ Recording(d)
      BY DEF EngineInv, NoFinalizedLost, Recording
    <3>2. d \in Call
      BY <1>3
    <3> QED BY <2>3, <2>5, <3>1, <3>2 DEF Recording, e
  <2> QED BY <2>6, <2>7
<1>5. ASSUME NEW r \in Loop, NEW e \in Call, LoopCheck(r, e)
      PROVE  ControlInv' /\ ThresholdsAgree' /\ NoFinalizedLost'
  <2>1. /\ worker' = worker
        /\ \/ UNCHANGED <<listed, flagged>>
           \/ addFinalizedEvent(e) /\ flagged' \subseteq flagged \cup {e}
    BY <1>5 DEF LoopCheck, Flag
  <2>2. \A d \in flagged : gen = 0 => d \in Call
    BY <1>3
  <2>3. listed' \in [Call -> Nat] /\ \A d \in Call : listed[d] > 0 => listed'[d] > 0
    BY <1>1, <1>2, <2>1 DEF ControlInv
  <2>4. ControlInv' /\ ThresholdsAgree'
    BY <1>1, <2>1, <2>3 DEF ControlInv, CopiesShape, StateShape, ThresholdsAgree, EngineInv
  <2>5. NoFinalizedLost'
    BY <1>1, <1>2, <2>1, <2>2, <2>3 DEF NoFinalizedLost, EngineInv
  <2> QED BY <2>4, <2>5
<1> QED BY <1>4, <1>5

(* The other steps list nothing, mark nothing and move no worker.           *)
LEMMA EngineOthersKeep ==
    ASSUME EngineInv,
           \/ DAGStep \/ Stop \/ (\E t \in Thresholds : SetVotingThreshold(t)) \/ UNCHANGED vars
           \/ \E r \in Loop : Start(r) \/ LoopDone(r) \/ LoopTick(r) \/ LoopEnd(r)
    PROVE  ControlInv' /\ ThresholdsAgree' /\ NoFinalizedLost'
<1> USE DEF dagVars, finalVars, thresholdVars, lsnapVars, engineVars
<1>1. UNCHANGED <<worker, listed, lsnap, lsaved, restore>>
  BY DEF DAGStep, Stop, SetVotingThreshold, vars, Start, LoopDone, LoopTick, LoopEnd
<1>2. gen' = gen /\ flagged' \subseteq flagged
  <2>1. CASE DAGStep
    BY <2>1 DEF DAGStep, RemoveNode, AddNode, UpdateNodeStake, NewEvent, NewEventCheck, NewEventInsert,
                NewEventLink, NewEventCompare, NewEventStore, RepairConsistency
  <2> QED BY <2>1 DEF Stop, SetVotingThreshold, vars, Start, LoopDone, LoopTick, LoopEnd
<1>3. UNCHANGED <<lThreshold, vThreshold>> \/ lThreshold' = vThreshold'
  BY DEF DAGStep, Stop, SetVotingThreshold, vars, Start, LoopDone, LoopTick, LoopEnd
<1> QED BY <1>1, <1>2, <1>3 DEF EngineInv, ControlInv, CopiesShape, StateShape, ThresholdsAgree, NoFinalizedLost

(* One restorer moves.                                                      *)
LEMMA RestorerMoves ==
    ASSUME CopiesShape, NEW k \in Restorer, NEW rec, restore' = [restore EXCEPT ![k] = rec],
           DOMAIN rec = DOMAIN NoRestore, StateShape(rec.state), rec.gen \in Nat, rec.gen <= gen',
           rec.pc # "idle" => gen' > 0, gen \in Nat, gen' \in Nat, gen <= gen', UNCHANGED <<lsnap, lsaved>>
    PROVE  CopiesShape'
<1>1. DOMAIN restore' = Restorer /\ restore'[k] = rec /\ \A j \in Restorer \ {k} : restore'[j] = restore[j]
  BY DEF CopiesShape
<1>2. \A g \in Nat : g <= gen => g <= gen'
  OBVIOUS
<1>3. gen > 0 => gen' > 0
  OBVIOUS
<1> QED BY <1>1, <1>2, <1>3 DEF CopiesShape, StateShape

(* Saving copies; restoring begins with a new generation of the graph.      *)
LEMMA SnapshotKeeps ==
    ASSUME EngineInv, SnapshotNext
    PROVE  ControlInv' /\ ThresholdsAgree' /\ NoFinalizedLost'
<1> USE DEF dagVars, finalVars, thresholdVars, engineVars
<1>1. ControlInv /\ CopiesShape /\ gen \in Nat
  BY DEF EngineInv, ControlInv
<1>2. CASE GetStateListed \/ GetStateDAG \/ GetStateVoting \/ GetStateFinalizer
  <2>1. UNCHANGED <<worker, listed, gen, flagged, lThreshold, vThreshold, restore>>
    BY <1>2 DEF GetStateListed, GetStateDAG, GetStateVoting, GetStateFinalizer, GetStateNodes,
                GetStateEvents, GetStateMax
  <2>2. StateShape(NoState) /\ StateShape([NoState EXCEPT !.listed = listed])
    BY <1>1 DEF StateShape, NoState, NoListing, ControlInv
  <2>3. \A v : /\ StateShape([lsnap EXCEPT !.gen = v]) /\ StateShape([lsnap EXCEPT !.dag = v])
               /\ StateShape([lsnap EXCEPT !.vThreshold = v]) /\ StateShape([lsnap EXCEPT !.finalizer = v])
    BY <1>1 DEF CopiesShape, StateShape, NoState
  <2>4. StateShape(lsnap)
    BY <1>1 DEF CopiesShape
  <2>5. StateShape(lsnap')
    BY <1>2, <2>2, <2>3, <2>4 DEF GetStateListed, GetStateDAG, GetStateVoting, GetStateFinalizer
  <2>6. \A s \in lsaved' : StateShape(s)
    BY <1>1, <1>2, <2>3 DEF GetStateListed, GetStateDAG, GetStateVoting, GetStateFinalizer, CopiesShape
  <2>7. CopiesShape'
    BY <1>1, <2>1, <2>5, <2>6 DEF CopiesShape, StateShape
  <2> QED BY <1>1, <2>1, <2>7 DEF EngineInv, ControlInv, ThresholdsAgree, NoFinalizedLost
<1>3. ASSUME NEW k \in Restorer, NEW s \in lsaved, RestoreStateDAG(k, s)
      PROVE  ControlInv' /\ ThresholdsAgree' /\ NoFinalizedLost'
  <2> DEFINE rec == [pc |-> "voting", state |-> s, gen |-> gen + 1]
  <2>1. /\ UNCHANGED <<worker, listed, lsnap, lsaved>> /\ gen' = gen + 1
        /\ restore' = [restore EXCEPT ![k] = rec]
    BY <1>3 DEF RestoreStateDAG, RestoreState
  <2>2. gen' \in Nat /\ gen' > 0 /\ gen <= gen' /\ gen' <= gen'
    BY <1>1, <2>1
  <2>3. DOMAIN rec = DOMAIN NoRestore /\ rec.state = s /\ rec.gen = gen'
    BY <2>1 DEF NoRestore
  <2>4. StateShape(s)
    BY <1>1 DEF CopiesShape
  <2> HIDE DEF rec
  <2>5. CopiesShape'
    BY <1>1, <2>1, <2>2, <2>3, <2>4, RestorerMoves
  <2> QED BY <1>1, <2>1, <2>2, <2>5 DEF ControlInv, ThresholdsAgree, NoFinalizedLost
<1>4. ASSUME NEW k \in Restorer, \/ RestoreStateVoting(k) \/ RestoreStateFinalizer(k)
                                 \/ RestoreStateListed(k) \/ RestoreStateFails(k) \/ RestoreStateReturns(k)
      PROVE  ControlInv' /\ ThresholdsAgree' /\ NoFinalizedLost'
  <2>1. /\ UNCHANGED <<worker, lsnap, lsaved, gen>> /\ restore[k].pc # "idle"
    BY <1>4 DEF RestoreStateVoting, RestoreStateFinalizer, RestoreStateListed, RestoreStateFails,
                RestoreStateReturns
  <2>2. gen > 0 /\ gen # 0 /\ StateShape(restore[k].state) /\ restore[k].gen \in Nat
        /\ restore[k].gen <= gen /\ DOMAIN restore[k] = DOMAIN NoRestore
    BY <1>1, <2>1 DEF CopiesShape
  <2>3. listed' \in [Call -> Nat]
    <3>1. CASE RestoreStateFails(k)
      <4>1. PICK all : listed' \in [Call -> 0..all]
        BY <3>1 DEF RestoreStateFails
      <4> QED BY <4>1
    <3>2. CASE ~RestoreStateFails(k)
      BY <1>1, <1>4, <2>2, <3>2 DEF RestoreStateVoting, RestoreStateFinalizer, RestoreStateListed,
                RestoreStateReturns, ControlInv, StateShape
    <3> QED BY <3>1, <3>2
  <2>4. \/ restore' = [restore EXCEPT ![k] = NoRestore]
        \/ \E v \in {"finalizer", "listed", "failed"} :
              restore' = [restore EXCEPT ![k] = [restore[k] EXCEPT !.pc = v]]
    BY <1>4 DEF RestoreStateVoting, RestoreStateFinalizer, RestoreStateListed, RestoreStateFails,
                RestoreStateReturns
  <2>5. /\ StateShape(NoRestore.state) /\ NoRestore.gen = 0 /\ 0 <= gen' /\ NoRestore.pc = "idle"
    <3>1. StateShape(NoState)
      BY DEF StateShape, NoState, NoListing
    <3> QED BY <1>1, <2>1, <3>1 DEF NoRestore
  <2>6. ASSUME NEW v
        PROVE  /\ DOMAIN [restore[k] EXCEPT !.pc = v] = DOMAIN NoRestore
               /\ [restore[k] EXCEPT !.pc = v].state = restore[k].state
               /\ [restore[k] EXCEPT !.pc = v].gen = restore[k].gen
    BY <2>2 DEF NoRestore
  <2>7. PICK rec : /\ restore' = [restore EXCEPT ![k] = rec] /\ DOMAIN rec = DOMAIN NoRestore
                   /\ StateShape(rec.state) /\ rec.gen \in Nat /\ rec.gen <= gen'
    <3>1. CASE restore' = [restore EXCEPT ![k] = NoRestore]
      <4>1. NoRestore.gen \in Nat /\ NoRestore.gen <= gen'
        BY <2>5
      <4> QED BY <2>5, <3>1, <4>1, Zenon
    <3>2. ASSUME NEW v, restore' = [restore EXCEPT ![k] = [restore[k] EXCEPT !.pc = v]]
          PROVE  \E rec : /\ restore' = [restore EXCEPT ![k] = rec] /\ DOMAIN rec = DOMAIN NoRestore
                          /\ StateShape(rec.state) /\ rec.gen \in Nat /\ rec.gen <= gen'
      <4> DEFINE rec == [restore[k] EXCEPT !.pc = v]
      <4>1. DOMAIN rec = DOMAIN NoRestore /\ rec.state = restore[k].state /\ rec.gen = restore[k].gen
        BY <2>6
      <4>2. restore' = [restore EXCEPT ![k] = rec]
        BY <3>2
      <4> HIDE DEF rec
      <4>3. StateShape(rec.state) /\ rec.gen \in Nat /\ rec.gen <= gen'
        BY <2>1, <2>2, <4>1
      <4> QED BY <4>1, <4>2, <4>3, Zenon
    <3> QED BY <2>4, <3>1, <3>2
  <2>8. gen' \in Nat /\ gen <= gen' /\ gen' > 0
    BY <1>1, <2>1, <2>2
  <2>9. CopiesShape'
    BY <1>1, <2>1, <2>7, <2>8, RestorerMoves
  <2> QED BY <1>1, <2>1, <2>2, <2>3, <2>9 DEF ControlInv, ThresholdsAgree, NoFinalizedLost
<1> QED BY <1>2, <1>3, <1>4 DEF SnapshotNext

(* The engine's invariant, for every interleaving of workers, loops, node   *)
(* changes, repairs, snapshots and restores.                                *)
THEOREM EngineInvariant == Spec => []EngineInv
<1>1. Init => EngineInv
  <2> SUFFICES ASSUME Init PROVE EngineInv
    OBVIOUS
  <2>1. DAGInv /\ gen = 0 /\ flagged = {}
    BY DAGInitInv DEF Init, DAGInit
  <2>2. ControlInv
    <3>1. IdleWorker \in WorkerType /\ IdleWorker.pc = "idle"
      BY DEF IdleWorker, WorkerType
    <3>2. NoListing \in [Call -> Nat]
      BY DEF NoListing
    <3>3. CopiesShape
      <4>1. StateShape(NoState) /\ NoRestore.state = NoState /\ NoRestore.gen = 0 /\ NoRestore.pc = "idle"
        BY <3>2 DEF StateShape, NoState, NoRestore
      <4> QED BY <2>1, <4>1 DEF Init, CopiesShape
    <3> QED BY <2>1, <3>1, <3>2, <3>3 DEF Init, ControlInv
  <2> QED BY <2>1, <2>2 DEF Init, EngineInv, ThresholdsAgree, NoFinalizedLost
<1>2. EngineInv /\ [Next]_vars => EngineInv'
  <2> SUFFICES ASSUME EngineInv, [Next]_vars PROVE EngineInv'
    OBVIOUS
  <2>1. DAGInv'
    BY EngineKeepsDAG DEF EngineInv
  <2>2. ControlInv' /\ ThresholdsAgree' /\ NoFinalizedLost'
    BY ProcessKeeps, RecordKeeps, EngineOthersKeep, SnapshotKeeps DEF Next, EngineNext
  <2> QED BY <2>1, <2>2 DEF EngineInv
<1> QED BY <1>1, <1>2, PTL DEF Spec

(* Neither the worker nor the loop marks an event without recording it.     *)
THEOREM MarkedIsRecorded == Spec => []NoFinalizedLost
BY EngineInvariant, PTL DEF EngineInv

(* Under the engine, too, heights grow along every edge.                    *)
THEOREM EngineHeightsGrow == Spec => []HeightAboveParents
BY EngineInvariant, DraftsGiveHeights, PTL DEF EngineInv

(* The vote of ProcessEvent and the rule of the loop say the same of every  *)
(* event of an active creator, whatever the stakes, the graph and the       *)
(* threshold.                                                               *)
THEOREM FinalityRulesAgree == Spec => []RulesAgree
<1>1. ASSUME NEW e PROVE e \in Ancestors(e)
  BY DEF Ancestors
<1>2. EngineInv => RulesAgree
  <2> SUFFICES ASSUME EngineInv, gen = 0, NEW e \in DOMAIN events,
                      IsActiveValidator(events[e].creator), GetTotalStake > 0
               PROVE  Vote(e, vThreshold) <=> detectFinality(e)
    BY DEF RulesAgree
  <2> DEFINE creator == draft[e].creator
             seen == {n \in ActiveNodes : HasSeen(n, e)}
             others == {n \in ActiveNodes \ {creator} : HasSeen(n, e)}
  <2>1. creator \in ActiveNodes /\ lThreshold = vThreshold
    BY DEF EngineInv, DAGInv, MapOK, DraftsInv, ThresholdsAgree, Inserted, ActiveNodes
  <2>2. HasSeen(creator, e)
    BY <1>1 DEF HasSeen
  <2>3. others \cup {creator} = seen /\ seen # {}
    BY <2>1, <2>2
  <2>4. /\ Vote(e, vThreshold) <=> 100 * StakeOf(others \cup {creator}) >= GetTotalStake * vThreshold
        /\ detectFinality(e) <=> seen # {} /\ 100 * StakeOf(seen) >= GetTotalStake * lThreshold
    BY DEF Vote, detectFinality
  <2> HIDE DEF seen, others, creator
  <2> QED BY <2>1, <2>3, <2>4
<1> QED BY <1>2, EngineInvariant, PTL

----------------------------------------------------------------------------
(* Saving and restoring the engine                                          *)

OfMap(S) == \A c \in S : c \in Call /\ npc[c] \in Inserted

(* A list that GetState copies or RestoreState puts back.                   *)
ListsInserted(s) == \A e \in Call : s.listed[e] > 0 => npc[e] \in Inserted

(* Whoever holds an event got it from the Events map.                       *)
HoldersInv ==
    /\ \A w \in Worker : worker[w].pc # "idle" => npc[worker[w].ev] \in Inserted
    /\ DOMAIN loop = Loop /\ \A r \in Loop : DOMAIN loop[r] = DOMAIN NoLoop /\ OfMap(loop[r].todo)
    /\ \A e \in Call : listed[e] > 0 => npc[e] \in Inserted
    /\ ListsInserted(lsnap) /\ (\A s \in lsaved : ListsInserted(s))
    /\ \A k \in Restorer : ListsInserted(restore[k].state)
    /\ gen = 0 => \A c \in Call : npc[c] \in Inserted => c \in DOMAIN events

(* Until the first restore, the events copied after the list hold all that  *)
(* was listed.                                                              *)
Restorable(s) == s.gen = 0 => \A e \in Call : s.listed[e] > 0 => e \in DOMAIN s.dag.events

(* The stages of GetState, and what a restore has put back so far unless    *)
(* another one has come after it.                                           *)
StagesInv ==
    /\ lstage # "dag" => spc = "idle"
    /\ lstage = "dag" /\ spc = "max" /\ lsnap.gen = 0 =>
          \A e \in Call : lsnap.listed[e] > 0 => e \in DOMAIN snap.events
    /\ lstage \in {"voting", "finalizer"} => Restorable(lsnap)
    /\ \A s \in lsaved : Restorable(s) /\ s.gen \in Nat
    /\ lsnap.gen \in Nat
    /\ \A k \in Restorer :
          /\ Restorable(restore[k].state) /\ restore[k].state.gen \in Nat
          /\ restore[k].pc # "idle" /\ restore[k].gen = gen =>
                DOMAIN restore[k].state.dag.events \subseteq DOMAIN events

SnapshotInv == EngineInv /\ HoldersInv /\ StagesInv /\ SnapshotRestorable

(* Once inserted, an event stays inserted, and without a repair and a       *)
(* restore it stays in the map.                                             *)
LEMMA InsertedStays ==
    ASSUME ~WithRepair, EngineInv, HoldersInv, [Next]_vars
    PROVE  /\ \A c \in Call : npc[c] \in Inserted => npc'[c] \in Inserted
           /\ gen' = 0 => \A c \in Call : npc'[c] \in Inserted => c \in DOMAIN events'
<1> USE DEF dagVars, callVars, snapVars
<1>1. ASSUME UNCHANGED <<npc, events>>, gen' = gen
      PROVE  /\ \A c \in Call : npc[c] \in Inserted => npc'[c] \in Inserted
             /\ gen' = 0 => \A c \in Call : npc'[c] \in Inserted => c \in DOMAIN events'
  BY <1>1 DEF HoldersInv
<1>2. ASSUME NEW c \in Call, NewEvent(c)
      PROVE  /\ \A d \in Call : npc[d] \in Inserted => npc'[d] \in Inserted
             /\ gen' = 0 => \A d \in Call : npc'[d] \in Inserted => d \in DOMAIN events'
  <2>1. npc \in [Call -> {"idle", "insert"} \cup Inserted] /\ gen' = gen
    BY <1>2 DEF EngineInv, DAGInv, DAGShape, NewEvent, NewEventCheck, NewEventInsert, NewEventLink,
                NewEventCompare, NewEventStore
  <2>2. CASE \E creator \in Node, parents \in ParentChoices : NewEventCheck(c, creator, parents)
    <3>1. npc[c] = "idle" /\ npc' = [npc EXCEPT ![c] = "insert"] /\ events' = events
      BY <2>2 DEF NewEventCheck
    <3> QED BY <2>1, <3>1 DEF HoldersInv, Inserted
  <2>3. CASE NewEventInsert(c)
    <3>1. npc' = [npc EXCEPT ![c] = "link"] /\ DOMAIN events' = DOMAIN events \cup {c}
      BY <2>3 DEF NewEventInsert
    <3> QED BY <2>1, <3>1 DEF HoldersInv, Inserted
  <2>4. CASE NewEventLink(c) \/ NewEventCompare(c) \/ NewEventStore(c)
    <3>1. /\ npc[c] \in Inserted /\ events' = events
          /\ \E s \in Inserted : npc' = [npc EXCEPT ![c] = s]
      BY <2>4 DEF NewEventLink, NewEventCompare, NewEventStore, Inserted
    <3> QED BY <2>1, <3>1 DEF HoldersInv
  <2> QED BY <1>2, <2>2, <2>3, <2>4 DEF NewEvent
<1>3. CASE \E k \in Restorer, s \in lsaved : RestoreStateDAG(k, s)
  <2>1. npc' = npc /\ gen' = gen + 1
    BY <1>3 DEF RestoreStateDAG, RestoreState
  <2>2. gen' # 0
    BY <2>1 DEF EngineInv, ControlInv
  <2> QED BY <2>1, <2>2
<1>4. CASE DAGStep
  <2>1. ASSUME NEW n \in Node, RemoveNode(n) \/ \E s \in Stakes : AddNode(n, s) \/ UpdateNodeStake(n, s)
        PROVE  UNCHANGED <<npc, events, gen>>
    BY <2>1 DEF RemoveNode, AddNode, UpdateNodeStake
  <2> QED BY <1>1, <1>2, <1>4, <2>1 DEF DAGStep, RepairConsistency
<1>5. CASE UNCHANGED vars \/ Stop \/ \E t \in Thresholds : SetVotingThreshold(t)
  BY <1>1, <1>5 DEF vars, Stop, SetVotingThreshold
<1>6. ASSUME NEW w \in Worker, \/ \E e \in Call : ProcessEvent(w, e)
                               \/ ProcessVote(w) \/ ProcessFinalize(w) \/ ProcessRecord(w)
      PROVE  UNCHANGED <<npc, events, gen>>
  BY <1>6 DEF ProcessEvent, ProcessVote, ProcessFinalize, ProcessRecord, dagButFlags
<1>7. ASSUME NEW r \in Loop, \/ Start(r) \/ LoopDone(r) \/ LoopTick(r) \/ LoopEnd(r)
                             \/ \E e \in Call : LoopCheck(r, e)
      PROVE  UNCHANGED <<npc, events, gen>>
  BY <1>7 DEF Start, LoopDone, LoopTick, LoopEnd, LoopCheck, dagButFlags
<1>8. CASE \/ GetStateListed \/ GetStateDAG \/ GetStateVoting \/ GetStateFinalizer
           \/ \E k \in Restorer : \/ RestoreStateVoting(k) \/ RestoreStateFinalizer(k)
                                  \/ RestoreStateListed(k) \/ RestoreStateFails(k) \/ RestoreStateReturns(k)
  <2>1. UNCHANGED <<npc, events, gen>>
    BY <1>8 DEF GetStateListed, GetStateDAG, GetStateVoting, GetStateFinalizer, GetStateNodes,
                GetStateEvents, GetStateMax, RestoreStateVoting, RestoreStateFinalizer, RestoreStateListed,
                RestoreStateFails, RestoreStateReturns
  <2> QED BY <1>1, <2>1
<1> QED BY <1>1, <1>3, <1>4, <1>5, <1>6, <1>7, <1>8 DEF Next, EngineNext, SnapshotNext

(* Workers, loops, the list and its copy hold inserted events only.         *)
LEMMA HoldersKeep ==
    ASSUME ~WithRepair, EngineInv, HoldersInv, [Next]_vars
    PROVE  HoldersInv'
<1> USE DEF dagVars, callVars, snapVars, finalVars, thresholdVars, lsnapVars, engineVars
<1>0. /\ \A c \in Call : npc[c] \in Inserted => npc'[c] \in Inserted
      /\ gen' = 0 => \A c \in Call : npc'[c] \in Inserted => c \in DOMAIN events'
  BY InsertedStays
<1>1. /\ worker \in [Worker -> WorkerType] /\ listed \in [Call -> Nat]
      /\ \A w \in Worker : worker[w].pc # "idle" => worker[w].ev \in Call
  BY DEF EngineInv, ControlInv
<1>2. worker' = worker => \A w \in Worker : worker'[w].pc # "idle" => npc'[worker'[w].ev] \in Inserted
  BY <1>0, <1>1 DEF HoldersInv
<1>3. loop' = loop => DOMAIN loop' = Loop /\ \A r \in Loop : DOMAIN loop'[r] = DOMAIN NoLoop /\ OfMap(loop[r].todo)'
  BY <1>0 DEF HoldersInv, OfMap
<1>4. listed' = listed => \A e \in Call : listed'[e] > 0 => npc'[e] \in Inserted
  BY <1>0 DEF HoldersInv
<1>5. ASSUME NEW e \in Call, npc[e] \in Inserted, addFinalizedEvent(e)
      PROVE  \A d \in Call : listed'[d] > 0 => npc'[d] \in Inserted
  BY <1>0, <1>1, <1>5 DEF HoldersInv, addFinalizedEvent
<1>10. UNCHANGED <<lsnap, lsaved, restore>> =>
         /\ ListsInserted(lsnap)' /\ (\A s \in lsaved : ListsInserted(s))'
         /\ (\A k \in Restorer : ListsInserted(restore[k].state))'
  BY <1>0 DEF HoldersInv, ListsInserted
<1>6. ASSUME NEW w \in Worker, \/ \E e \in Call : ProcessEvent(w, e)
                               \/ ProcessVote(w) \/ ProcessFinalize(w) \/ ProcessRecord(w)
      PROVE  HoldersInv'
  <2>1. loop' = loop /\ UNCHANGED <<lsnap, lsaved, restore>>
    BY <1>6 DEF ProcessEvent, ProcessVote, ProcessFinalize, ProcessRecord
  <2>2. IdleWorker.pc = "idle" /\ worker[w] \in WorkerType
    BY <1>1 DEF IdleWorker
  <2>3. \/ \E e \in Call : npc[e] = "done" /\ worker' = [worker EXCEPT ![w] = [pc |-> "lock", ev |-> e, gen |-> gen]]
        \/ worker' = [worker EXCEPT ![w] = IdleWorker]
        \/ \E s \in {"finalize", "record"} :
             worker[w].pc # "idle" /\ worker' = [worker EXCEPT ![w] = [worker[w] EXCEPT !.pc = s]]
    BY <1>6 DEF ProcessEvent, ProcessVote, ProcessFinalize, ProcessRecord, Finalize
  <2>4. PICK rec : /\ worker' = [worker EXCEPT ![w] = rec]
                   /\ rec.pc # "idle" => rec.ev \in Call /\ npc[rec.ev] \in Inserted
    <3>1. ASSUME NEW e \in Call, npc[e] = "done"
          PROVE  /\ [pc |-> "lock", ev |-> e, gen |-> gen].ev \in Call
                 /\ npc[[pc |-> "lock", ev |-> e, gen |-> gen].ev] \in Inserted
      BY <3>1 DEF Inserted
    <3>2. ASSUME NEW s \in {"finalize", "record"}, worker[w].pc # "idle"
          PROVE  /\ [worker[w] EXCEPT !.pc = s].ev \in Call
                 /\ npc[[worker[w] EXCEPT !.pc = s].ev] \in Inserted
      <4>1. [worker[w] EXCEPT !.pc = s].ev = worker[w].ev
        BY <2>2 DEF WorkerType
      <4> QED BY <1>1, <3>2, <4>1 DEF HoldersInv
    <3> QED BY <2>2, <2>3, <3>1, <3>2
  <2>5. \A v \in Worker : worker'[v].pc # "idle" => npc'[worker'[v].ev] \in Inserted
    <3>1. worker'[w] = rec /\ \A v \in Worker \ {w} : worker'[v] = worker[v]
      BY <1>1, <2>4
    <3> QED BY <1>0, <1>1, <2>4, <3>1 DEF HoldersInv
  <2>6. \A e \in Call : listed'[e] > 0 => npc'[e] \in Inserted
    <3>1. CASE ProcessRecord(w)
      <4>1. /\ worker[w].ev \in Call /\ npc[worker[w].ev] \in Inserted /\ addFinalizedEvent(worker[w].ev)
        BY <1>1, <3>1 DEF ProcessRecord, HoldersInv
      <4> QED BY <1>5, <2>1, <4>1
    <3>2. CASE ~ProcessRecord(w)
      BY <1>4, <1>6, <2>1, <3>2 DEF ProcessEvent, ProcessVote, ProcessFinalize
    <3> QED BY <3>1, <3>2
  <2> QED BY <1>0, <1>3, <1>10, <2>1, <2>5, <2>6 DEF HoldersInv
<1>7. ASSUME NEW r \in Loop, \/ Start(r) \/ LoopDone(r) \/ LoopTick(r) \/ LoopEnd(r)
                             \/ \E e \in Call : LoopCheck(r, e)
      PROVE  HoldersInv'
  <2>1. worker' = worker /\ UNCHANGED <<lsnap, lsaved, restore>>
    BY <1>7 DEF Start, LoopDone, LoopTick, LoopEnd, LoopCheck
  <2>2. PICK rec : /\ loop' = [loop EXCEPT ![r] = rec] /\ DOMAIN rec = DOMAIN NoLoop
                   /\ rec.todo \subseteq loop[r].todo \/ rec.todo = {} \/ rec.todo \subseteq DOMAIN events
    <3> DEFINE old == loop[r]
    <3>1. CASE Start(r)
      <4> DEFINE rec == [NoLoop EXCEPT !.pc = "scan", !.born = ctx + 1]
      <4>1. rec.todo = {} /\ DOMAIN rec = DOMAIN NoLoop
        BY DEF NoLoop
      <4>2. loop' = [loop EXCEPT ![r] = rec]
        BY <3>1 DEF Start
      <4> HIDE DEF rec
      <4> QED BY <4>1, <4>2
    <3>2. CASE LoopDone(r)
      <4>1. NoLoop.todo = {}
        BY DEF NoLoop
      <4> QED BY <3>2, <4>1 DEF LoopDone
    <3>3. CASE LoopTick(r)
      <4> DEFINE rec == [old EXCEPT !.pc = "scan", !.todo = DOMAIN events \ flagged, !.gen = gen]
      <4>1. DOMAIN rec = DOMAIN NoLoop /\ rec.todo \subseteq DOMAIN events
        BY DEF HoldersInv, NoLoop
      <4>2. loop' = [loop EXCEPT ![r] = rec]
        BY <3>3 DEF LoopTick
      <4> HIDE DEF rec
      <4> QED BY <4>1, <4>2
    <3>4. CASE LoopEnd(r)
      <4> DEFINE rec == [old EXCEPT !.pc = "select", !.ctx = ctx]
      <4>1. DOMAIN rec = DOMAIN NoLoop /\ rec.todo = old.todo
        BY DEF HoldersInv, NoLoop
      <4>2. loop' = [loop EXCEPT ![r] = rec]
        BY <3>4 DEF LoopEnd
      <4> HIDE DEF rec
      <4> QED BY <4>1, <4>2
    <3>5. CASE \E e \in Call : LoopCheck(r, e)
      <4>1. PICK e \in Call : LoopCheck(r, e)
        BY <3>5
      <4> DEFINE rec == [old EXCEPT !.todo = old.todo \ {e}]
      <4>2. DOMAIN rec = DOMAIN NoLoop /\ rec.todo \subseteq old.todo
        BY DEF HoldersInv, NoLoop
      <4>3. loop' = [loop EXCEPT ![r] = rec]
        BY <4>1 DEF LoopCheck
      <4> HIDE DEF rec
      <4> QED BY <4>2, <4>3
    <3> QED BY <1>7, <3>1, <3>2, <3>3, <3>4, <3>5
  <2>3. OfMap(DOMAIN events)
    BY DEF OfMap, EngineInv, DAGInv, MapOK
  <2>4. DOMAIN loop' = Loop /\ \A q \in Loop : DOMAIN loop'[q] = DOMAIN NoLoop /\ OfMap(loop[q].todo)'
    <3>1. DOMAIN loop' = Loop /\ loop'[r] = rec /\ \A q \in Loop \ {r} : loop'[q] = loop[q]
      BY <2>2 DEF HoldersInv
    <3>2. OfMap(rec.todo)
      BY <2>2, <2>3 DEF HoldersInv, OfMap
    <3> QED BY <1>0, <2>2, <3>1, <3>2 DEF HoldersInv, OfMap
  <2>5. \A e \in Call : listed'[e] > 0 => npc'[e] \in Inserted
    <3>1. ASSUME NEW e \in Call, LoopCheck(r, e), addFinalizedEvent(e)
          PROVE  npc[e] \in Inserted
      BY <3>1 DEF LoopCheck, HoldersInv, OfMap
    <3>2. listed' = listed \/ \E e \in Call : LoopCheck(r, e) /\ addFinalizedEvent(e)
      BY <1>7 DEF Start, LoopDone, LoopTick, LoopEnd, LoopCheck
    <3> QED BY <1>4, <1>5, <2>1, <3>1, <3>2
  <2> QED BY <1>0, <1>2, <1>10, <2>1, <2>4, <2>5 DEF HoldersInv
<1>8. CASE DAGStep \/ UNCHANGED vars \/ Stop \/ \E t \in Thresholds : SetVotingThreshold(t)
  <2>1. UNCHANGED <<worker, loop, listed, lsnap, lsaved, restore>>
    BY <1>8 DEF DAGStep, vars, Stop, SetVotingThreshold
  <2> QED BY <1>0, <1>2, <1>3, <1>4, <1>10, <2>1 DEF HoldersInv
<1>9. CASE SnapshotNext
  <2>1. UNCHANGED <<worker, loop>>
    BY <1>9 DEF SnapshotNext, GetStateListed, GetStateDAG, GetStateVoting, GetStateFinalizer,
                RestoreStateDAG, RestoreStateVoting, RestoreStateFinalizer, RestoreStateListed,
                RestoreStateFails, RestoreStateReturns
  <2>2. /\ ListsInserted(lsnap) /\ (\A s \in lsaved : ListsInserted(s)) /\ StateShape(lsnap)
        /\ \A k \in Restorer : ListsInserted(restore[k].state) /\ DOMAIN restore[k] = DOMAIN NoRestore
        /\ DOMAIN restore = Restorer
    <3>1. CopiesShape /\ HoldersInv
      BY DEF EngineInv, ControlInv
    <3>2. StateShape(lsnap) /\ DOMAIN restore = Restorer
      BY <3>1 DEF CopiesShape
    <3>3. \A k \in Restorer : DOMAIN restore[k] = DOMAIN NoRestore
      BY <3>1 DEF CopiesShape, StateShape
    <3>4. /\ ListsInserted(lsnap) /\ (\A s \in lsaved : ListsInserted(s))
          /\ \A k \in Restorer : ListsInserted(restore[k].state)
      BY <3>1, Zenon DEF HoldersInv
    <3> QED BY <3>2, <3>3, <3>4, Zenon
  <2>3. ListsInserted(NoState)
    BY DEF ListsInserted, NoState, NoListing
  <2>4. CASE GetStateListed \/ GetStateDAG \/ GetStateVoting \/ GetStateFinalizer
    <3>1. UNCHANGED <<listed, restore>>
      BY <2>4 DEF GetStateListed, GetStateDAG, GetStateVoting, GetStateFinalizer
    <3>2. ListsInserted([NoState EXCEPT !.listed = listed])
      BY DEF ListsInserted, NoState, HoldersInv
    <3>3. \A v : /\ ListsInserted([lsnap EXCEPT !.gen = v]) /\ ListsInserted([lsnap EXCEPT !.dag = v])
                 /\ ListsInserted([lsnap EXCEPT !.vThreshold = v])
                 /\ ListsInserted([lsnap EXCEPT !.finalizer = v])
      BY <2>2 DEF ListsInserted, StateShape, NoState
    <3>4. ListsInserted(lsnap')
      BY <2>2, <2>3, <2>4, <3>2, <3>3 DEF GetStateListed, GetStateDAG, GetStateVoting, GetStateFinalizer
    <3>5. \A s \in lsaved' : ListsInserted(s)
      BY <2>2, <2>4, <3>3 DEF GetStateListed, GetStateDAG, GetStateVoting, GetStateFinalizer
    <3>6. /\ ListsInserted(lsnap)' /\ (\A s \in lsaved : ListsInserted(s))'
          /\ (\A k \in Restorer : ListsInserted(restore[k].state))'
      BY <1>0, <2>2, <3>1, <3>4, <3>5 DEF ListsInserted
    <3> QED BY <1>0, <1>2, <1>3, <1>4, <2>1, <3>1, <3>6 DEF HoldersInv
  <2>5. CASE \E k \in Restorer : (\E s \in lsaved : RestoreStateDAG(k, s)) \/ RestoreStateVoting(k)
                 \/ RestoreStateFinalizer(k) \/ RestoreStateListed(k) \/ RestoreStateFails(k)
                 \/ RestoreStateReturns(k)
    <3>1. PICK k \in Restorer : (\E s \in lsaved : RestoreStateDAG(k, s)) \/ RestoreStateVoting(k)
                 \/ RestoreStateFinalizer(k) \/ RestoreStateListed(k) \/ RestoreStateFails(k)
                 \/ RestoreStateReturns(k)
      BY <2>5
    <3>2. UNCHANGED <<lsnap, lsaved>>
      BY <3>1 DEF RestoreStateDAG, RestoreStateVoting, RestoreStateFinalizer, RestoreStateListed,
                  RestoreStateFails, RestoreStateReturns
    <3>3. \A v : [restore[k] EXCEPT !.pc = v].state = restore[k].state
      BY <2>2 DEF NoRestore
    <3>4. PICK rec : restore' = [restore EXCEPT ![k] = rec] /\ ListsInserted(rec.state)
      <4>1. NoRestore.state = NoState
        BY DEF NoRestore
      <4>2. \A s, g : [pc |-> "voting", state |-> s, gen |-> g].state = s
        OBVIOUS
      <4>3. \/ restore' = [restore EXCEPT ![k] = NoRestore]
            \/ \E v : restore' = [restore EXCEPT ![k] = [restore[k] EXCEPT !.pc = v]]
            \/ \E s \in lsaved : restore' = [restore EXCEPT ![k] = [pc |-> "voting", state |-> s, gen |-> gen']]
        BY <3>1 DEF RestoreStateDAG, RestoreStateVoting, RestoreStateFinalizer, RestoreStateListed,
                    RestoreStateFails, RestoreStateReturns
      <4> QED BY <2>2, <2>3, <3>3, <4>1, <4>2, <4>3
    <3>5. \A j \in Restorer : ListsInserted(restore'[j].state)
      <4>1. restore'[k] = rec /\ \A j \in Restorer \ {k} : restore'[j] = restore[j]
        BY <2>2, <3>4
      <4> QED BY <2>2, <3>4, <4>1
    <3>6. \A e \in Call : listed'[e] > 0 => npc'[e] \in Inserted
      <4>1. CASE RestoreStateListed(k)
        <5>1. listed' = restore[k].state.listed
          BY <4>1 DEF RestoreStateListed
        <5> QED BY <1>0, <2>2, <5>1 DEF ListsInserted
      <4>2. CASE RestoreStateFails(k)
        <5>1. \A e \in Call : listed'[e] <= restore[k].state.listed[e]
          BY <4>2 DEF RestoreStateFails
        <5>2. /\ restore[k].state.listed \in [Call -> Nat]
              /\ \E all : listed' \in [Call -> 0..all]
          <6>1. CopiesShape
            BY DEF EngineInv, ControlInv
          <6>2. restore[k].state.listed \in [Call -> Nat]
            BY <6>1 DEF CopiesShape, StateShape
          <6>3. \E all : listed' \in [Call -> 0..all]
            BY <4>2 DEF RestoreStateFails
          <6> QED BY <6>2, <6>3
        <5>3. \A e \in Call : listed'[e] > 0 => restore[k].state.listed[e] > 0
          BY <5>1, <5>2
        <5> QED BY <1>0, <2>2, <5>3 DEF ListsInserted
      <4>3. CASE ~RestoreStateListed(k) /\ ~RestoreStateFails(k)
        BY <1>4, <3>1, <4>3 DEF RestoreStateDAG, RestoreStateVoting, RestoreStateFinalizer,
                                RestoreStateReturns
      <4> QED BY <4>1, <4>2, <4>3
    <3>7. /\ ListsInserted(lsnap)' /\ (\A s \in lsaved : ListsInserted(s))'
          /\ (\A j \in Restorer : ListsInserted(restore[j].state))'
      BY <1>0, <2>2, <3>2, <3>5 DEF ListsInserted
    <3> QED BY <1>0, <1>2, <1>3, <2>1, <3>6, <3>7 DEF HoldersInv
  <2> QED BY <1>9, <2>4, <2>5 DEF SnapshotNext
<1> QED BY <1>6, <1>7, <1>8, <1>9 DEF Next, EngineNext

(* Without a repair events leave the map only by a restore.                 *)
LEMMA MapGrows ==
    ASSUME ~WithRepair, EngineInv, [Next]_vars
    PROVE  /\ gen' \in Nat /\ gen <= gen'
           /\ gen' = gen => DOMAIN events \subseteq DOMAIN events'
<1> USE DEF dagVars, callVars, snapVars
<1>0. gen \in Nat
  BY DEF EngineInv, ControlInv
<1>1. ASSUME EngineNext \/ UNCHANGED vars PROVE gen' = gen /\ DOMAIN events \subseteq DOMAIN events'
  <2>1. CASE DAGStep
    BY <2>1 DEF DAGStep, RemoveNode, AddNode, UpdateNodeStake, NewEvent, NewEventCheck, NewEventInsert,
                NewEventLink, NewEventCompare, NewEventStore, RepairConsistency
  <2>2. ASSUME NEW w \in Worker, \/ \E e \in Call : ProcessEvent(w, e)
                                 \/ ProcessVote(w) \/ ProcessFinalize(w) \/ ProcessRecord(w)
        PROVE  UNCHANGED <<events, gen>>
    BY <2>2 DEF ProcessEvent, ProcessVote, ProcessFinalize, ProcessRecord, dagButFlags
  <2>3. ASSUME NEW r \in Loop, \/ Start(r) \/ LoopDone(r) \/ LoopTick(r) \/ LoopEnd(r)
                               \/ \E e \in Call : LoopCheck(r, e)
        PROVE  UNCHANGED <<events, gen>>
    BY <2>3 DEF Start, LoopDone, LoopTick, LoopEnd, LoopCheck, dagButFlags
  <2> QED BY <1>1, <2>1, <2>2, <2>3 DEF EngineNext, vars, Stop, SetVotingThreshold
<1>2. CASE \E k \in Restorer, s \in lsaved : RestoreStateDAG(k, s)
  <2>1. gen' = gen + 1
    BY <1>2 DEF RestoreStateDAG, RestoreState
  <2> QED BY <1>0, <2>1
<1>3. CASE \/ GetStateListed \/ GetStateDAG \/ GetStateVoting \/ GetStateFinalizer
           \/ \E k \in Restorer : \/ RestoreStateVoting(k) \/ RestoreStateFinalizer(k)
                                  \/ RestoreStateListed(k) \/ RestoreStateFails(k) \/ RestoreStateReturns(k)
  <2>1. UNCHANGED <<events, gen>>
    BY <1>3 DEF GetStateListed, GetStateDAG, GetStateVoting, GetStateFinalizer, GetStateNodes,
                GetStateEvents, GetStateMax, RestoreStateVoting, RestoreStateFinalizer, RestoreStateListed,
                RestoreStateFails, RestoreStateReturns
  <2> QED BY <1>0, <2>1
<1> QED BY <1>0, <1>1, <1>2, <1>3 DEF Next, SnapshotNext

(* The events are copied after the list, and put back before it.            *)
LEMMA StagesKeep ==
    ASSUME ~WithRepair, SnapshotInv, [Next]_vars
    PROVE  StagesInv' /\ SnapshotRestorable'
<1> USE DEF dagVars, callVars, snapVars, finalVars, thresholdVars, engineVars
<1>1. /\ StagesInv /\ SnapshotRestorable /\ gen \in Nat /\ gen' \in Nat /\ gen <= gen'
      /\ gen' = gen => DOMAIN events \subseteq DOMAIN events'
  BY MapGrows DEF SnapshotInv, EngineInv, ControlInv
<1>2. /\ DOMAIN snap = DOMAIN NoSnap /\ "events" \in DOMAIN NoSnap
      /\ DOMAIN lsnap = DOMAIN NoState /\ {"listed", "gen", "dag", "vThreshold", "finalizer"} = DOMAIN NoState
      /\ DOMAIN restore = Restorer
      /\ \A k \in Restorer : /\ DOMAIN restore[k] = DOMAIN NoRestore
                             /\ restore[k].gen \in Nat /\ restore[k].gen <= gen
  <2>1. EngineInv /\ DAGShape /\ CopiesShape /\ StateShape(lsnap)
    BY DEF SnapshotInv, EngineInv, DAGInv, ControlInv, CopiesShape
  <2>2. /\ DOMAIN snap = DOMAIN NoSnap /\ "events" \in DOMAIN NoSnap
        /\ DOMAIN lsnap = DOMAIN NoState /\ {"listed", "gen", "dag", "vThreshold", "finalizer"} = DOMAIN NoState
    BY <2>1 DEF DAGShape, NoSnap, StateShape, NoState
  <2>3. /\ DOMAIN restore = Restorer
        /\ \A k \in Restorer : /\ DOMAIN restore[k] = DOMAIN NoRestore
                               /\ restore[k].gen \in Nat /\ restore[k].gen <= gen
    BY <2>1 DEF CopiesShape, StateShape
  <2> QED BY <2>2, <2>3
<1>3. ASSUME UNCHANGED restore
      PROVE  /\ \A k \in Restorer :
                  /\ Restorable(restore'[k].state) /\ restore'[k].state.gen \in Nat
                  /\ restore'[k].pc # "idle" /\ restore'[k].gen = gen' =>
                        DOMAIN restore'[k].state.dag.events \subseteq DOMAIN events'
             /\ SnapshotRestorable'
  <2>1. \A k \in Restorer : restore[k].gen = gen' => gen' = gen
    BY <1>1, <1>2
  <2>2. \A k \in Restorer : restore[k].gen # gen => restore[k].gen # gen'
    BY <1>1, <1>2
  <2> QED BY <1>1, <1>3, <2>1, <2>2 DEF StagesInv, SnapshotRestorable
<1>4. CASE EngineNext \/ UNCHANGED vars
  <2>1. UNCHANGED <<lstage, lsnap, lsaved, restore, spc, snap>>
    <3>1. CASE DAGStep
      BY <3>1 DEF DAGStep, RemoveNode, AddNode, UpdateNodeStake, NewEvent, NewEventCheck, NewEventInsert,
                  NewEventLink, NewEventCompare, NewEventStore, RepairConsistency, lsnapVars
    <3>2. ASSUME NEW w \in Worker, \/ \E e \in Call : ProcessEvent(w, e)
                                   \/ ProcessVote(w) \/ ProcessFinalize(w) \/ ProcessRecord(w)
          PROVE  UNCHANGED <<lstage, lsnap, lsaved, restore, spc, snap>>
      BY <3>2 DEF ProcessEvent, ProcessVote, ProcessFinalize, ProcessRecord, dagButFlags, lsnapVars
    <3>3. ASSUME NEW r \in Loop, \/ Start(r) \/ LoopDone(r) \/ LoopTick(r) \/ LoopEnd(r)
                                 \/ \E e \in Call : LoopCheck(r, e)
          PROVE  UNCHANGED <<lstage, lsnap, lsaved, restore, spc, snap>>
      BY <3>3 DEF Start, LoopDone, LoopTick, LoopEnd, LoopCheck, dagButFlags, lsnapVars
    <3> QED BY <1>4, <3>1, <3>2, <3>3 DEF EngineNext, vars, Stop, SetVotingThreshold, lsnapVars
  <2> QED BY <1>1, <1>3, <2>1 DEF StagesInv, Restorable
<1>5. CASE GetStateListed
  <2>1. /\ lstage' = "dag" /\ lsnap' = [NoState EXCEPT !.listed = listed] /\ lstage = "idle"
        /\ UNCHANGED <<lsaved, restore, spc>>
    BY <1>5 DEF GetStateListed
  <2>2. lsnap'.gen = 0
    BY <2>1 DEF NoState
  <2>3. spc' = "idle"
    BY <1>1, <2>1 DEF StagesInv, GetStateListed
  <2> QED BY <1>1, <1>3, <2>1, <2>2, <2>3 DEF StagesInv, Restorable
<1>6. CASE GetStateDAG
  <2>1. lstage = "dag" /\ UNCHANGED <<lsaved, restore, gen>>
    BY <1>6 DEF GetStateDAG, GetStateNodes, GetStateEvents, GetStateMax
  <2>2. CASE GetStateNodes /\ UNCHANGED <<lstage, lsnap>>
    <3>1. spc' = "events"
      BY <2>2 DEF GetStateNodes
    <3> QED BY <1>1, <1>3, <2>1, <2>2, <3>1 DEF StagesInv, Restorable
  <2>3. CASE GetStateEvents /\ lsnap' = [lsnap EXCEPT !.gen = gen] /\ UNCHANGED lstage
    <3>1. snap'.events = events /\ spc' = "max" /\ lsnap'.gen = gen /\ lsnap'.listed = lsnap.listed
      BY <1>2, <2>3 DEF GetStateEvents
    <3>2. gen = 0 => \A e \in Call : lsnap.listed[e] > 0 => e \in DOMAIN events
      BY DEF SnapshotInv, HoldersInv, ListsInserted
    <3> QED BY <1>1, <1>3, <2>1, <2>3, <3>1, <3>2 DEF StagesInv, Restorable
  <2>4. CASE GetStateMax /\ lsnap' = [lsnap EXCEPT !.dag = Copied] /\ lstage' = "voting"
    <3>1. Copied.events = snap.events /\ spc = "max" /\ spc' = "idle"
      BY <1>2, <2>4 DEF GetStateMax, Copied
    <3>2. lsnap'.gen = lsnap.gen /\ lsnap'.listed = lsnap.listed /\ lsnap'.dag = Copied
      BY <1>2, <2>4
    <3>3. Restorable(lsnap')
      BY <1>1, <2>1, <3>1, <3>2 DEF StagesInv, Restorable
    <3> QED BY <1>1, <1>3, <2>1, <2>4, <3>1, <3>2, <3>3 DEF StagesInv, Restorable
  <2> QED BY <1>6, <2>2, <2>3, <2>4 DEF GetStateDAG
<1>7. CASE GetStateVoting
  <2>1. /\ lsnap'.gen = lsnap.gen /\ lsnap'.listed = lsnap.listed /\ lsnap'.dag = lsnap.dag
        /\ UNCHANGED <<lsaved, restore, spc>> /\ lstage = "voting" /\ lstage' = "finalizer"
    BY <1>2, <1>7 DEF GetStateVoting
  <2> QED BY <1>1, <1>3, <2>1 DEF StagesInv, Restorable
<1>8. CASE GetStateFinalizer
  <2> DEFINE s == [lsnap EXCEPT !.finalizer = finalizer]
  <2>1. /\ s.gen = lsnap.gen /\ s.listed = lsnap.listed /\ s.dag = lsnap.dag
    BY <1>2
  <2>2. /\ lsnap' = NoState /\ lsaved' = lsaved \cup {s} /\ NoState.gen = 0
        /\ UNCHANGED <<restore, spc>> /\ lstage = "finalizer" /\ lstage' = "idle"
    BY <1>8 DEF GetStateFinalizer, NoState
  <2> HIDE DEF s
  <2>3. Restorable(s) /\ s.gen \in Nat
    BY <1>1, <2>1, <2>2 DEF StagesInv, Restorable
  <2> QED BY <1>1, <1>3, <2>2, <2>3 DEF StagesInv, Restorable
<1>9. ASSUME NEW k \in Restorer, \/ \E s \in lsaved : RestoreStateDAG(k, s)
                                 \/ RestoreStateVoting(k) \/ RestoreStateFinalizer(k)
                                 \/ RestoreStateListed(k) \/ RestoreStateFails(k) \/ RestoreStateReturns(k)
      PROVE  StagesInv' /\ SnapshotRestorable'
  <2>1. UNCHANGED <<lstage, lsnap, lsaved, spc, snap>>
    BY <1>9 DEF RestoreStateDAG, RestoreState, RestoreStateVoting, RestoreStateFinalizer,
                RestoreStateListed, RestoreStateFails, RestoreStateReturns
  <2>2. PICK rec : /\ restore' = [restore EXCEPT ![k] = rec]
                   /\ Restorable(rec.state) /\ rec.state.gen \in Nat
                   /\ rec.pc # "idle" /\ rec.gen = gen' =>
                         DOMAIN rec.state.dag.events \subseteq DOMAIN events'
                   /\ rec.pc = "failed" => rec.state.gen > 0 \/ rec.gen # gen'
    <3>1. CASE \E s \in lsaved : RestoreStateDAG(k, s)
      <4>1. PICK s \in lsaved : RestoreStateDAG(k, s)
        BY <3>1
      <4> DEFINE rec == [pc |-> "voting", state |-> s, gen |-> gen']
      <4>2. rec.pc = "voting" /\ rec.state = s
        OBVIOUS
      <4>3. restore' = [restore EXCEPT ![k] = rec] /\ events' = s.dag.events
        BY <4>1 DEF RestoreStateDAG, RestoreState
      <4> HIDE DEF rec
      <4>4. Restorable(s) /\ s.gen \in Nat
        BY <1>1 DEF StagesInv
      <4> QED BY <4>2, <4>3, <4>4
    <3>2. CASE RestoreStateListed(k) \/ RestoreStateReturns(k)
      <4>1. restore' = [restore EXCEPT ![k] = NoRestore]
        BY <3>2 DEF RestoreStateListed, RestoreStateReturns
      <4>2. NoRestore.pc = "idle" /\ NoRestore.state.gen = 0 /\ NoRestore.state.listed = [e \in Call |-> 0]
        BY DEF NoRestore, NoState, NoListing
      <4>3. Restorable(NoRestore.state)
        BY <4>2 DEF Restorable
      <4>4. /\ NoRestore.state.gen \in Nat /\ ~(NoRestore.pc # "idle") /\ ~(NoRestore.pc = "failed")
        BY <4>2
      <4> QED BY <4>1, <4>3, <4>4, Zenon
    <3>3. CASE RestoreStateVoting(k) \/ RestoreStateFinalizer(k) \/ RestoreStateFails(k)
      <4>1. PICK v \in {"finalizer", "listed", "failed"} :
               restore' = [restore EXCEPT ![k] = [restore[k] EXCEPT !.pc = v]]
        BY <3>3 DEF RestoreStateVoting, RestoreStateFinalizer, RestoreStateFails
      <4> DEFINE rec == [restore[k] EXCEPT !.pc = v]
      <4>2. rec.pc = v /\ rec.state = restore[k].state /\ rec.gen = restore[k].gen
        BY <1>2 DEF NoRestore
      <4>3. restore' = [restore EXCEPT ![k] = rec]
        BY <4>1
      <4> HIDE DEF rec
      <4>4. restore[k].pc # "idle" /\ UNCHANGED <<events, gen>>
        BY <3>3 DEF RestoreStateVoting, RestoreStateFinalizer, RestoreStateFails
      <4>5. Restorable(restore[k].state) /\ restore[k].state.gen \in Nat
            /\ (restore[k].gen = gen => DOMAIN restore[k].state.dag.events \subseteq DOMAIN events)
        BY <1>1, <4>4 DEF StagesInv
      <4>6. v = "failed" => restore[k].state.gen > 0 \/ restore[k].gen # gen
        <5>1. CASE RestoreStateFails(k)
          <6>1. PICK e \in Call : restore[k].state.listed[e] > 0 /\ e \notin DOMAIN events
            BY <5>1 DEF RestoreStateFails, MissingFromDAG
          <6> QED BY <4>5, <6>1 DEF Restorable
        <5>2. CASE RestoreStateVoting(k) \/ RestoreStateFinalizer(k)
          <6>1. restore'[k].pc # "failed"
            BY <1>2, <5>2 DEF RestoreStateVoting, RestoreStateFinalizer, NoRestore
          <6>2. restore'[k].pc = v
            BY <1>2, <4>2, <4>3
          <6> QED BY <6>1, <6>2
        <5> QED BY <3>3, <5>1, <5>2
      <4> QED BY <4>2, <4>3, <4>4, <4>5, <4>6
    <3> QED BY <1>9, <3>1, <3>2, <3>3
  <2>3. restore'[k] = rec /\ \A j \in Restorer \ {k} : restore'[j] = restore[j]
    BY <1>2, <2>2
  <2>4. \A j \in Restorer \ {k} :
           /\ Restorable(restore'[j].state) /\ restore'[j].state.gen \in Nat
           /\ restore'[j].pc # "idle" /\ restore'[j].gen = gen' =>
                 DOMAIN restore'[j].state.dag.events \subseteq DOMAIN events'
           /\ restore'[j].pc = "failed" => restore'[j].state.gen > 0 \/ restore'[j].gen # gen'
    <3>1. \A j \in Restorer : restore[j].gen = gen' => gen' = gen
      BY <1>1, <1>2
    <3>2. \A j \in Restorer : restore[j].gen # gen => restore[j].gen # gen'
      BY <1>1, <1>2
    <3> QED BY <1>1, <2>3, <3>1, <3>2 DEF StagesInv, SnapshotRestorable
  <2>5. \A j \in Restorer :
           /\ Restorable(restore'[j].state) /\ restore'[j].state.gen \in Nat
           /\ restore'[j].pc # "idle" /\ restore'[j].gen = gen' =>
                 DOMAIN restore'[j].state.dag.events \subseteq DOMAIN events'
           /\ restore'[j].pc = "failed" => restore'[j].state.gen > 0 \/ restore'[j].gen # gen'
    BY <2>2, <2>3, <2>4
  <2>6. SnapshotRestorable'
    BY <2>5 DEF SnapshotRestorable
  <2> QED BY <1>1, <2>1, <2>5, <2>6 DEF StagesInv, Restorable
<1> QED BY <1>4, <1>5, <1>6, <1>7, <1>8, <1>9 DEF Next, SnapshotNext

(* What GetState copied before the first restore can be restored, whatever  *)
(* workers and loops list while it copies, and whatever has been restored   *)
(* since, unless another restore comes between the steps.  A repair could   *)
(* take out an event that is on the list already.                           *)
THEOREM SavedStateRestorable ==
    ASSUME ~WithRepair
    PROVE  Spec => []SnapshotRestorable
<1>1. Init => HoldersInv /\ StagesInv /\ SnapshotRestorable
  <2> SUFFICES ASSUME Init PROVE HoldersInv /\ StagesInv /\ SnapshotRestorable
    OBVIOUS
  <2>1. /\ \A w \in Worker : worker[w].pc = "idle" /\ DOMAIN loop = Loop
        /\ \A r \in Loop : loop[r] = NoLoop /\ NoLoop.todo = {}
    BY DEF Init, IdleWorker, NoLoop
  <2>2. /\ \A e \in Call : listed[e] = 0 /\ NoState.listed[e] = 0
        /\ \A c \in Call : npc[c] = "idle"
        /\ NoRestore.state = NoState /\ NoRestore.pc = "idle" /\ NoState.gen = 0
        /\ lsnap = NoState /\ lsaved = {} /\ \A k \in Restorer : restore[k] = NoRestore
    BY DEF Init, DAGInit, NoListing, NoState, NoRestore
  <2>3. DOMAIN loop = Loop
    BY DEF Init
  <2>4. HoldersInv
    BY <2>1, <2>2, <2>3 DEF HoldersInv, OfMap, Inserted, ListsInserted
  <2>5. StagesInv /\ SnapshotRestorable
    BY <2>2 DEF Init, DAGInit, StagesInv, Restorable, SnapshotRestorable
  <2> QED BY <2>4, <2>5
<1>2. SnapshotInv /\ EngineInv' /\ [Next]_vars => HoldersInv' /\ StagesInv' /\ SnapshotRestorable'
  BY HoldersKeep, StagesKeep DEF SnapshotInv
<1> QED BY <1>1, <1>2, EngineInvariant, PTL DEF Spec, SnapshotInv

----------------------------------------------------------------------------
(* Gossip                                                                   *)

EventID == Known \cup Nat

GossipShape ==
    /\ queue \in Seq(Seq(EventID)) /\ DOMAIN gloop = LoopIDs
    /\ peers \in [Peers -> Nat] /\ stopChannels \in [Peers -> Nat]
    /\ created \subseteq Known /\ copies \in Nat

(* A channel is in one entry of one of the maps, and what is in a map is    *)
(* open: Stop takes the stop channels out of their map and leaves the       *)
(* peers', RemovePeer closes what is left of both, RestoreState forgets     *)
(* the old ones.                                                            *)
ChannelsInv ==
    /\ ~broken
    /\ \A c \in closed : c \in Nat /\ c <= Len(queue)
    /\ \A p \in Peers : /\ peers[p] # NoChannel => peers[p] \notin closed /\ peers[p] <= Len(queue)
                        /\ stopChannels[p] # NoChannel =>
                              stopChannels[p] \notin closed /\ stopChannels[p] <= Len(queue)
    /\ \A p, q \in Peers :
          /\ p # q /\ peers[p] # NoChannel => peers[p] # peers[q]
          /\ p # q /\ stopChannels[p] # NoChannel => stopChannels[p] # stopChannels[q]
          /\ peers[p] # NoChannel => peers[p] # stopChannels[q]

(* The events that there are: everything in the DAG, in the channels and    *)
(* in somebody's hands is one of them.                                      *)
Existing == created \cup (1..copies)
CarriedInv ==
    /\ \A i \in 1..Len(queue) : \A k \in 1..Len(queue[i]) : queue[i][k] \in Existing
    /\ dagIDs \subseteq Existing /\ sending \subseteq Existing
    /\ \A l \in LoopIDs :
          /\ gloop[l].pc = "select" => gloop[l].ch \in 1..Len(queue)
          /\ gloop[l].pc \in {"lookup", "forward"} => gloop[l].event \in Existing

(* Before the restore nothing is missing from the DAG, and nothing is       *)
(* copied; afterwards only events of CreateEvent are missing, for ever.     *)
CopiesInv ==
    /\ saved.pc \in {"none", "gossip", "saved", "restoring", "restored"}
    /\ saved.pc \in {"gossip", "saved"} => saved.dag \subseteq created
    /\ saved.pc \in {"saved", "restoring"} =>
          saved.peers \subseteq Peers /\ saved = [pc |-> saved.pc, dag |-> saved.dag, peers |-> saved.peers]
    /\ saved.pc \notin {"restoring", "restored"} => created \subseteq dagIDs /\ copies = 0
    /\ 1..copies \subseteq dagIDs
    /\ \A l \in LoopIDs : gloop[l].pc = "insert" => gloop[l].event \in created \ dagIDs
    /\ CopiesNeedRestore

GossipInv == GossipShape /\ ChannelsInv /\ CarriedInv /\ CopiesInv

(* New channels are empty.                                                  *)
LEMMA NewChannels ==
    ASSUME GossipInv, NEW t \in Seq({<<>>}), queue' = queue \o t
    PROVE  /\ queue' \in Seq(Seq(EventID)) /\ Len(queue') = Len(queue) + Len(t)
           /\ \A i \in 1..Len(queue') : \A k \in 1..Len(queue'[i]) : queue'[i][k] \in Existing
<1>1. queue \in Seq(Seq(EventID)) /\ Len(queue) \in Nat /\ Len(t) \in Nat
  BY DEF GossipInv, GossipShape
<1>2. <<>> \in Seq(EventID) /\ Len(<<>>) = 0
  OBVIOUS
<1>3. t \in Seq(Seq(EventID)) /\ \A i \in 1..Len(t) : t[i] = <<>>
  <2>1. t \in [1..Len(t) -> {<<>>}]
    OBVIOUS
  <2>2. \A i \in 1..Len(t) : t[i] = <<>>
    BY <2>1
  <2>3. t \in [1..Len(t) -> Seq(EventID)]
    BY <1>2, <2>1
  <2> QED BY <1>1, <2>2, <2>3
<1>4. /\ queue' \in Seq(Seq(EventID)) /\ Len(queue') = Len(queue) + Len(t)
      /\ \A i \in 1..Len(queue') : queue'[i] = IF i <= Len(queue) THEN queue[i] ELSE t[i - Len(queue)]
  BY <1>1, <1>3
<1>5. \A i \in 1..Len(queue') : (i \in 1..Len(queue) /\ queue'[i] = queue[i]) \/ queue'[i] = <<>>
  BY <1>1, <1>3, <1>4
<1>6. \A i \in 1..Len(queue') : \A k \in 1..Len(queue'[i]) : queue'[i][k] \in Existing
  BY <1>2, <1>5 DEF GossipInv, CarriedInv
<1> QED BY <1>4, <1>6

(* BroadcastEvent puts the event on open channels only.                     *)
LEMMA BroadcastKeeps ==
    ASSUME GossipInv, NEW e \in Existing, NEW x, BroadcastEvent(e, x)
    PROVE  /\ queue' \in Seq(Seq(EventID)) /\ Len(queue') = Len(queue) /\ ~broken'
           /\ \A i \in 1..Len(queue') : \A k \in 1..Len(queue'[i]) : queue'[i][k] \in Existing
<1> DEFINE to == {peers[p] : p \in Peers \ {x}} \ {NoChannel}
<1>1. queue \in Seq(Seq(EventID)) /\ Len(queue) \in Nat /\ e \in EventID
  BY DEF GossipInv, GossipShape, Existing, EventID
<1>2. to \cap closed = {}
  BY DEF GossipInv, ChannelsInv
<1>3. /\ queue' = [i \in DOMAIN queue |-> IF i \in to \ closed /\ Len(queue[i]) < ChanSize
                                          THEN Append(queue[i], e) ELSE queue[i]]
      /\ broken' = (broken \/ to \cap closed # {})
  BY DEF BroadcastEvent
<1>4. ~broken'
  BY <1>2, <1>3 DEF GossipInv, ChannelsInv
<1> HIDE DEF to
<1>5. DOMAIN queue = 1..Len(queue) /\ \A i \in 1..Len(queue) : queue[i] \in Seq(EventID)
  BY <1>1
<1>6. \A i \in 1..Len(queue) : Append(queue[i], e) \in Seq(EventID)
  BY <1>1, <1>5
<1>7. queue' \in Seq(Seq(EventID)) /\ Len(queue') = Len(queue)
  <2>1. queue' \in [1..Len(queue) -> Seq(EventID)]
    BY <1>3, <1>5, <1>6
  <2> QED BY <1>1, <2>1
<1>8. \A i \in 1..Len(queue) : \A k \in 1..Len(queue'[i]) : queue'[i][k] \in Existing
  <2> SUFFICES ASSUME NEW i \in 1..Len(queue), NEW k \in 1..Len(queue'[i])
               PROVE  queue'[i][k] \in Existing
    OBVIOUS
  <2>1. queue'[i] = queue[i] \/ queue'[i] = Append(queue[i], e)
    BY <1>3, <1>5
  <2>2. \A j \in 1..Len(queue[i]) : queue[i][j] \in Existing
    BY DEF GossipInv, CarriedInv
  <2>3. /\ queue[i] \in Seq(EventID) /\ Len(queue[i]) \in Nat
    BY <1>5
  <2>4. CASE queue'[i] = Append(queue[i], e)
    <3>1. k \in 1..(Len(queue[i]) + 1) /\ queue'[i][k] = IF k <= Len(queue[i]) THEN queue[i][k] ELSE e
      BY <2>3, <2>4
    <3> QED BY <2>2, <2>3, <3>1
  <2> QED BY <2>1, <2>2, <2>4
<1> QED BY <1>4, <1>7, <1>8

(* The peers' channels come and go.                                         *)
LEMMA ChannelsKeep ==
    ASSUME GossipInv, \/ \E p \in Peers : AddPeer(p) \/ RemovePeer(p)
                      \/ StopLoops
    PROVE  GossipInv'
<1> USE DEF NoChannel
<1>1. GossipShape /\ ChannelsInv /\ CarriedInv /\ CopiesInv /\ Len(queue) \in Nat
  BY DEF GossipInv, GossipShape
<1>2. UNCHANGED <<dagIDs, created, copies, gloop, sending, saved>>
  BY DEF AddPeer, RemovePeer, StopLoops
<1>3. CopiesInv' /\ Existing' = Existing
  BY <1>1, <1>2 DEF CopiesInv, CopiesNeedRestore, Existing
<1>4. ASSUME NEW p \in Peers, AddPeer(p)
      PROVE  GossipInv'
  <2> DEFINE t == << <<>>, <<>> >>
             n == Len(queue)
  <2>1. /\ queue' = queue \o t /\ UNCHANGED <<closed, broken>>
        /\ peers' = [peers EXCEPT ![p] = n + 1] /\ stopChannels' = [stopChannels EXCEPT ![p] = n + 2]
    BY <1>4 DEF AddPeer
  <2>2. t \in Seq({<<>>}) /\ Len(t) = 2
    OBVIOUS
  <2> HIDE DEF t
  <2>3. /\ queue' \in Seq(Seq(EventID)) /\ Len(queue') = n + 2
        /\ \A i \in 1..Len(queue') : \A k \in 1..Len(queue'[i]) : queue'[i][k] \in Existing
    BY <2>1, <2>2, NewChannels
  <2>4. GossipShape'
    BY <1>1, <1>2, <2>1, <2>3 DEF GossipShape
  <2>5. CarriedInv'
    BY <1>1, <1>2, <1>3, <2>3 DEF CarriedInv
  <2>6. /\ peers'[p] = n + 1 /\ stopChannels'[p] = n + 2
        /\ \A q \in Peers \ {p} : peers'[q] = peers[q] /\ stopChannels'[q] = stopChannels[q]
        /\ \A q \in Peers : peers[q] \in Nat /\ stopChannels[q] \in Nat
        /\ \A q \in Peers : peers[q] <= n /\ stopChannels[q] <= n
    BY <1>1, <2>1 DEF GossipShape, ChannelsInv
  <2>7. ChannelsInv'
    <3> HIDE DEF n
    <3>1. n \in Nat /\ n = Len(queue)
      BY <1>1 DEF n
    <3>2. \A c \in closed : c \in Nat /\ c <= n
      BY <1>1, <3>1 DEF ChannelsInv
    <3>3. \A q \in Peers : /\ peers'[q] # 0 => peers'[q] \notin closed /\ peers'[q] <= n + 2
                           /\ stopChannels'[q] # 0 => stopChannels'[q] \notin closed /\ stopChannels'[q] <= n + 2
      BY <1>1, <2>6, <3>1, <3>2 DEF ChannelsInv
    <3>4. \A q, r \in Peers :
             /\ q # r /\ peers'[q] # 0 => peers'[q] # peers'[r]
             /\ q # r /\ stopChannels'[q] # 0 => stopChannels'[q] # stopChannels'[r]
             /\ peers'[q] # 0 => peers'[q] # stopChannels'[r]
      BY <1>1, <2>6, <3>1 DEF ChannelsInv
    <3> QED BY <1>1, <2>1, <2>3, <3>1, <3>2, <3>3, <3>4 DEF ChannelsInv
  <2> QED BY <1>3, <2>4, <2>5, <2>7 DEF GossipInv
<1>5. ASSUME NEW p \in Peers, RemovePeer(p)
      PROVE  GossipInv'
  <2> DEFINE C == {peers[p], stopChannels[p]} \ {NoChannel}
  <2>1. /\ queue' = queue /\ closed' = closed \cup C /\ broken' = (broken \/ C \cap closed # {})
        /\ peers' = [peers EXCEPT ![p] = 0] /\ stopChannels' = [stopChannels EXCEPT ![p] = 0]
    BY <1>5 DEF RemovePeer, Close
  <2>2. GossipShape' /\ CarriedInv'
    BY <1>1, <1>2, <1>3, <2>1 DEF GossipShape, CarriedInv
  <2>3. C \cap closed = {} /\ \A c \in C : c \in Nat /\ c <= Len(queue)
    BY <1>1 DEF GossipShape, ChannelsInv
  <2>4. ~broken' /\ \A c \in closed' : c \in Nat /\ c <= Len(queue')
    BY <1>1, <2>1, <2>3 DEF ChannelsInv
  <2>5. /\ peers'[p] = 0 /\ stopChannels'[p] = 0
        /\ \A q \in Peers \ {p} : peers'[q] = peers[q] /\ stopChannels'[q] = stopChannels[q]
    BY <1>1, <2>1 DEF GossipShape
  <2>6. ChannelsInv'
    BY <1>1, <2>1, <2>4, <2>5 DEF ChannelsInv
  <2> QED BY <1>3, <2>2, <2>6 DEF GossipInv
<1>6. ASSUME StopLoops
      PROVE  GossipInv'
  <2> DEFINE C == {stopChannels[p] : p \in Peers} \ {NoChannel}
  <2>1. /\ UNCHANGED <<queue, peers>> /\ closed' = closed \cup C
        /\ broken' = (broken \/ C \cap closed # {})
        /\ stopChannels' = [p \in Peers |-> 0]
    BY <1>6 DEF StopLoops, Close
  <2>2. GossipShape' /\ CarriedInv'
    BY <1>1, <1>2, <1>3, <2>1 DEF GossipShape, CarriedInv
  <2>3. C \cap closed = {} /\ \A c \in C : c \in Nat /\ c <= Len(queue)
    BY <1>1 DEF GossipShape, ChannelsInv
  <2>4. ~broken' /\ \A c \in closed' : c \in Nat /\ c <= Len(queue')
    BY <1>1, <2>1, <2>3 DEF ChannelsInv
  <2>5. \A q \in Peers : stopChannels'[q] = 0 /\ peers[q] \notin C
    BY <1>1, <2>1 DEF ChannelsInv
  <2>6. ChannelsInv'
    BY <1>1, <2>1, <2>4, <2>5 DEF ChannelsInv
  <2> QED BY <1>3, <2>2, <2>6 DEF GossipInv
<1> QED BY <1>4, <1>5, <1>6

(* A finite set can be numbered.                                            *)
LEMMA Numbering ==
    ASSUME NEW S, IsFiniteSet(S)
    PROVE  /\ Cardinality(S) \in Nat
           /\ \E f \in [S -> 1..Cardinality(S)] : \A q, r \in S : q # r => f[q] # f[r]
<1> DEFINE N == Cardinality(S)
<1>1. N \in Nat /\ ExistsBijection(1..N, S)
  BY FS_CardinalityType
<1> HIDE DEF N
<1>2. PICK b \in Bijection(1..N, S) : TRUE
  BY <1>1 DEF ExistsBijection
<1>3. \A s \in S : \E i \in 1..N : b[i] = s
  BY <1>2 DEF Bijection, Surjection
<1> DEFINE f == [s \in S |-> CHOOSE i \in 1..N : b[i] = s]
<1>4. \A s \in S : f[s] \in 1..N /\ b[f[s]] = s
  BY <1>3
<1>5. f \in [S -> 1..N]
  BY <1>4
<1> HIDE DEF f
<1>6. \A q, r \in S : q # r => f[q] # f[r]
  BY <1>4
<1> QED BY <1>1, <1>5, <1>6 DEF N

(* RestoreState of the gossip: every saved peer gets two new channels.      *)
LEMMA RestorePeersKeeps ==
    ASSUME GossipInv, RestorePeers
    PROVE  GossipInv'
<1> USE DEF NoChannel
<1> DEFINE n == Len(queue)
           S == saved.peers
           N == Cardinality(S)
           rank == CHOOSE f \in [S -> 1..N] : \A q, r \in S : q # r => f[q] # f[r]
           t == [i \in 1..(2 * N) |-> <<>>]
<1>1. GossipShape /\ ChannelsInv /\ CarriedInv /\ CopiesInv /\ n \in Nat
  BY DEF GossipInv, GossipShape
<1>2. /\ UNCHANGED <<dagIDs, created, copies, gloop, sending, closed, broken>>
      /\ saved.pc = "restoring" /\ saved' = [pc |-> "restored"]
  BY DEF RestorePeers
<1>3. /\ queue' = queue \o t
      /\ peers' = [p \in Peers |-> IF p \in S THEN n + 2 * (rank[p] - 1) + 1 ELSE 0]
      /\ stopChannels' = [p \in Peers |-> IF p \in S THEN n + 2 * (rank[p] - 1) + 2 ELSE 0]
  BY DEF RestorePeers
<1>4. S \subseteq Peers /\ IsFiniteSet(S)
  <2>1. S \subseteq Peers
    BY <1>1, <1>2 DEF CopiesInv
  <2> QED BY <2>1, FS_Subset, GossipAssumption
<1>5. N \in Nat /\ rank \in [S -> 1..N] /\ \A q, r \in S : q # r => rank[q] # rank[r]
  <2> HIDE DEF S
  <2>1. N \in Nat /\ \E f \in [S -> 1..N] : \A q, r \in S : q # r => f[q] # f[r]
    BY <1>4, Numbering
  <2> HIDE DEF N
  <2> QED BY <2>1
<1>6. t \in Seq({<<>>}) /\ Len(t) = 2 * N
  <2> HIDE DEF N
  <2>1. 2 * N \in Nat
    BY <1>5
  <2> QED BY <2>1
<1> HIDE DEF t, rank, N, S, n
<1>7. /\ queue' \in Seq(Seq(EventID)) /\ Len(queue') = n + 2 * N
      /\ \A i \in 1..Len(queue') : \A k \in 1..Len(queue'[i]) : queue'[i][k] \in Existing
  BY <1>3, <1>6, NewChannels DEF n
<1>8. /\ \A p \in Peers \ S : peers'[p] = 0 /\ stopChannels'[p] = 0
      /\ \A p \in S : /\ peers'[p] = n + 2 * (rank[p] - 1) + 1 /\ stopChannels'[p] = n + 2 * (rank[p] - 1) + 2
                      /\ rank[p] \in Nat /\ 1 <= rank[p] /\ rank[p] <= N
  BY <1>3, <1>4, <1>5
<1>9. \A p \in S : /\ peers'[p] \in Nat /\ n < peers'[p] /\ peers'[p] <= n + 2 * N
                   /\ stopChannels'[p] \in Nat /\ n < stopChannels'[p] /\ stopChannels'[p] <= n + 2 * N
  BY <1>1, <1>5, <1>8
<1>10. GossipShape'
  <2>1. \A p \in Peers : peers'[p] \in Nat /\ stopChannels'[p] \in Nat
    BY <1>8, <1>9
  <2>2. peers' \in [Peers -> Nat] /\ stopChannels' \in [Peers -> Nat]
    BY <1>3, <2>1
  <2> QED BY <1>1, <1>2, <1>7, <2>2 DEF GossipShape
<1>11. ChannelsInv'
  <2>1. \A c \in closed : c \in Nat /\ c <= n
    BY <1>1 DEF ChannelsInv, n
  <2>2. \A p, q \in S : /\ p # q => peers'[p] # peers'[q] /\ stopChannels'[p] # stopChannels'[q]
                        /\ peers'[p] # stopChannels'[q]
    <3>1. \A a, b \in Nat : /\ a # b => /\ n + 2 * (a - 1) + 1 # n + 2 * (b - 1) + 1
                                        /\ n + 2 * (a - 1) + 2 # n + 2 * (b - 1) + 2
                            /\ n + 2 * (a - 1) + 1 # n + 2 * (b - 1) + 2
      BY <1>1
    <3> QED BY <1>5, <1>8, <3>1
  <2>3. \A p \in Peers : /\ peers'[p] # 0 => p \in S /\ peers'[p] \notin closed
                         /\ stopChannels'[p] # 0 => p \in S /\ stopChannels'[p] \notin closed
    BY <1>1, <1>8, <1>9, <2>1
  <2>4. \A p \in Peers : p \in S => peers'[p] # 0 /\ stopChannels'[p] # 0
    BY <1>1, <1>9
  <2>5. \A p, q \in Peers :
          /\ p # q /\ peers'[p] # 0 => peers'[p] # peers'[q]
          /\ p # q /\ stopChannels'[p] # 0 => stopChannels'[p] # stopChannels'[q]
          /\ peers'[p] # 0 => peers'[p] # stopChannels'[q]
    BY <1>8, <2>2, <2>3
  <2>6. \A c \in closed : c <= n + 2 * N
    BY <1>1, <1>5, <2>1
  <2> QED BY <1>1, <1>2, <1>7, <1>9, <2>1, <2>3, <2>5, <2>6 DEF ChannelsInv
<1>12. CarriedInv'
  <2>1. Existing' = Existing
    BY <1>2 DEF Existing
  <2>2. \A l \in LoopIDs : gloop[l].pc = "select" => gloop[l].ch \in 1..Len(queue')
    BY <1>1, <1>5, <1>7 DEF CarriedInv, n
  <2> QED BY <1>1, <1>2, <1>7, <2>1, <2>2 DEF CarriedInv
<1>13. CopiesInv'
  BY <1>1, <1>2 DEF CopiesInv, CopiesNeedRestore
<1> QED BY <1>10, <1>11, <1>12, <1>13 DEF GossipInv

(* A loop moves on and the DAG stays as it is.                              *)
LEMMA GossipLoopMoves ==
    ASSUME GossipInv, NEW l \in LoopIDs, NEW rec, Become(l, rec),
           UNCHANGED <<dagIDs, created, copies, peers, stopChannels, closed, sending, saved>>,
           ~broken', queue' \in Seq(Seq(EventID)), Len(queue') = Len(queue),
           \A i \in 1..Len(queue') : \A k \in 1..Len(queue'[i]) : queue'[i][k] \in Existing,
           rec.pc = "select" => rec.ch \in 1..Len(queue),
           rec.pc \in {"lookup", "forward"} => rec.event \in Existing,
           rec.pc = "insert" => rec.event \in created \ dagIDs
    PROVE  GossipInv'
<1>1. /\ DOMAIN gloop' = LoopIDs /\ gloop'[l] = rec
      /\ \A m \in LoopIDs \ {l} : gloop'[m] = gloop[m]
  BY DEF GossipInv, GossipShape, Become
<1>2. GossipShape' /\ ChannelsInv' /\ Existing' = Existing
  BY <1>1 DEF GossipInv, GossipShape, ChannelsInv, Existing
<1>3. CarriedInv'
  BY <1>1, <1>2 DEF GossipInv, CarriedInv
<1>4. CopiesInv'
  BY <1>1 DEF GossipInv, CopiesInv, CopiesNeedRestore
<1> QED BY <1>2, <1>3, <1>4 DEF GossipInv

(* The loop of a peer: what it takes up is an event there is, and what it   *)
(* is about to insert is missing from the DAG.                              *)
LEMMA GossipLoopKeeps ==
    ASSUME GossipInv, NEW l \in LoopIDs,
           LoopTop(l) \/ LoopExits(l) \/ LoopWakes(l) \/ LoopReceives(l) \/ Lookup(l) \/ Forward(l)
    PROVE  GossipInv'
<1> USE DEF chanVars
<1>0. /\ queue \in Seq(Seq(EventID)) /\ Len(queue) \in Nat /\ ~broken
      /\ \A i \in 1..Len(queue) : \A k \in 1..Len(queue[i]) : queue[i][k] \in Existing
  BY DEF GossipInv, GossipShape, ChannelsInv, CarriedInv
<1>1. /\ NoGossip.pc = "off" /\ [pc |-> "top"].pc = "top"
  BY DEF NoGossip
<1>2. CASE LoopTop(l)
  <2> DEFINE rec == [pc |-> "select", ch |-> peers[l[1]], stop |-> stopChannels[l[1]]]
  <2>1. /\ Become(l, NoGossip) \/ (Become(l, rec) /\ peers[l[1]] # NoChannel)
        /\ UNCHANGED <<dagIDs, created, copies, chanVars, sending, saved>>
    BY <1>2 DEF LoopTop
  <2>2. peers[l[1]] # NoChannel => rec.ch \in 1..Len(queue) /\ rec.pc = "select"
    <3>1. l[1] \in Peers
      BY DEF LoopIDs
    <3> QED BY <1>0, <3>1 DEF GossipInv, GossipShape, ChannelsInv, NoChannel
  <2> HIDE DEF rec
  <2> QED BY <1>0, <1>1, <2>1, <2>2, GossipLoopMoves
<1>3. CASE LoopExits(l)
  <2>1. Become(l, NoGossip) /\ UNCHANGED <<dagIDs, created, copies, chanVars, sending, saved>>
    BY <1>3 DEF LoopExits
  <2> QED BY <1>0, <1>1, <2>1, GossipLoopMoves
<1>4. CASE LoopWakes(l)
  <2>1. Become(l, [pc |-> "top"]) /\ UNCHANGED <<dagIDs, created, copies, chanVars, sending, saved>>
    BY <1>4 DEF LoopWakes
  <2> QED BY <1>0, <1>1, <2>1, GossipLoopMoves
<1>5. CASE LoopReceives(l)
  <2> DEFINE ch == gloop[l].ch
             rec == [pc |-> "lookup", event |-> Head(queue[ch])]
  <2>1. /\ gloop[l].pc = "select" /\ queue[ch] # <<>> /\ queue' = [queue EXCEPT ![ch] = Tail(queue[ch])]
        /\ Become(l, rec)
        /\ UNCHANGED <<dagIDs, created, copies, peers, stopChannels, closed, broken, sending, saved>>
    BY <1>5 DEF LoopReceives
  <2>2. ch \in 1..Len(queue)
    BY <2>1 DEF GossipInv, CarriedInv
  <2> HIDE DEF ch
  <2>3. /\ queue[ch] \in Seq(EventID) /\ Len(queue[ch]) \in Nat /\ Len(queue[ch]) > 0
        /\ Head(queue[ch]) = queue[ch][1]
    BY <1>0, <2>1, <2>2
  <2>4. Head(queue[ch]) \in Existing
    BY <1>0, <2>2, <2>3
  <2>5. /\ Tail(queue[ch]) \in Seq(EventID) /\ Len(Tail(queue[ch])) = Len(queue[ch]) - 1
        /\ \A k \in 1..(Len(queue[ch]) - 1) : Tail(queue[ch])[k] = queue[ch][k + 1]
    BY <2>3, <2>1
  <2>6. \A k \in 1..Len(Tail(queue[ch])) : Tail(queue[ch])[k] \in Existing
    <3>1. \A k \in 1..Len(Tail(queue[ch])) : k + 1 \in 1..Len(queue[ch]) /\ k \in 1..(Len(queue[ch]) - 1)
      BY <2>3, <2>5
    <3>2. \A k \in 1..Len(queue[ch]) : queue[ch][k] \in Existing
      BY <1>0, <2>2
    <3> QED BY <2>5, <3>1, <3>2
  <2>7. /\ queue' \in Seq(Seq(EventID)) /\ Len(queue') = Len(queue) /\ queue'[ch] = Tail(queue[ch])
        /\ \A i \in 1..Len(queue) : i # ch => queue'[i] = queue[i]
    BY <1>0, <2>1, <2>2, <2>5
  <2>8. \A i \in 1..Len(queue') : \A k \in 1..Len(queue'[i]) : queue'[i][k] \in Existing
    BY <1>0, <2>6, <2>7
  <2>9. rec.pc = "lookup" /\ rec.event \in Existing
    BY <2>4
  <2> HIDE DEF rec
  <2> QED BY <1>0, <2>1, <2>7, <2>8, <2>9, GossipLoopMoves
<1>6. CASE Lookup(l)
  <2> DEFINE rec == [pc |-> "insert", event |-> gloop[l].event]
  <2>1. /\ gloop[l].pc = "lookup"
        /\ Become(l, [pc |-> "top"]) \/ (Become(l, rec) /\ gloop[l].event \notin dagIDs)
        /\ UNCHANGED <<dagIDs, created, copies, chanVars, sending, saved>>
    BY <1>6 DEF Lookup
  <2>2. gloop[l].event \notin dagIDs => rec.pc = "insert" /\ rec.event \in created \ dagIDs
    BY <2>1 DEF GossipInv, CarriedInv, CopiesInv, Existing
  <2> HIDE DEF rec
  <2> QED BY <1>0, <1>1, <2>1, <2>2, GossipLoopMoves
<1>7. CASE Forward(l)
  <2>1. /\ gloop[l].pc = "forward" /\ BroadcastEvent(gloop[l].event, l[1]) /\ Become(l, [pc |-> "top"])
        /\ UNCHANGED <<dagIDs, created, copies, peers, stopChannels, closed, sending, saved>>
    BY <1>7 DEF Forward
  <2>2. gloop[l].event \in Existing
    BY <2>1 DEF GossipInv, CarriedInv
  <2>3. /\ queue' \in Seq(Seq(EventID)) /\ Len(queue') = Len(queue) /\ ~broken'
        /\ \A i \in 1..Len(queue') : \A k \in 1..Len(queue'[i]) : queue'[i][k] \in Existing
    BY <2>1, <2>2, BroadcastKeeps
  <2> QED BY <1>1, <2>1, <2>3, GossipLoopMoves
<1> QED BY <1>2, <1>3, <1>4, <1>5, <1>6, <1>7

(* The DAG grows: an event is created, or copied because it is missing.     *)
LEMMA GossipGrows ==
    ASSUME GossipInv, (\E e \in Known : CreateEvent(e)) \/ \E l \in LoopIDs : Insert(l)
    PROVE  GossipInv'
<1> USE DEF chanVars
<1>1. GossipShape /\ ChannelsInv /\ CarriedInv /\ CopiesInv
  BY DEF GossipInv
<1>2. ASSUME NEW e \in Known, CreateEvent(e)
      PROVE  GossipInv'
  <2>1. /\ e \notin created /\ created' = created \cup {e} /\ dagIDs' = dagIDs \cup {e}
        /\ UNCHANGED <<copies, chanVars, gloop, sending, saved>>
    BY <1>2 DEF CreateEvent
  <2>2. GossipShape' /\ ChannelsInv'
    BY <1>1, <2>1 DEF GossipShape, ChannelsInv
  <2>3. Existing \subseteq Existing' /\ e \in Existing'
    BY <2>1 DEF Existing
  <2>4. CarriedInv'
    BY <1>1, <2>1, <2>3 DEF CarriedInv
  <2>5. CopiesInv'
    BY <1>1, <2>1 DEF CopiesInv, CopiesNeedRestore
  <2> QED BY <2>2, <2>4, <2>5 DEF GossipInv
<1>3. ASSUME NEW l \in LoopIDs, Insert(l)
      PROVE  GossipInv'
  <2> DEFINE rec == [pc |-> "forward", event |-> gloop[l].event]
  <2>1. /\ gloop[l].pc = "insert" /\ UNCHANGED <<created, chanVars, sending, saved>>
        /\ \/ copies' = copies + 1 /\ dagIDs' = dagIDs \cup {copies + 1} /\ Become(l, rec)
           \/ Become(l, [pc |-> "top"]) /\ UNCHANGED <<copies, dagIDs>>
    BY <1>3 DEF Insert
  <2>2. CASE Become(l, [pc |-> "top"]) /\ UNCHANGED <<copies, dagIDs>>
    <3>1. [pc |-> "top"].pc = "top"
      OBVIOUS
    <3> QED BY <1>1, <2>1, <2>2, <3>1, GossipLoopMoves DEF GossipShape, ChannelsInv, CarriedInv
  <2>3. CASE copies' = copies + 1 /\ dagIDs' = dagIDs \cup {copies + 1} /\ Become(l, rec)
    <3>1. gloop[l].event \in created \ dagIDs /\ copies \in Nat /\ copies + 1 \notin created
      <4>1. copies \in Nat /\ copies + 1 \in Nat /\ created \subseteq Known
        BY <1>1 DEF GossipShape
      <4>2. copies + 1 \notin created
        BY <4>1, GossipAssumption
      <4> QED BY <1>1, <2>1, <4>1, <4>2 DEF CopiesInv
    <3>2. rec.pc = "forward" /\ rec.event = gloop[l].event
      OBVIOUS
    <3> HIDE DEF rec
    <3>3. /\ DOMAIN gloop' = LoopIDs /\ gloop'[l] = rec
          /\ \A m \in LoopIDs \ {l} : gloop'[m] = gloop[m]
      BY <1>1, <2>3 DEF GossipShape, Become
    <3>4. GossipShape' /\ ChannelsInv'
      BY <1>1, <2>1, <2>3, <3>1, <3>3 DEF GossipShape, ChannelsInv
    <3>5. 1..copies' = (1..copies) \cup {copies + 1} /\ copies' > 0
      BY <2>3, <3>1
    <3>6. Existing' = Existing \cup {copies + 1}
      BY <2>1, <3>5 DEF Existing
    <3>7. CarriedInv'
      BY <1>1, <2>1, <2>3, <3>1, <3>2, <3>3, <3>6 DEF CarriedInv, Existing
    <3>8. CopiesInv'
      BY <1>1, <2>1, <2>3, <3>1, <3>2, <3>3, <3>5 DEF CopiesInv, CopiesNeedRestore
    <3> QED BY <3>4, <3>7, <3>8 DEF GossipInv
  <2> QED BY <2>1, <2>2, <2>3
<1> QED BY <1>2, <1>3

(* Starting, sending everything, saving, and restoring the DAG.             *)
LEMMA GossipOthersKeep ==
    ASSUME GossipInv,
           \/ StartLoops \/ ForceSyncAll \/ (\E e \in sending : SyncEvent(e))
           \/ SaveIDs \/ SavePeers \/ RestoreIDs \/ UNCHANGED gossipVars
    PROVE  GossipInv'
<1> USE DEF chanVars
<1>1. GossipShape /\ ChannelsInv /\ CarriedInv /\ CopiesInv
  BY DEF GossipInv
<1>2. CASE StartLoops
  <2>1. /\ UNCHANGED <<dagIDs, created, copies, chanVars, sending, saved>>
        /\ DOMAIN gloop' = LoopIDs
        /\ \A l \in LoopIDs : gloop'[l] = [pc |-> "top"] \/ gloop'[l] = gloop[l]
    BY <1>2 DEF StartLoops
  <2>2. [pc |-> "top"].pc = "top"
    OBVIOUS
  <2>3. GossipShape' /\ ChannelsInv' /\ Existing' = Existing
    BY <1>1, <2>1 DEF GossipShape, ChannelsInv, Existing
  <2>4. CarriedInv' /\ CopiesInv'
    BY <1>1, <2>1, <2>2, <2>3 DEF CarriedInv, CopiesInv, CopiesNeedRestore
  <2> QED BY <2>3, <2>4 DEF GossipInv
<1>3. CASE ForceSyncAll
  <2>1. sending' = dagIDs /\ UNCHANGED <<dagIDs, created, copies, chanVars, gloop, saved>>
    BY <1>3 DEF ForceSyncAll
  <2> QED BY <1>1, <2>1 DEF GossipInv, GossipShape, ChannelsInv, CarriedInv, CopiesInv, Existing, CopiesNeedRestore
<1>4. ASSUME NEW e \in sending, SyncEvent(e)
      PROVE  GossipInv'
  <2>1. /\ sending' \subseteq sending /\ BroadcastEvent(e, Nobody)
        /\ UNCHANGED <<dagIDs, created, copies, peers, stopChannels, closed, gloop, saved>>
    BY <1>4 DEF SyncEvent
  <2>2. e \in Existing
    BY <1>1 DEF CarriedInv
  <2>3. /\ queue' \in Seq(Seq(EventID)) /\ Len(queue') = Len(queue) /\ ~broken'
        /\ \A i \in 1..Len(queue') : \A k \in 1..Len(queue'[i]) : queue'[i][k] \in Existing
    BY <2>1, <2>2, BroadcastKeeps
  <2>4. GossipShape' /\ ChannelsInv' /\ Existing' = Existing
    BY <1>1, <2>1, <2>3 DEF GossipShape, ChannelsInv, Existing
  <2>5. CarriedInv' /\ CopiesInv'
    BY <1>1, <2>1, <2>3, <2>4 DEF CarriedInv, CopiesInv, CopiesNeedRestore
  <2> QED BY <2>4, <2>5 DEF GossipInv
<1>5. CASE SaveIDs \/ SavePeers \/ RestoreIDs
  <2>1. UNCHANGED <<created, copies, chanVars, gloop, sending>>
    BY <1>5 DEF SaveIDs, SavePeers, RestoreIDs
  <2>2. GossipShape' /\ ChannelsInv' /\ Existing' = Existing
    BY <1>1, <2>1 DEF GossipShape, ChannelsInv, Existing
  <2>3. CASE SaveIDs
    <3>1. saved.pc = "none" /\ saved'.pc = "gossip" /\ saved'.dag = dagIDs /\ dagIDs' = dagIDs
      BY <2>3 DEF SaveIDs
    <3>2. dagIDs \subseteq created
      BY <1>1, <3>1 DEF CarriedInv, CopiesInv, Existing
    <3>3. CarriedInv' /\ CopiesInv'
      BY <1>1, <2>1, <2>2, <3>1, <3>2 DEF CarriedInv, CopiesInv, CopiesNeedRestore
    <3> QED BY <2>2, <3>3 DEF GossipInv
  <2>4. CASE SavePeers
    <3> DEFINE S == {p \in Peers : peers[p] # NoChannel}
    <3>1. saved.pc = "gossip" /\ saved' = [pc |-> "saved", dag |-> saved.dag, peers |-> S] /\ dagIDs' = dagIDs
      BY <2>4 DEF SavePeers
    <3>2. S \subseteq Peers
      OBVIOUS
    <3> HIDE DEF S
    <3>3. CarriedInv' /\ CopiesInv'
      BY <1>1, <2>1, <2>2, <3>1, <3>2 DEF CarriedInv, CopiesInv, CopiesNeedRestore
    <3> QED BY <2>2, <3>3 DEF GossipInv
  <2>5. CASE RestoreIDs
    <3>1. /\ saved.pc = "saved" /\ dagIDs' = saved.dag
          /\ saved' = [pc |-> "restoring", dag |-> saved.dag, peers |-> saved.peers]
      BY <1>1, <2>5 DEF RestoreIDs, CopiesInv
    <3>2. copies = 0 /\ created \subseteq dagIDs /\ saved.dag \subseteq created
      BY <1>1, <3>1 DEF CopiesInv
    <3>3. \A l \in LoopIDs : gloop[l].pc # "insert"
      BY <1>1, <3>2 DEF CopiesInv
    <3>4. CarriedInv'
      BY <1>1, <2>1, <2>2, <3>1, <3>2 DEF CarriedInv, Existing
    <3>5. CopiesInv'
      BY <1>1, <2>1, <3>1, <3>2, <3>3 DEF CopiesInv, CopiesNeedRestore
    <3> QED BY <2>2, <3>4, <3>5 DEF GossipInv
  <2> QED BY <1>5, <2>3, <2>4, <2>5
<1>6. CASE UNCHANGED gossipVars
  BY <1>1, <1>6 DEF gossipVars, GossipInv, GossipShape, ChannelsInv, CarriedInv, CopiesInv, Existing, CopiesNeedRestore
<1> QED BY <1>2, <1>3, <1>4, <1>5, <1>6

(* The gossip's invariant, in every order of peers coming and going, loops  *)
(* starting and stopping, syncs, saves and restores.                        *)
THEOREM GossipInvariant == GossipSpec => []GossipInv
<1>1. GossipInit => GossipInv
  <2> SUFFICES ASSUME GossipInit PROVE GossipInv
    OBVIOUS
  <2>1. /\ queue = <<>> /\ Len(queue) = 0 /\ 1..0 = {} /\ saved.pc = "none"
        /\ \A l \in LoopIDs : gloop[l].pc = "off"
    BY DEF GossipInit, NotSaved, NoGossip
  <2>2. GossipShape /\ ChannelsInv
    BY <2>1 DEF GossipInit, GossipShape, ChannelsInv, NoChannel
  <2>3. CarriedInv /\ CopiesInv
    BY <2>1 DEF GossipInit, CarriedInv, CopiesInv, CopiesNeedRestore
  <2> QED BY <2>2, <2>3 DEF GossipInv
<1>2. GossipInv /\ [GossipNext]_gossipVars => GossipInv'
  BY ChannelsKeep, RestorePeersKeeps, GossipLoopKeeps, GossipGrows, GossipOthersKeep DEF GossipNext
<1> QED BY <1>1, <1>2, PTL DEF GossipSpec

(* Gossip sends on no closed channel and closes none twice.                 *)
THEOREM NoClosedChannelUsed == GossipSpec => []GossipNeverPanics
BY GossipInvariant, PTL DEF GossipInv, ChannelsInv, GossipNeverPanics

(* No event is copied unless a restore has taken events out of the DAG.     *)
THEOREM CopiesOnlyAfterRestore == GossipSpec => []CopiesNeedRestore
BY GossipInvariant, PTL DEF GossipInv, CopiesInv
=============================================================================
