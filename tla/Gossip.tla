------------------------------- MODULE Gossip -------------------------------
(***************************************************************************)
(* The gossip of consensus/diamantefinality/gossip.go: a channel and a loop  *)
(* for every peer, between the DAG (its event IDs only) and the Lachesis     *)
(* engine, which starts, stops, saves and restores it.  g.mu guards the maps  *)
(* of channels; a loop takes an event from its channel and looks it up,       *)
(* inserts it and sends it on with no lock in between.  The load and the      *)
(* delay only say how often the loops wake up.                                *)
(***************************************************************************)
EXTENDS Integers, Sequences, FiniteSets

CONSTANTS
  Peers,       \* node IDs
  Known,       \* IDs of the events created here
  ChanSize,    \* 1000
  MaxChannels, MaxCopies, MaxSyncs, MaxLoops   \* bounds

ASSUME GossipAssumption ==
  /\ IsFiniteSet(Peers) /\ IsFiniteSet(Known)
  /\ ChanSize \in Nat \ {0}
  /\ \A k \in Known : k \notin Nat   \* copies are numbered

VARIABLES
  dagIDs,                   \* the keys of DAG.Events; what the gossip adds gets a number
  created, copies,          \* events of CreateEvent, number of events the gossip has added
  peers, stopChannels,      \* peer -> channel, NoChannel if it is not in the map
  queue, closed,            \* the contents of the channels, the channels that are closed
  gloop,                    \* the loops: step, the channels read, the event in hand
  cancelled,                \* g.ctx
  sending,                  \* ForceSyncAll: the events to broadcast
  saved,                    \* GetState and RestoreState
  broken,                   \* a send on or a close of a closed channel: panic
  syncs, loopStarts
chanVars == <<peers, stopChannels, queue, closed, broken>>
gossipVars == <<dagIDs, created, copies, chanVars, gloop, cancelled, sending, saved,
                syncs, loopStarts>>

NoChannel == 0
Nobody == ""   \* the peer a broadcast to everybody leaves out
LoopIDs == Peers \X (1..MaxLoops)
NoGossip == [pc |-> "off"]
NotSaved == [pc |-> "none"]

GossipInit ==
  /\ dagIDs = {} /\ created = {} /\ copies = 0
  /\ peers = [p \in Peers |-> NoChannel] /\ stopChannels = [p \in Peers |-> NoChannel]
  /\ queue = <<>> /\ closed = {} /\ broken = FALSE
  /\ gloop = [l \in LoopIDs |-> NoGossip]
  /\ cancelled = FALSE /\ sending = {} /\ saved = NotSaved
  /\ syncs = 0 /\ loopStarts = 0

\* CreateEvent of Lachesis.
CreateEvent(e) ==
  /\ e \notin created
  /\ created' = created \cup {e} /\ dagIDs' = dagIDs \cup {e}
  /\ UNCHANGED <<copies, chanVars, gloop, cancelled, sending, saved, syncs, loopStarts>>

-----------------------------------------------------------------------------
(* Peers.                                                                    *)

AddPeer(p) ==
  LET n == Len(queue)
  IN /\ peers[p] = NoChannel /\ n + 2 <= MaxChannels
     /\ queue' = queue \o << <<>>, <<>> >>
     /\ peers' = [peers EXCEPT ![p] = n + 1] /\ stopChannels' = [stopChannels EXCEPT ![p] = n + 2]
     /\ UNCHANGED <<dagIDs, created, copies, closed, broken, gloop, cancelled, sending, saved,
                    syncs, loopStarts>>

\* Closing the channels C.
Close(C) == broken' = (broken \/ C \cap closed # {}) /\ closed' = closed \cup C

RemovePeer(p) ==
  /\ peers[p] # NoChannel
  /\ Close({peers[p], stopChannels[p]} \ {NoChannel})
  /\ peers' = [peers EXCEPT ![p] = NoChannel] /\ stopChannels' = [stopChannels EXCEPT ![p] = NoChannel]
  /\ UNCHANGED <<dagIDs, created, copies, queue, gloop, cancelled, sending, saved,
                 syncs, loopStarts>>

\* A full channel drops the event.
BroadcastEvent(e, exclude) ==
  LET to == {peers[p] : p \in Peers \ {exclude}} \ {NoChannel}
  IN /\ queue' = [i \in DOMAIN queue |-> IF i \in to \ closed /\ Len(queue[i]) < ChanSize
                                         THEN Append(queue[i], e) ELSE queue[i]]
     /\ broken' = (broken \/ to \cap closed # {})

-----------------------------------------------------------------------------
(* Start, Stop and ForceSyncAll.                                             *)

StartLoops ==
  /\ loopStarts < MaxLoops /\ loopStarts' = loopStarts + 1
  /\ gloop' = [l \in LoopIDs |-> IF l[2] = loopStarts + 1 /\ peers[l[1]] # NoChannel
                                 THEN [pc |-> "top"] ELSE gloop[l]]
  /\ UNCHANGED <<dagIDs, created, copies, chanVars, cancelled, sending, saved, syncs>>

\* Bug: the channels stay in the map.
StopLoops_KeepsChannels ==
  /\ Close({stopChannels[p] : p \in Peers} \ {NoChannel})
  /\ cancelled' = TRUE
  /\ UNCHANGED <<dagIDs, created, copies, peers, stopChannels, queue, gloop, sending, saved,
                 syncs, loopStarts>>

StopLoops ==
  /\ Close({stopChannels[p] : p \in Peers} \ {NoChannel})
  /\ stopChannels' = [p \in Peers |-> NoChannel] /\ cancelled' = TRUE
  /\ UNCHANGED <<dagIDs, created, copies, peers, queue, gloop, sending, saved,
                 syncs, loopStarts>>

ForceSyncAll ==
  /\ sending = {} /\ syncs < MaxSyncs /\ syncs' = syncs + 1
  /\ sending' = dagIDs
  /\ UNCHANGED <<dagIDs, created, copies, chanVars, gloop, cancelled, saved, loopStarts>>

SyncEvent(e) ==
  /\ e \in sending /\ sending' = sending \ {e}
  /\ BroadcastEvent(e, Nobody)
  /\ UNCHANGED <<dagIDs, created, copies, peers, stopChannels, closed, gloop, cancelled, saved,
                 syncs, loopStarts>>

-----------------------------------------------------------------------------
(* The loop of a peer.                                                       *)

Become(l, state) == gloop' = [gloop EXCEPT ![l] = state]

\* The context, then the channels of the peer.
LoopTop(l) ==
  /\ gloop[l].pc = "top"
  /\ IF cancelled \/ NoChannel \in {peers[l[1]], stopChannels[l[1]]} THEN Become(l, NoGossip)
     ELSE Become(l, [pc |-> "select", ch |-> peers[l[1]], stop |-> stopChannels[l[1]]])
  /\ UNCHANGED <<dagIDs, created, copies, chanVars, cancelled, sending, saved, syncs, loopStarts>>

LoopExits(l) ==
  /\ gloop[l].pc = "select"
  /\ cancelled \/ gloop[l].stop \in closed \/ (gloop[l].ch \in closed /\ queue[gloop[l].ch] = <<>>)
  /\ Become(l, NoGossip)
  /\ UNCHANGED <<dagIDs, created, copies, chanVars, cancelled, sending, saved, syncs, loopStarts>>

LoopWakes(l) ==
  /\ gloop[l].pc = "select" /\ Become(l, [pc |-> "top"])
  /\ UNCHANGED <<dagIDs, created, copies, chanVars, cancelled, sending, saved, syncs, loopStarts>>

LoopReceives(l) ==
  LET ch == gloop[l].ch
  IN /\ gloop[l].pc = "select" /\ queue[ch] # <<>>
     /\ queue' = [queue EXCEPT ![ch] = Tail(@)]
     /\ Become(l, [pc |-> "lookup", event |-> Head(queue[ch])])
     /\ UNCHANGED <<dagIDs, created, copies, peers, stopChannels, closed, broken, cancelled, sending, saved,
                    syncs, loopStarts>>

\* Bug: the event is not looked up first.
Lookup_Skipped(l) ==
  /\ gloop[l].pc = "lookup"
  /\ Become(l, [pc |-> "insert", event |-> gloop[l].event])
  /\ UNCHANGED <<dagIDs, created, copies, chanVars, cancelled, sending, saved, syncs, loopStarts>>

Lookup(l) ==
  /\ gloop[l].pc = "lookup"
  /\ Become(l, IF gloop[l].event \in dagIDs THEN [pc |-> "top"] ELSE [pc |-> "insert", event |-> gloop[l].event])
  /\ UNCHANGED <<dagIDs, created, copies, chanVars, cancelled, sending, saved, syncs, loopStarts>>

\* NewEvent makes another event of the same data, with an ID of its own; it fails
\* when the peer has been removed from the DAG since it was checked.  The node
\* added first for a peer the DAG does not know, with a stake of 1, is
\* GossipAddsNode of ValidatorManager.
Insert(l) ==
  /\ gloop[l].pc = "insert" /\ copies < MaxCopies
  /\ \/ /\ copies' = copies + 1 /\ dagIDs' = dagIDs \cup {copies + 1}
        /\ Become(l, [pc |-> "forward", event |-> gloop[l].event])
     \/ Become(l, [pc |-> "top"]) /\ UNCHANGED <<copies, dagIDs>>
  /\ UNCHANGED <<created, chanVars, cancelled, sending, saved, syncs, loopStarts>>

\* What is sent on is the event that came in.
Forward(l) ==
  /\ gloop[l].pc = "forward"
  /\ BroadcastEvent(gloop[l].event, l[1])
  /\ Become(l, [pc |-> "top"])
  /\ UNCHANGED <<dagIDs, created, copies, peers, stopChannels, closed, cancelled, sending, saved,
                 syncs, loopStarts>>

-----------------------------------------------------------------------------
(* GetState and RestoreState of Lachesis: the DAG, then the gossip.           *)

SaveIDs ==
  /\ saved.pc = "none" /\ saved' = [pc |-> "gossip", dag |-> dagIDs]
  /\ UNCHANGED <<dagIDs, created, copies, chanVars, gloop, cancelled, sending, syncs, loopStarts>>

SavePeers ==
  /\ saved.pc = "gossip"
  /\ saved' = [pc |-> "saved", dag |-> saved.dag, peers |-> {p \in Peers : peers[p] # NoChannel}]
  /\ UNCHANGED <<dagIDs, created, copies, chanVars, gloop, cancelled, sending, syncs, loopStarts>>

RestoreIDs ==
  /\ saved.pc = "saved" /\ saved' = [saved EXCEPT !.pc = "restoring"]
  /\ dagIDs' = saved.dag
  /\ UNCHANGED <<created, copies, chanVars, gloop, cancelled, sending, syncs, loopStarts>>

\* New channels for the saved peers; the old ones are dropped as they are.
RestorePeers ==
  LET n == Len(queue)
      rank == CHOOSE f \in [saved.peers -> 1..Cardinality(saved.peers)] :
                \A q, r \in saved.peers : q # r => f[q] # f[r]
      chan(p, k) == IF p \in saved.peers THEN n + 2 * (rank[p] - 1) + k ELSE NoChannel
  IN /\ saved.pc = "restoring" /\ n + 2 * Cardinality(saved.peers) <= MaxChannels
     /\ saved' = [pc |-> "restored"]
     /\ queue' = queue \o [i \in 1..(2 * Cardinality(saved.peers)) |-> <<>>]
     /\ peers' = [p \in Peers |-> chan(p, 1)] /\ stopChannels' = [p \in Peers |-> chan(p, 2)]
     /\ UNCHANGED <<dagIDs, created, copies, closed, broken, gloop, cancelled, sending,
                    syncs, loopStarts>>

GossipNext ==
  /\ ~broken
  /\ \/ \E p \in Peers : AddPeer(p) \/ RemovePeer(p)
     \/ StartLoops \/ StopLoops \/ ForceSyncAll \/ \E e \in sending : SyncEvent(e)
     \/ \E l \in LoopIDs :
          \/ LoopTop(l) \/ LoopExits(l) \/ LoopWakes(l) \/ LoopReceives(l) \/ Lookup(l) \/ Insert(l)
          \/ Forward(l)
     \/ \E e \in Known : CreateEvent(e)
     \/ SaveIDs \/ SavePeers \/ RestoreIDs \/ RestorePeers

GossipSpec == GossipInit /\ [][GossipNext]_gossipVars

-----------------------------------------------------------------------------
\* Gossip ends the process in no order of calls: nothing is sent on a closed channel
\* and no channel is closed twice, though Stop, RemovePeer and RestoreState each
\* leave the other map or the old channels behind.
GossipNeverPanics == ~broken

\* Events that were created here come back over the channels, and each insertion of
\* one would add a copy under another ID, which every peer would send on: none is
\* inserted unless a restore has taken events out of the DAG.
CopiesNeedRestore == copies > 0 => ~(created \subseteq dagIDs)
=============================================================================
