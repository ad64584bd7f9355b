------------------------------ MODULE Network ------------------------------
(***************************************************************************)
(* The connections of network/network_manager.go and network/peer.go, with  *)
(* the dials of discovery.go and p2p_node.go.  Every connection is a Peer    *)
(* object with a read and a write goroutine; nm.peers has one per address.   *)
(* Whoever else takes nm.mu releases it within the step; Stop closes the     *)
(* peers while it holds it, and closing a peer takes nm.mu to remove it.     *)
(* A broadcast puts a message in the bounded queue of every listed peer and   *)
(* the write goroutine takes it out, or ends at an error; neither opens,      *)
(* closes or lists a connection, and both are left out, as is the health      *)
(* counter.                                                                  *)
(***************************************************************************)
EXTENDS Integers, FiniteSets

CONSTANTS
  Dialed, Accepted,   \* Peer objects of outbound and of inbound connections (bounds)
  Seeds,              \* addresses that are dialed
  MaxNetStarts        \* bound: calls of Start

VARIABLES
  nmRunning, nmStarts,  \* isRunning, and how often Start was called
  stopClosed,           \* nm.stopChan, and the one of the discovery
  nmMu,                 \* "free", or "Stop" between its steps
  netPeers,             \* nm.peers: address -> Peer, or NoPeer
  listener,             \* listenInbound
  conn,                 \* the Peer objects
  late,                 \* connections accepted after Stop
  crashed               \* Stop has closed stopChan a second time: panic
nmVars == <<nmRunning, nmStarts, stopClosed, nmMu, crashed>>
netVars == <<nmVars, netPeers, listener, conn, late>>

Objects == Dialed \cup Accepted
NoPeer == "nobody"

ASSUME NetworkAssumption == NoPeer \notin Objects /\ MaxNetStarts \in Nat

\* The remote address of an inbound connection is its own.
Addresses == Seeds \cup Accepted

\* gone: the connection is broken, or what came over it is no message;
\* quit: the channel is closed; closing: Close holds p.mu.
NewPeer(a) ==
  [phase |-> "add", addr |-> a, gone |-> FALSE, quit |-> FALSE, closing |-> FALSE,
   reader |-> "off"]
Unused == [NewPeer(NoPeer) EXCEPT !.phase = "unused"]

NetInit ==
  /\ nmRunning = FALSE /\ nmStarts = 0 /\ stopClosed = FALSE /\ nmMu = "free" /\ crashed = FALSE
  /\ netPeers = [a \in Addresses |-> NoPeer] /\ listener = "off"
  /\ conn = [p \in Objects |-> Unused]
  /\ late = 0

Listed == {netPeers[a] : a \in Addresses} \ {NoPeer}

-----------------------------------------------------------------------------
(* Start and Stop.                                                           *)

\* A second listener finds the port taken or stopChan closed, and ends.
StartNetwork ==
  /\ nmMu = "free" /\ ~nmRunning /\ nmStarts < MaxNetStarts
  /\ nmRunning' = TRUE /\ nmStarts' = nmStarts + 1
  /\ listener' \in IF nmStarts = 0 THEN {"top", "exited"} ELSE {listener}
  /\ UNCHANGED <<stopClosed, nmMu, crashed, netPeers, conn, late>>

\* The first peer it closes takes nm.mu again to remove itself, or is being closed
\* and waits for it with p.mu held: in both cases Stop never goes on.
StopNetwork ==
  /\ nmMu = "free" /\ nmRunning
  /\ nmRunning' = FALSE /\ stopClosed' = TRUE /\ crashed' = stopClosed
  /\ IF stopClosed \/ Listed = {} THEN UNCHANGED <<nmMu, conn>>
     ELSE /\ nmMu' = "Stop"
          /\ \E p \in Listed : conn' = [conn EXCEPT ![p].quit = TRUE, ![p].closing = TRUE]
  /\ UNCHANGED <<nmStarts, netPeers, listener, late>>

-----------------------------------------------------------------------------
(* Connections come up.                                                      *)

\* Bug: stopChan is looked at once, before the loop.
ListenTop_NoCheck ==
  /\ listener = "top" /\ listener' = "accept"
  /\ UNCHANGED <<nmVars, netPeers, conn, late>>

ListenTop ==
  /\ listener = "top" /\ listener' = IF stopClosed THEN "exited" ELSE "accept"
  /\ UNCHANGED <<nmVars, netPeers, conn, late>>

\* Accept waits without regard to stopChan.
Accept(p) ==
  /\ listener = "accept" /\ conn[p] = Unused
  /\ conn' = [conn EXCEPT ![p] = NewPeer(p)] /\ listener' = "top"
  /\ late' = IF stopClosed THEN late + 1 ELSE late
  /\ UNCHANGED <<nmVars, netPeers>>

\* DialPeer looks at isRunning, lets go of nm.mu and dials.
DialPeer(p, a) ==
  /\ conn[p] = Unused /\ nmMu = "free" /\ nmRunning
  /\ conn' = [conn EXCEPT ![p] = [NewPeer(a) EXCEPT !.phase = "dialing"]]
  /\ UNCHANGED <<nmVars, netPeers, listener, late>>

DialReturns(p) ==
  /\ conn[p].phase = "dialing"
  /\ \E result \in {NewPeer(conn[p].addr), Unused} : conn' = [conn EXCEPT ![p] = result]
  /\ UNCHANGED <<nmVars, netPeers, listener, late>>

\* addPeer replaces a peer of the same address; then Run.
AddConnection(p) ==
  /\ conn[p].phase = "add" /\ nmMu = "free"
  /\ netPeers' = [netPeers EXCEPT ![conn[p].addr] = p]
  /\ conn' = [conn EXCEPT ![p] = [@ EXCEPT !.phase = "run", !.reader = "read"]]
  /\ UNCHANGED <<nmVars, listener, late>>

-----------------------------------------------------------------------------
(* Connections break.                                                        *)

Break(p) ==
  /\ conn[p].phase = "run" /\ ~conn[p].gone /\ ~conn[p].quit
  /\ conn' = [conn EXCEPT ![p].gone = TRUE]
  /\ UNCHANGED <<nmVars, netPeers, listener, late>>

\* Bug: readLoop ends without closing the peer.
ReadFails_NoClose(p) ==
  /\ conn[p].reader = "read" /\ (conn[p].gone \/ conn[p].quit)
  /\ conn' = [conn EXCEPT ![p].reader = "off"]
  /\ UNCHANGED <<nmVars, netPeers, listener, late>>

\* readLoop ends and its deferred Close takes p.mu.
ReadFails(p) ==
  /\ conn[p].reader = "read" /\ (conn[p].gone \/ conn[p].quit) /\ ~conn[p].closing
  /\ conn' = [conn EXCEPT ![p] =
       IF @.quit THEN [@ EXCEPT !.reader = "off"]
       ELSE [@ EXCEPT !.quit = TRUE, !.closing = TRUE, !.reader = "remove"]]
  /\ UNCHANGED <<nmVars, netPeers, listener, late>>

\* Bug: Close does not remove the peer.
RemovePeer_Kept(p) ==
  /\ conn[p].reader = "remove" /\ nmMu = "free"
  /\ conn' = [conn EXCEPT ![p].reader = "off", ![p].closing = FALSE]
  /\ UNCHANGED <<nmVars, netPeers, listener, late>>

\* Whoever has the address is removed.
RemovePeer(p) ==
  /\ conn[p].reader = "remove" /\ nmMu = "free"
  /\ netPeers' = [netPeers EXCEPT ![conn[p].addr] = NoPeer]
  /\ conn' = [conn EXCEPT ![p].reader = "off", ![p].closing = FALSE]
  /\ UNCHANGED <<nmVars, listener, late>>

-----------------------------------------------------------------------------
NetNext ==
  /\ ~crashed
  /\ \/ StartNetwork \/ StopNetwork \/ ListenTop
     \/ \E p \in Accepted : Accept(p)
     \/ \E p \in Dialed : DialReturns(p) \/ \E a \in Seeds : DialPeer(p, a)
     \/ \E p \in Objects :
          AddConnection(p) \/ Break(p) \/ ReadFails(p) \/ RemovePeer(p)

NetSpec == NetInit /\ [][NetNext]_netVars

\* Goroutines that can go on do; reads of a broken connection return.
NetFairness == \A p \in Objects : WF_netVars(AddConnection(p) \/ ReadFails(p) \/ RemovePeer(p))

-----------------------------------------------------------------------------
\* A peer in the map is open, or Close is about to remove it.
ListedIsOpen == \A p \in Listed : conn[p].quit => conn[p].closing

\* An open connection is in the map, where broadcasts and Stop find it, unless
\* another one to its address came or went.
OpenIsListed ==
  \A p \in Objects : conn[p].phase = "run" /\ ~conn[p].quit =>
    p \in Listed \/ \E q \in Objects \ {p} : conn[q].phase = "run" /\ conn[q].addr = conn[p].addr

\* The map of peers and the open connections belong together, whatever breaks, is
\* dialed again or is closed at the same time.
RegistrySound == ListedIsOpen /\ OpenIsListed

\* The peer of a broken connection leaves the map, whoever holds which lock, unless
\* Stop has kept nm.mu for good or the process has ended.
BrokenIsRemoved ==
  \A p \in Objects :
    (conn[p].phase = "run" /\ conn[p].gone) ~> (p \notin Listed \/ nmMu = "Stop" \/ crashed)

\* After Stop the listener, which waits in Accept, lets in one more connection and
\* never a second, also when the manager is started again.
OneLateConnection == late <= 1
=============================================================================
