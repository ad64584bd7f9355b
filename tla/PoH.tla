-------------------------------- MODULE PoH --------------------------------
(***************************************************************************)
(* Proof of History (consensus/diamantepoh/diamantepoh.go) and those who     *)
(* read it in several calls: CreateEvent of the event flow, which reads the  *)
(* state and the count and then records its data, and the recoveries and     *)
(* checkpoints, which read the state and the count and may set them later.   *)
(* Each method holds stateMu to its end.                                     *)
(*                                                                           *)
(* A state is the sequence of what was hashed into it: the hash is taken to  *)
(* be injective, and data never to be the eight bytes of a count.            *)
(***************************************************************************)
EXTENDS Integers, Sequences

CONSTANTS
  Events,          \* events with data; an event without never verifies
  Readers,         \* checkpoints and recoveries
  DriftTolerance,  \* how far an event may be ahead of the count
  MaxCount         \* bound on the count

ASSUME DriftAssumption == DriftTolerance \in Nat /\ MaxCount \in Nat

VARIABLES
  chain, count,  \* state and count
  event,         \* CreateEvent: progress, PoHState, PoHCount, PoHProof
  pair,          \* what a reader has read
  synced         \* Synchronize has been accepted
pohVars == <<chain, count, event, pair, synced>>

NoEvent == [pc |-> "state", state |-> <<>>, cnt |-> 0, proof |-> <<>>, at |-> 0]
NoPair == [pc |-> "state", state |-> <<>>, cnt |-> 0]

PoHInit ==
  /\ chain = <<>> /\ count = 0 /\ synced = FALSE
  /\ event = [e \in Events |-> NoEvent] /\ pair = [r \in Readers |-> NoPair]

----------------------------------------------------------------------------
\* Bug: the count is not hashed into the state.
advanceState_Unhashed(s, c) == s

\* advanceState(1) of the state s, which makes the count c.
advanceState(s, c) == Append(s, <<"tick", c>>)

PoHTick ==
  /\ count < MaxCount
  /\ count' = count + 1 /\ chain' = advanceState(chain, count + 1)
  /\ UNCHANGED <<event, pair, synced>>

\* Record ticks first when a tick is due.
Record(data) ==
  \E due \in {0, 1} :
    LET s == IF due = 1 THEN advanceState(chain, count + 1) ELSE chain
    IN /\ count + due < MaxCount
       /\ chain' = Append(s, data) /\ count' = count + due + 1

\* produceBlock records the hash of its events; blocks of one node are alike.
RecordBlock == Record(<<"data", "block">>) /\ UNCHANGED <<event, pair, synced>>

\* CreateEvent: GetState, ...
CreateState(e) ==
  /\ event[e].pc = "state"
  /\ event' = [event EXCEPT ![e].pc = "count", ![e].state = chain]
  /\ UNCHANGED <<chain, count, pair, synced>>

\* ... GetCount ...
CreateCount(e) ==
  /\ event[e].pc = "count"
  /\ event' = [event EXCEPT ![e].pc = "record", ![e].cnt = count]
  /\ UNCHANGED <<chain, count, pair, synced>>

\* ... and Record, whose result is the proof.  The count after it is kept in "at".
CreateRecord(e) ==
  /\ event[e].pc = "record"
  /\ Record(<<"data", e>>)
  /\ event' = [event EXCEPT ![e].pc = "done", ![e].proof = chain', ![e].at = count']
  /\ UNCHANGED <<pair, synced>>

\* verifyPoHWithDrift, in production mode: only a count ahead is out of bounds.
Drift(e) == event[e].cnt <= count + DriftTolerance

\* ... and Verify, which finalizeEvent, the worker and ValidateEvent
\* ask for as often as they try the event.
Verify(e) == Drift(e) /\ event[e].proof = Append(event[e].state, <<"data", e>>)

\* A checkpoint or the backup of a recovery.
ReadState(r) ==
  /\ pair[r].pc = "state"
  /\ pair' = [pair EXCEPT ![r].pc = "count", ![r].state = chain]
  /\ UNCHANGED <<chain, count, event, synced>>

ReadCount(r) ==
  /\ pair[r].pc = "count"
  /\ pair' = [pair EXCEPT ![r].pc = "read", ![r].cnt = count]
  /\ UNCHANGED <<chain, count, event, synced>>

Synchronize(r) ==
  /\ pair[r].pc = "read" /\ pair[r].cnt >= count
  /\ chain' = pair[r].state /\ count' = pair[r].cnt /\ synced' = TRUE
  /\ UNCHANGED <<event, pair>>

PoHNext ==
  \/ PoHTick \/ RecordBlock
  \/ \E e \in Events : CreateState(e) \/ CreateCount(e) \/ CreateRecord(e)
  \/ \E r \in Readers : ReadState(r) \/ ReadCount(r) \/ Synchronize(r)

PoHSpec == PoHInit /\ [][PoHNext]_pohVars

----------------------------------------------------------------------------
\* Until a recovery sets the state, an event that verifies carries the count its
\* record was made at: what came between the three calls of CreateEvent is
\* noticed, ticks without data too.
VerifiedAtItsCount ==
  \A e \in Events : event[e].pc = "done" /\ Verify(e) /\ ~synced => event[e].at = event[e].cnt + 1
=============================================================================
