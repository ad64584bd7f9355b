-------------------------- MODULE CheckpointStore --------------------------
(***************************************************************************)
(* What the checkpoints promise to a node that restarts, without callers,   *)
(* pending checkpoints, status, directories and crashes: a durable map from *)
(* heights to component states in which a checkpoint appears at once, whole *)
(* as long as no write of a state has failed, never changes, and goes only  *)
(* when it is deleted or when higher ones stay.  A removal may stop half-   *)
(* way: then the checkpoint it was removing, and no other, is damaged.      *)
(***************************************************************************)
EXTENDS Integers

CONSTANTS
    Height,         \* the heights checkpoints are made at
    Incomplete      \* what is there instead of a state that is not whole

VARIABLES
    store,          \* height -> component -> its state
    damaged,        \* heights whose removal has stopped half-way
    failed          \* empty until the write of a state fails

storeVars == <<store, damaged, failed>>

Init == store = [h \in {} |-> {}] /\ damaged = {} /\ failed = {}

Keeps(hs) == \A h \in hs : store'[h] = store[h]

Save(h) ==
    /\ h \notin DOMAIN store /\ DOMAIN store' = DOMAIN store \cup {h}
    /\ Keeps(DOMAIN store)
    /\ failed = {} => \A c \in DOMAIN store'[h] : store'[h][c] \notin Incomplete
    /\ UNCHANGED <<damaged, failed>>

(* Any of the checkpoints in hs may be gone, or be damaged.                 *)
Remove(hs) ==
    /\ DOMAIN store' \subseteq DOMAIN store /\ DOMAIN store \ hs \subseteq DOMAIN store'
    /\ Keeps(DOMAIN store \ hs)
    /\ \A h \in DOMAIN store' \cap hs :
          /\ DOMAIN store'[h] = DOMAIN store[h]
          /\ \A c \in DOMAIN store[h] : store'[h][c] = store[h][c] \/ store'[h][c] \in Incomplete
    /\ DOMAIN store' \cap hs \subseteq damaged' /\ damaged \ hs \subseteq damaged'
    /\ damaged' \subseteq damaged \cup (hs \cap DOMAIN store)
    /\ UNCHANGED failed

Delete(h) == Remove({h})

(* Some of the lowest go, and all only when a damaged one is left.          *)
Trim(hs) ==
    /\ \A g \in hs \cap DOMAIN store, h \in DOMAIN store \ hs : g < h
    /\ DOMAIN store \subseteq hs => damaged # {}
    /\ Remove(hs)

Fail == failed' # {} /\ UNCHANGED <<store, damaged>>

Next ==
    \/ \E h \in Height : Save(h) \/ Delete(h)
    \/ \E hs \in SUBSET Height : Trim(hs)
    \/ Fail

Spec == Init /\ [][Next]_storeVars
=============================================================================
