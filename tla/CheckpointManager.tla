------------------------- MODULE CheckpointManager -------------------------
(***************************************************************************)
(* Checkpoints of consensus/recovery/checkpoint_manager.go, driven by the   *)
(* adapter of consensus/recovery/hybrid_consensus_recovery.go.              *)
(*                                                                          *)
(* The manager's methods hold cm.mu; FinalizeCheckpoint is split into the   *)
(* writes it makes, since the process may crash between two of them and     *)
(* since cm.mu does not stop the components whose states it collects.       *)
(* While it runs (step # "none") every other method waits for cm.mu.        *)
(* os.WriteFile and os.RemoveAll can fail or be cut by a crash half-way:    *)
(* what they leave is seen only afterwards, so each is one step with the    *)
(* outcomes it can have, those of a crash inside it being outcomes of the   *)
(* crash.                                                                   *)
(*                                                                          *)
(* The content of a component's state is its version; 0 is a fresh process. *)
(* A metadata.json that is not whole cannot be read: it counts as missing.  *)
(***************************************************************************)
EXTENDS Integers, FiniteSets, Functions

CONSTANTS
    Caller,         \* goroutines calling the adapter's CreateCheckpoint
    NoCaller,
    Component,      \* names of the checkpointed components
    ForwardOnly,    \* those whose restore refuses an older state (PoH.Synchronize)
    NotRestored,    \* those whose restore is a no-op ("consensus")
    Height,         \* block heights the callers use
    Interval,       \* checkpointInterval
    InitMax,        \* maxCheckpoints given to NewCheckpointManager
    MaxSettings,    \* values passed to SetMaxCheckpoints
    Faults,         \* the calls that may fail
    Optional,       \* bound: components that are unregistered and registered again
    MaxFaults,      \* bound: failures in one behaviour, one of a kind
    MaxVersion,     \* bound on the versions of a component (model checking only)
    MaxCrashes      \* bound on the number of crashes (model checking only)

VARIABLES
    checkpoints,    \* height -> [status, comps] (Metadata.Components)
    lastCheckpoint,
    pending,        \* height of pendingCheckpoint, 0 for nil
    maxCheckpoints,
    registered,     \* cm.components
    step,           \* where FinalizeCheckpoint is: "none", "collect", "publish"
    todo,           \* components FinalizeCheckpoint has still to visit
    listed,         \* Metadata.Components of the pending checkpoint
    dirs,           \* heights with a directory on disk
    meta,           \* height -> components named by metadata.json
    files,          \* <<height, component>> -> version in the .state file
    live,           \* component -> version of its state in memory
    creating,       \* caller -> height it found a checkpoint is due at, 0 if none
    creator,        \* caller whose CreateCheckpoint made pending and has not returned
    faults,         \* the kinds of calls that have failed
    crashes,        \* number of crashes
    halfRemoved     \* heights whose directory a removal has left half-way

memVars == <<checkpoints, lastCheckpoint, pending, maxCheckpoints, registered, listed>>
callVars == <<creating, creator>>
diskVars == <<dirs, meta, files, halfRemoved>>
vars == <<memVars, step, todo, diskVars, live, callVars, faults, crashes>>

FaultKind == {"getState", "writeState", "writeMeta", "remove"}
Status == {"Complete", "Corrupted", "Verified"}

(* A .state file that was created or truncated and not written to its end.  *)
Short == -1

ASSUME CheckpointAssumption ==
    /\ NoCaller \notin Caller
    /\ Height \subseteq Nat \ {0} /\ IsFiniteSet(Height)
    /\ ForwardOnly \subseteq Component /\ NotRestored \subseteq Component
    /\ Interval \in Nat \ {0}
    /\ InitMax \in Nat \ {0} /\ MaxSettings \subseteq Nat \ {0}
    /\ Faults \subseteq FaultKind /\ Optional \subseteq Component
    /\ {MaxFaults, MaxVersion, MaxCrashes} \subseteq Nat

Empty == [x \in {} |-> x]

(* The highest height of a set, 0 for the empty set.                        *)
Highest(hs) == IF hs = {} THEN 0 ELSE CHOOSE h \in hs : \A g \in hs : g <= h

Init ==
    /\ checkpoints = Empty /\ lastCheckpoint = 0 /\ pending = 0
    /\ maxCheckpoints = InitMax /\ registered = Component
    /\ step = "none" /\ todo = {} /\ listed = {}
    /\ dirs = {} /\ meta = Empty /\ files = Empty
    /\ live = [c \in Component |-> 0]
    /\ creating = [a \in Caller |-> 0] /\ creator = NoCaller
    /\ faults = {} /\ crashes = 0 /\ halfRemoved = {}

Fails(kind) ==
    /\ kind \in Faults \ faults /\ Cardinality(faults) < MaxFaults
    /\ faults' = faults \cup {kind}
Succeeds == UNCHANGED faults

----------------------------------------------------------------------------
(* Creating: ShouldCreateCheckpoint, CreateCheckpoint and FinalizeCheckpoint *)
(* are three calls of the adapter, each taking cm.mu.  An operator Op_Slip   *)
(* is Op with a coding slip and is used by no action.                        *)

ShouldCreateCheckpoint(h) ==
    /\ h % Interval = 0
    /\ h \notin DOMAIN checkpoints
    /\ pending = 0

AdapterCreate(a, h) ==
    /\ creating[a] = 0 /\ creator # a /\ step = "none"
    /\ ShouldCreateCheckpoint(h)
    /\ creating' = [creating EXCEPT ![a] = h]
    /\ UNCHANGED <<memVars, step, todo, diskVars, live, creator, faults, crashes>>

(* Refused when the height is known or another checkpoint is pending.       *)
CreateCheckpoint(a) ==
    /\ creating[a] # 0 /\ step = "none"
    /\ creating' = [creating EXCEPT ![a] = 0]
    /\ IF creating[a] \in DOMAIN checkpoints \/ pending # 0
       THEN UNCHANGED <<pending, listed, dirs, halfRemoved, creator>>
       ELSE /\ pending' = creating[a] /\ listed' = {}
            /\ dirs' = dirs \cup {creating[a]} /\ halfRemoved' = halfRemoved \ {creating[a]}
            /\ creator' = a
    /\ UNCHANGED <<checkpoints, lastCheckpoint, maxCheckpoints, registered, step, todo,
                   meta, files, live, faults, crashes>>

(* Called by the creator, or by hand to retry after an error.               *)
FinalizeCheckpoint_MetadataFirst ==
    /\ pending # 0 /\ step = "none"
    /\ step' = "collect" /\ todo' = registered
    /\ meta' = [h \in DOMAIN meta \cup {pending} |->
                  IF h = pending THEN registered ELSE meta[h]]
    /\ UNCHANGED <<memVars, dirs, files, halfRemoved, live, callVars, faults, crashes>>

FinalizeCheckpoint ==
    /\ pending # 0 /\ step = "none"
    /\ step' = "collect" /\ todo' = registered
    /\ UNCHANGED <<memVars, diskVars, live, callVars, faults, crashes>>

(* The .state file of c with the content v.                                 *)
Written(c, v) ==
    [x \in DOMAIN files \cup {<<pending, c>>} |-> IF x = <<pending, c>> THEN v ELSE files[x]]

(* GetCheckpointState and the write of one .state file.  The component is   *)
(* listed before the write, so it is listed also when the write fails; then *)
(* the file was not opened or is short.                                     *)
CollectState(c) ==
    /\ step = "collect" /\ c \in todo
    /\ todo' = todo \ {c}
    /\ \/ Fails("getState") /\ UNCHANGED <<listed, files>>
       \/ /\ Fails("writeState")
          /\ listed' = listed \cup {c}
          /\ files' \in {files, Written(c, Short)}
       \/ /\ Succeeds
          /\ listed' = listed \cup {c}
          /\ files' = Written(c, live[c])
    /\ UNCHANGED <<checkpoints, lastCheckpoint, pending, maxCheckpoints, registered, step,
                   dirs, meta, halfRemoved, live, callVars, crashes>>

(* metadata.json.  On an error FinalizeCheckpoint returns at once: the      *)
(* adapter gives up and pendingCheckpoint stays.                            *)
WriteMetadata ==
    /\ step = "collect" /\ todo = {}
    /\ \/ /\ Fails("writeMeta")
          /\ step' = "none" /\ creator' = NoCaller /\ UNCHANGED meta
       \/ /\ Succeeds
          /\ meta' = [h \in DOMAIN meta \cup {pending} |->
                         IF h = pending THEN listed ELSE meta[h]]
          /\ step' = "publish" /\ UNCHANGED creator
    /\ UNCHANGED <<memVars, dirs, files, halfRemoved, live, todo, creating, crashes>>

(* The oldest heights above the limit: what cleanupOldCheckpoints deletes.  *)
Surplus_OneLess(hs, max) ==
    {h \in hs : Cardinality({g \in hs : g > h}) >= max - 1}
Surplus(hs, max) ==
    {h \in hs : Cardinality({g \in hs : g > h}) >= max}

(* The directories in gone are removed, of those in half any part.          *)
Removed(gone, half) ==
    \E metaLost \in SUBSET half, filesLost \in SUBSET {x \in DOMAIN files : x[1] \in half} :
        /\ dirs' = dirs \ gone
        /\ meta' = [h \in DOMAIN meta \ (gone \cup metaLost) |-> meta[h]]
        /\ files' = [x \in {y \in DOMAIN files \ filesLost : y[1] \notin gone} |-> files[x]]
        /\ halfRemoved' = (halfRemoved \ gone) \cup half

(* os.RemoveAll of each directory in hs, lowest first.  One that fails may  *)
(* have removed any part of the directory; its checkpoint stays in the map. *)
RemoveDirs(hs) ==
    \/ Succeeds /\ Removed(hs, {})
    \/ Fails("remove") /\ \E bad \in SUBSET hs \ {{}} : Removed(hs \ bad, bad)

(* The process dies while it removes the directory of k.                    *)
RemovalCut(hs) ==
    \E k \in hs : \E bad \in SUBSET {h \in hs : h < k} :
        /\ IF bad = {} THEN Succeeds ELSE Fails("remove")
        /\ Removed({h \in hs : h < k} \ bad, bad \cup {k})

Forget(map, hs) == [h \in DOMAIN map \ hs |-> map[h]]

(* The checkpoint enters the map and becomes the last one; then             *)
(* cleanupOldCheckpoints runs.                                              *)
Publish ==
    /\ step = "publish"
    /\ LET added == [h \in DOMAIN checkpoints \cup {pending} |->
                        IF h = pending THEN [status |-> "Complete", comps |-> listed]
                                       ELSE checkpoints[h]]
           old   == Surplus(DOMAIN added, maxCheckpoints)
       IN /\ RemoveDirs(old)
          /\ checkpoints' = Forget(added, old \ dirs')
    /\ lastCheckpoint' = pending
    /\ pending' = 0 /\ listed' = {} /\ step' = "none" /\ creator' = NoCaller
    /\ UNCHANGED <<maxCheckpoints, registered, todo, live, creating, crashes>>

----------------------------------------------------------------------------
(* The other methods                                                        *)

(* Only the existence of the files named by the metadata is checked.        *)
FilesPresent_MetadataOnly(h) == h \in DOMAIN meta
FilesPresent(h) ==
    /\ h \in DOMAIN meta
    /\ \A c \in checkpoints[h].comps : <<h, c>> \in DOMAIN files

VerifyCheckpoint(h) ==
    /\ step = "none" /\ h \in DOMAIN checkpoints
    /\ checkpoints[h].status = "Complete"
    /\ checkpoints' = [checkpoints EXCEPT ![h].status =
                          IF FilesPresent(h) THEN "Verified" ELSE "Corrupted"]
    /\ UNCHANGED <<lastCheckpoint, pending, maxCheckpoints, registered, listed, step, todo,
                   diskVars, live, callVars, faults, crashes>>

NewLast(rest, h) == IF lastCheckpoint = h THEN Highest(DOMAIN rest) ELSE lastCheckpoint

DeleteCheckpoint(h) ==
    /\ step = "none" /\ h \in DOMAIN checkpoints
    /\ RemoveDirs({h})
    /\ IF h \in dirs' THEN UNCHANGED <<checkpoints, lastCheckpoint>>
       ELSE /\ checkpoints' = Forget(checkpoints, {h})
            /\ lastCheckpoint' = NewLast(checkpoints', h)
    /\ UNCHANGED <<pending, maxCheckpoints, registered, listed, step, todo, live,
                   callVars, crashes>>

SetMaxCheckpoints(max) ==
    /\ step = "none" /\ max # maxCheckpoints
    /\ maxCheckpoints' = max
    /\ LET old == Surplus(DOMAIN checkpoints, max)
       IN RemoveDirs(old) /\ checkpoints' = Forget(checkpoints, old \ dirs')
    /\ UNCHANGED <<lastCheckpoint, pending, registered, listed, step, todo, live,
                   callVars, crashes>>

RegisterComponent(c) ==
    /\ step = "none" /\ c \notin registered
    /\ registered' = registered \cup {c}
    /\ UNCHANGED <<checkpoints, lastCheckpoint, pending, maxCheckpoints, listed, step, todo,
                   diskVars, live, callVars, faults, crashes>>

UnregisterComponent(c) ==
    /\ step = "none" /\ c \in registered
    /\ registered' = registered \ {c}
    /\ UNCHANGED <<checkpoints, lastCheckpoint, pending, maxCheckpoints, listed, step, todo,
                   diskVars, live, callVars, faults, crashes>>

(* A component whose file cannot be read or whose restore fails is skipped. *)
Restored(c, h) ==
    IF c \in registered /\ <<h, c>> \in DOMAIN files /\ c \notin NotRestored
       /\ files[<<h, c>>] # Short /\ ~(c \in ForwardOnly /\ files[<<h, c>>] < live[c])
    THEN files[<<h, c>>] ELSE live[c]

RestoreFromCheckpoint(h) ==
    /\ step = "none" /\ h \in DOMAIN checkpoints
    /\ checkpoints[h].status \in {"Complete", "Verified"}
    /\ live' = [c \in Component |-> Restored(c, h)]
    /\ UNCHANGED <<memVars, step, todo, diskVars, callVars, faults, crashes>>

(* A block is processed, whatever the manager is doing.                     *)
Advance ==
    /\ \A c \in Component : live[c] < MaxVersion
    /\ live' = [c \in Component |-> live[c] + 1]
    /\ UNCHANGED <<memVars, step, todo, diskVars, callVars, faults, crashes>>

(* What a call that holds cm.mu may be removing.                            *)
Removals ==
    CASE step = "publish" -> {Surplus(DOMAIN checkpoints \cup {pending}, maxCheckpoints)}
      [] step = "none" -> {{h} : h \in DOMAIN checkpoints}
                            \cup {Surplus(DOMAIN checkpoints, max) : max \in MaxSettings}
      [] OTHER -> {}

(* Nothing is being written or removed when the process dies, or a state or *)
(* metadata.json is being written, or a directory is being removed.         *)
DiskAtCrash ==
    \/ Succeeds /\ UNCHANGED diskVars
    \/ /\ step = "collect" /\ Succeeds
       /\ \E c \in todo : files' = Written(c, Short)
       /\ UNCHANGED <<dirs, meta, halfRemoved>>
    \/ \E hs \in Removals : RemovalCut(hs)

(* The process dies and a new one runs NewCheckpointManager, which loads    *)
(* every directory with readable metadata, and registers the components.    *)
CrashAndRestart ==
    /\ crashes < MaxCrashes /\ crashes' = crashes + 1
    /\ DiskAtCrash
    /\ checkpoints' = [h \in DOMAIN meta' \cap dirs' |-> [status |-> "Complete", comps |-> meta'[h]]]
    /\ lastCheckpoint' = Highest(DOMAIN checkpoints')
    /\ pending' = 0 /\ listed' = {} /\ step' = "none" /\ todo' = {}
    /\ creating' = [a \in Caller |-> 0] /\ creator' = NoCaller
    /\ maxCheckpoints' = InitMax /\ registered' = Component
    /\ live' = [c \in Component |-> 0]

Next ==
    \/ \E a \in Caller : CreateCheckpoint(a) \/ \E h \in Height : AdapterCreate(a, h)
    \/ \E h \in Height : \/ VerifyCheckpoint(h) \/ DeleteCheckpoint(h)
                         \/ RestoreFromCheckpoint(h)
    \/ FinalizeCheckpoint \/ WriteMetadata \/ Publish
    \/ \E c \in Component : CollectState(c)
    \/ \E c \in Optional : RegisterComponent(c) \/ UnregisterComponent(c)
    \/ \E max \in MaxSettings : SetMaxCheckpoints(max)
    \/ Advance \/ CrashAndRestart

Spec == Init /\ [][Next]_vars

----------------------------------------------------------------------------
(* Properties                                                               *)

TypeOK ==
    /\ DOMAIN checkpoints \subseteq Height
    /\ \A h \in DOMAIN checkpoints : checkpoints[h] \in [status : Status, comps : SUBSET Component]
    /\ lastCheckpoint \in Height \cup {0} /\ pending \in Height \cup {0}
    /\ maxCheckpoints \in Nat \ {0}
    /\ registered \subseteq Component /\ listed \subseteq Component /\ todo \subseteq Component
    /\ step \in {"none", "collect", "publish"}
    /\ dirs \subseteq Height /\ DOMAIN meta \subseteq Height
    /\ \A h \in DOMAIN meta : meta[h] \subseteq Component
    /\ DOMAIN files \subseteq Height \X Component
    /\ \A x \in DOMAIN files : files[x] \in Nat \cup {Short}
    /\ live \in [Component -> Nat] /\ halfRemoved \subseteq Height
    /\ creating \in [Caller -> Height \cup {0}] /\ creator \in Caller \cup {NoCaller}

(* A restart finds exactly the checkpoints the manager had: what the map    *)
(* holds has its metadata on disk and, outside the moment between the       *)
(* metadata write and the map update, the other way round.  A directory     *)
(* whose removal failed or was cut by a crash may have lost its metadata.   *)
MapMatchesDisk ==
    /\ step # "publish" => DOMAIN meta \subseteq DOMAIN checkpoints
    /\ DOMAIN checkpoints \ halfRemoved \subseteq DOMAIN meta

WriteFailed == "writeState" \in faults

(* What is said of a checkpoint can be relied on, also after crashes inside *)
(* any write, after others were cleaned up or deleted and after one at its  *)
(* height was created again: a verified one has a file for every component  *)
(* it lists, and until the write of a state fails, every checkpoint that a  *)
(* removal has not left half-way can restore all it lists and is never      *)
(* found corrupt.  After such a failure VerifyCheckpoint may accept a file  *)
(* that is short.                                                           *)
VerdictsHold ==
    \A h \in DOMAIN checkpoints \ halfRemoved :
        /\ checkpoints[h].status = "Verified" =>
              \A c \in checkpoints[h].comps : <<h, c>> \in DOMAIN files
        /\ ~WriteFailed =>
              /\ checkpoints[h].status # "Corrupted"
              /\ \A c \in checkpoints[h].comps :
                    <<h, c>> \in DOMAIN files /\ files[<<h, c>>] # Short

(* The states a restart would find at height h.                             *)
Lost == -2
Contents(h) == [c \in meta[h] |-> IF <<h, c>> \in DOMAIN files THEN files[<<h, c>>] ELSE Lost]

(* All that a restart would find.                                           *)
Disk == [h \in DOMAIN meta \cap dirs |-> Contents(h)]

Store == INSTANCE CheckpointStore WITH
            store <- Disk, damaged <- halfRemoved, failed <- faults \cap {"writeState"},
            Incomplete <- {Short, Lost}

(* The files on disk implement the store of CheckpointStore: a crash        *)
(* anywhere changes no checkpoint but the one being removed, a checkpoint   *)
(* appears at once and, until a write of a state fails, whole, and clean-up *)
(* or a smaller limit take the lowest and never the last one.               *)
ImplementsStore == Store!Spec

(* "GetLatestCheckpoint returns the latest checkpoint"                      *)
(* (checkpoint_manager.go:365): it finds an entry under lastCheckpoint.     *)
LatestCheckpointExists == lastCheckpoint # 0 => lastCheckpoint \in DOMAIN checkpoints
=============================================================================
