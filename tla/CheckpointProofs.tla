-------------------------- MODULE CheckpointProofs --------------------------
(***************************************************************************)
(* Machine-checked properties of the checkpoint manager for every set of    *)
(* callers, components and heights, every limit and every set of faults.    *)
(***************************************************************************)
EXTENDS CheckpointManager, FiniteTheorems

----------------------------------------------------------------------------
(* Facts about the helpers                                                  *)

(* What is above a higher height is above a lower one.                      *)
LEMMA HigherAbove ==
    ASSUME NEW hs \in SUBSET Nat, NEW g \in hs, NEW h \in hs, g > h
    PROVE  /\ {k \in hs : k > g} \subseteq {k \in hs : k > h}
           /\ g \in {k \in hs : k > h} /\ g \notin {k \in hs : k > g}
<1>1. g \in Nat /\ h \in Nat
  OBVIOUS
<1>2. \A k \in hs : k \in Nat /\ (k > g => k > h)
  BY <1>1
<1>3. ~(g > g)
  BY <1>1
<1> QED BY <1>2, <1>3, Zenon

(* A finite, non-empty set of heights has a highest one.                    *)
LEMMA HighestExists ==
    ASSUME NEW hs \in SUBSET Nat, IsFiniteSet(hs), hs # {}
    PROVE  \E h \in hs : \A g \in hs : g <= h
<1> DEFINE f == [h \in hs |-> h]
<1>1. PICK h \in hs : \A g \in hs : f[g] <= f[h]
  <2>1. \A h \in hs : f[h] \in Int
    OBVIOUS
  <2> HIDE DEF f
  <2> QED BY <2>1, HighestOf
<1> QED BY <1>1

(* cleanupOldCheckpoints takes the lowest heights and never all of them.    *)
LEMMA SurplusIsLow ==
    ASSUME NEW hs \in SUBSET Nat, IsFiniteSet(hs), NEW max \in Nat \ {0}
    PROVE  /\ Surplus(hs, max) \subseteq hs
           /\ \A g \in Surplus(hs, max), h \in hs \ Surplus(hs, max) : g < h
           /\ hs # {} => hs \ Surplus(hs, max) # {}
<1> DEFINE Above(h) == {g \in hs : g > h}
<1>1. \A h \in hs : h \in Surplus(hs, max) <=> Cardinality(Above(h)) >= max
  BY DEF Surplus
<1>2. Surplus(hs, max) \subseteq hs
  BY DEF Surplus
<1>3. \A h : IsFiniteSet(Above(h)) /\ Cardinality(Above(h)) \in Nat
  <2> SUFFICES ASSUME NEW h PROVE IsFiniteSet(Above(h)) /\ Cardinality(Above(h)) \in Nat
    OBVIOUS
  <2>1. Above(h) \in SUBSET hs
    OBVIOUS
  <2> HIDE DEF Above
  <2> QED BY <2>1, FS_Subset, FS_CardinalityType
<1>4. ASSUME NEW g \in Surplus(hs, max), NEW h \in hs \ Surplus(hs, max), ~(g < h)
      PROVE  FALSE
  <2>1. g \in Nat /\ h \in Nat /\ g \in hs /\ g > h
    <3>1. g \in hs /\ h \in hs /\ g # h
      BY <1>2
    <3>2. g \in Nat /\ h \in Nat
      BY <3>1
    <3> HIDE DEF Above
    <3> QED BY <1>4, <3>1, <3>2
  <2>2. Above(g) \in SUBSET Above(h)
    BY <1>4, <2>1, HigherAbove
  <2> HIDE DEF Above
  <2>3. Cardinality(Above(g)) <= Cardinality(Above(h))
    BY <1>3, <2>2, FS_Subset
  <2> QED BY <1>1, <1>3, <2>1, <2>3
<1>5. ASSUME hs # {} PROVE hs \ Surplus(hs, max) # {}
  <2>1. PICK h \in hs : \A g \in hs : g <= h
    BY <1>5, HighestExists
  <2>2. Above(h) = {}
    <3>1. \A g \in hs : ~(g > h)
      BY <2>1
    <3> QED BY <3>1
  <2>3. Cardinality(Above(h)) = 0
    BY <2>2, FS_EmptySet
  <2> HIDE DEF Above
  <2> QED BY <1>1, <2>3
<1> QED BY <1>2, <1>4, <1>5

(* What is left once os.RemoveAll has worked on the directories in hs: what  *)
(* remains of one is marked as half-removed, the others are as before.      *)
RemovalLeaves(hs) ==
    /\ dirs' \subseteq dirs /\ dirs \ hs \subseteq dirs' /\ dirs' \cap hs \subseteq halfRemoved'
    /\ DOMAIN meta' \subseteq DOMAIN meta /\ DOMAIN meta \ hs \subseteq DOMAIN meta'
    /\ DOMAIN meta' \subseteq dirs'
    /\ \A h \in DOMAIN meta' : meta'[h] = meta[h]
    /\ DOMAIN files' \subseteq DOMAIN files
    /\ \A h, c : <<h, c>> \in DOMAIN files /\ h \notin hs => <<h, c>> \in DOMAIN files'
    /\ \A x \in DOMAIN files' : files'[x] = files[x]
    /\ halfRemoved \ hs \subseteq halfRemoved' /\ halfRemoved' \subseteq halfRemoved \cup hs
    /\ faults' \cap {"writeState"} = faults \cap {"writeState"}

LEMMA RemovedLeaves ==
    ASSUME NEW gone, NEW half, Removed(gone, half), DOMAIN meta \subseteq dirs,
           Succeeds \/ Fails("remove")
    PROVE  RemovalLeaves(gone \cup half)
<1>1. PICK metaLost \in SUBSET half, filesLost \in SUBSET {x \in DOMAIN files : x[1] \in half} :
        /\ dirs' = dirs \ gone
        /\ meta' = [h \in DOMAIN meta \ (gone \cup metaLost) |-> meta[h]]
        /\ files' = [x \in {y \in DOMAIN files \ filesLost : y[1] \notin gone} |-> files[x]]
        /\ halfRemoved' = (halfRemoved \ gone) \cup half
  BY DEF Removed
<1>2. faults' \cap {"writeState"} = faults \cap {"writeState"}
  BY DEF Succeeds, Fails
<1>3. /\ dirs' \subseteq dirs /\ dirs \ (gone \cup half) \subseteq dirs'
      /\ dirs' \cap (gone \cup half) \subseteq halfRemoved'
      /\ halfRemoved \ (gone \cup half) \subseteq halfRemoved'
      /\ halfRemoved' \subseteq halfRemoved \cup (gone \cup half)
  BY <1>1
<1>4. /\ DOMAIN meta' \subseteq DOMAIN meta /\ DOMAIN meta \ (gone \cup half) \subseteq DOMAIN meta'
      /\ DOMAIN meta' \subseteq dirs'
      /\ \A h \in DOMAIN meta' : meta'[h] = meta[h]
  BY <1>1
<1>5. /\ DOMAIN files' \subseteq DOMAIN files
      /\ \A h, c : <<h, c>> \in DOMAIN files /\ h \notin gone \cup half
                      => <<h, c>> \in DOMAIN files'
      /\ \A x \in DOMAIN files' : files'[x] = files[x]
  <2>1. DOMAIN files' = {y \in DOMAIN files \ filesLost : y[1] \notin gone}
    BY <1>1
  <2>2. \A h, c : <<h, c>> \in filesLost => h \in half
    OBVIOUS
  <2> QED BY <1>1, <2>1, <2>2
<1> QED BY <1>2, <1>3, <1>4, <1>5 DEF RemovalLeaves

(* RemoveDirs does so for all it is given, since metadata lies in a         *)
(* directory.                                                               *)
LEMMA RemoveDirsLeaves ==
    ASSUME NEW hs, RemoveDirs(hs), DOMAIN meta \subseteq dirs
    PROVE  RemovalLeaves(hs)
<1>1. CASE Succeeds /\ Removed(hs, {})
  <2>1. hs \cup {} = hs
    OBVIOUS
  <2> QED BY <1>1, <2>1, RemovedLeaves
<1>2. ASSUME NEW bad \in SUBSET hs, Fails("remove"), Removed(hs \ bad, bad)
      PROVE  RemovalLeaves(hs)
  <2>1. (hs \ bad) \cup bad = hs
    OBVIOUS
  <2> QED BY <1>2, <2>1, RemovedLeaves
<1> QED BY <1>1, <1>2 DEF RemoveDirs

(* A removal that is cut has worked on the lowest directories.              *)
UpTo(hs, k) == {h \in hs : h < k} \cup {k}

LEMMA RemovalCutLeaves ==
    ASSUME NEW hs, RemovalCut(hs), DOMAIN meta \subseteq dirs
    PROVE  \E k \in hs : RemovalLeaves(UpTo(hs, k))
<1>1. PICK k \in hs : \E bad \in SUBSET {h \in hs : h < k} :
        /\ IF bad = {} THEN Succeeds ELSE Fails("remove")
        /\ Removed({h \in hs : h < k} \ bad, bad \cup {k})
  BY DEF RemovalCut
<1>2. PICK bad \in SUBSET {h \in hs : h < k} :
        /\ IF bad = {} THEN Succeeds ELSE Fails("remove")
        /\ Removed({h \in hs : h < k} \ bad, bad \cup {k})
  BY <1>1
<1>3. ({h \in hs : h < k} \ bad) \cup (bad \cup {k}) = UpTo(hs, k)
  BY DEF UpTo
<1>4. Succeeds \/ Fails("remove")
  BY <1>2
<1>5. RemovalLeaves(({h \in hs : h < k} \ bad) \cup (bad \cup {k}))
  BY <1>2, <1>4, RemovedLeaves
<1> QED BY <1>3, <1>5

----------------------------------------------------------------------------
(* The inductive invariant.  MapMatchesDisk needs to know that metadata     *)
(* lies in a directory (or a failed removal could leave metadata of a       *)
(* forgotten checkpoint) and what FinalizeCheckpoint has done at each step; *)
(* VerdictsHold needs the lists in memory and on disk to agree and, until   *)
(* the write of a state fails, every listed state to be whole on the disk   *)
(* already.                                                                 *)

MetadataInDirectory == DOMAIN meta \subseteq dirs

(* A pending checkpoint has a directory of its own and is not in the map.   *)
PendingIsNew ==
    pending # 0 => pending \notin DOMAIN checkpoints \cup halfRemoved /\ pending \in dirs

(* FinalizeCheckpoint works on a pending checkpoint, and between the        *)
(* metadata write and the map update its metadata is the only one missing   *)
(* from the map.                                                            *)
FinalizeProgress ==
    /\ step # "none" => pending # 0
    /\ step = "publish" => /\ pending \in DOMAIN meta /\ meta[pending] = listed
                           /\ DOMAIN meta \subseteq DOMAIN checkpoints \cup {pending}

(* The map and metadata.json list the same components.                      *)
ListsAgree == \A h \in DOMAIN checkpoints \cap DOMAIN meta : checkpoints[h].comps = meta[h]

(* The .state file of c at height h was written to its end.                 *)
Whole(h, c) == <<h, c>> \in DOMAIN files /\ files[<<h, c>>] # Short

(* Until the write of a state fails, a listed state has been written.       *)
ListedIsWritten ==
    ~WriteFailed =>
        /\ \A h \in DOMAIN meta \ halfRemoved : \A c \in meta[h] : Whole(h, c)
        /\ pending # 0 => \A c \in listed : Whole(pending, c)

CheckpointInv ==
    /\ TypeOK
    /\ MapMatchesDisk /\ VerdictsHold
    /\ MetadataInDirectory /\ PendingIsNew /\ FinalizeProgress
    /\ ListsAgree /\ ListedIsWritten

(* What the parts of the invariant that speak about the map say of any map. *)
GoodMap(map) ==
    /\ DOMAIN map \subseteq Height
    /\ \A h \in DOMAIN map : map[h] \in [status : Status, comps : SUBSET Component]
    /\ DOMAIN meta \subseteq DOMAIN map
    /\ DOMAIN map \ halfRemoved \subseteq DOMAIN meta
    /\ \A h \in DOMAIN map \ halfRemoved :
          /\ map[h].status = "Verified" => \A c \in map[h].comps : <<h, c>> \in DOMAIN files
          /\ map[h].status = "Corrupted" => WriteFailed
    /\ \A h \in DOMAIN map \cap DOMAIN meta : map[h].comps = meta[h]

(* Outside Publish the manager's map is one.                                *)
LEMMA MapIsGood ==
    ASSUME CheckpointInv, step # "publish"
    PROVE  GoodMap(checkpoints)
BY DEF CheckpointInv, TypeOK, MapMatchesDisk, VerdictsHold, ListsAgree, GoodMap

(* What is whole stays so where a removal has left no half.                 *)
LEMMA RemovalKeepsWhole ==
    ASSUME NEW hs, RemovalLeaves(hs), ListedIsWritten, ~WriteFailed'
    PROVE  /\ ~WriteFailed
           /\ \A h \in DOMAIN meta' \ halfRemoved' : \A c \in meta'[h] : Whole(h, c)'
           /\ \A h, c : h \notin hs /\ Whole(h, c) => Whole(h, c)'
<1>1. ~WriteFailed
  BY DEF WriteFailed, RemovalLeaves
<1>2. \A h, c : h \notin hs /\ Whole(h, c) => Whole(h, c)'
  BY DEF RemovalLeaves, Whole
<1>3. \A h \in DOMAIN meta' \ halfRemoved' :
         h \notin hs /\ h \in DOMAIN meta \ halfRemoved /\ meta'[h] = meta[h]
  BY DEF RemovalLeaves
<1> QED BY <1>1, <1>2, <1>3 DEF ListedIsWritten

(* What a removal leaves has the types it had.                              *)
LEMMA RemovalTypes ==
    ASSUME TypeOK, NEW hs \in SUBSET Height, RemovalLeaves(hs)
    PROVE  /\ dirs' \subseteq Height /\ DOMAIN meta' \subseteq Height
           /\ \A h \in DOMAIN meta' : meta'[h] \subseteq Component
           /\ DOMAIN files' \subseteq Height \X Component
           /\ \A x \in DOMAIN files' : files'[x] \in Nat \cup {Short}
           /\ halfRemoved' \subseteq Height
BY DEF TypeOK, RemovalLeaves

(* Removing directories and forgetting the checkpoints whose directory is   *)
(* gone: common to Publish, DeleteCheckpoint and SetMaxCheckpoints.         *)
LEMMA PruningKeeps ==
    ASSUME CheckpointInv, NEW map, GoodMap(map), NEW hs \in SUBSET DOMAIN map, RemoveDirs(hs),
           DOMAIN checkpoints' = DOMAIN map \ (hs \ dirs'),
           \A h \in DOMAIN checkpoints' : checkpoints'[h] = map[h],
           pending' # 0 => pending' = pending /\ pending \notin hs /\ listed' = listed
    PROVE  /\ MapMatchesDisk' /\ VerdictsHold' /\ MetadataInDirectory' /\ ListsAgree'
           /\ ListedIsWritten'
           /\ DOMAIN checkpoints' \subseteq Height
           /\ \A h \in DOMAIN checkpoints' :
                 checkpoints'[h] \in [status : Status, comps : SUBSET Component]
           /\ RemovalLeaves(hs)
<1>1. RemovalLeaves(hs)
  BY RemoveDirsLeaves DEF CheckpointInv, MetadataInDirectory
<1>2. WriteFailed' <=> WriteFailed
  BY <1>1 DEF RemovalLeaves, WriteFailed
<1>3. DOMAIN meta' \subseteq DOMAIN checkpoints' /\ MetadataInDirectory'
  BY <1>1 DEF RemovalLeaves, GoodMap, MetadataInDirectory
<1>4. ASSUME NEW h \in DOMAIN checkpoints' \ halfRemoved'
      PROVE  h \in DOMAIN map \ halfRemoved /\ h \notin hs /\ h \in DOMAIN meta'
  BY <1>1 DEF RemovalLeaves, GoodMap
<1>5. DOMAIN checkpoints' \ halfRemoved' \subseteq DOMAIN meta'
  BY <1>4
<1>6. ListsAgree'
  BY <1>1 DEF RemovalLeaves, GoodMap, ListsAgree
<1>7. ListedIsWritten'
  BY <1>1, RemovalKeepsWhole DEF CheckpointInv, ListedIsWritten
<1>8. \A h \in DOMAIN checkpoints' \ halfRemoved' :
         /\ checkpoints'[h].status = "Verified" =>
               \A c \in checkpoints'[h].comps : <<h, c>> \in DOMAIN files'
         /\ checkpoints'[h].status = "Corrupted" => WriteFailed'
  BY <1>1, <1>2, <1>4 DEF RemovalLeaves, GoodMap
<1>9. VerdictsHold'
  BY <1>2, <1>5, <1>6, <1>7, <1>8 DEF ListsAgree, ListedIsWritten, Whole, VerdictsHold
<1>10. /\ DOMAIN checkpoints' \subseteq Height
       /\ \A h \in DOMAIN checkpoints' :
             checkpoints'[h] \in [status : Status, comps : SUBSET Component]
  BY DEF GoodMap
<1> QED BY <1>1, <1>3, <1>5, <1>6, <1>7, <1>9, <1>10 DEF MapMatchesDisk

(* The highest height of a set of heights is one of them or 0.              *)
LEMMA HighestType ==
    ASSUME NEW hs \in SUBSET Height
    PROVE  Highest(hs) \in Height \cup {0}
<1>1. hs \in SUBSET Nat /\ IsFiniteSet(hs)
  BY FS_Subset, CheckpointAssumption
<1>2. hs # {} => \E h \in hs : \A g \in hs : g <= h
  BY <1>1, HighestExists
<1> QED BY <1>2 DEF Highest

----------------------------------------------------------------------------
(* The actions                                                              *)

(* What a crash leaves on the disk is as good as what was there.            *)
LEMMA CrashLeaves ==
    ASSUME CheckpointInv, DiskAtCrash
    PROVE  /\ dirs' \subseteq Height /\ DOMAIN meta' \subseteq Height
           /\ \A h \in DOMAIN meta' : meta'[h] \subseteq Component
           /\ DOMAIN files' \subseteq Height \X Component
           /\ \A x \in DOMAIN files' : files'[x] \in Nat \cup {Short}
           /\ halfRemoved' \subseteq Height
           /\ DOMAIN meta' \subseteq dirs'
           /\ ~WriteFailed' =>
                 \A h \in DOMAIN meta' \ halfRemoved' : \A c \in meta'[h] : Whole(h, c)'
<1> USE DEF diskVars
<1>1. CASE Succeeds /\ UNCHANGED diskVars
  <2>1. WriteFailed' <=> WriteFailed
    BY <1>1 DEF Succeeds, WriteFailed
  <2>2. \A h, c : Whole(h, c)' <=> Whole(h, c)
    BY <1>1 DEF Whole
  <2> QED
    BY <1>1, <2>1, <2>2 DEF CheckpointInv, TypeOK, MetadataInDirectory, ListedIsWritten
<1>2. ASSUME step = "collect", Succeeds, NEW c \in todo, files' = Written(c, Short),
             UNCHANGED <<dirs, meta, halfRemoved>>
      PROVE  /\ DOMAIN files' \subseteq Height \X Component
             /\ \A x \in DOMAIN files' : files'[x] \in Nat \cup {Short}
             /\ ~WriteFailed' =>
                   \A h \in DOMAIN meta' \ halfRemoved' : \A d \in meta'[h] : Whole(h, d)'
  <2>1. pending \in Height /\ pending \notin DOMAIN meta /\ c \in Component
    BY <1>2 DEF CheckpointInv, FinalizeProgress, PendingIsNew, MapMatchesDisk, TypeOK
  <2> DEFINE file == <<pending, c>>
  <2>2. file = <<pending, c>> /\ file \in Height \X Component
    BY <2>1
  <2> HIDE DEF file
  <2>3. /\ DOMAIN files' = DOMAIN files \cup {file} /\ files'[file] = Short
        /\ \A x \in DOMAIN files : x # file => files'[x] = files[x]
    BY <1>2, <2>2 DEF Written
  <2>4. \A h \in DOMAIN meta : \A d : Whole(h, d) => Whole(h, d)'
    <3>1. \A h \in DOMAIN meta : \A d : <<h, d>> # file
      BY <2>1, <2>2
    <3> QED BY <2>3, <3>1 DEF Whole
  <2>5. WriteFailed' <=> WriteFailed
    BY <1>2 DEF Succeeds, WriteFailed
  <2>6. DOMAIN files' \subseteq Height \X Component
    BY <2>2, <2>3 DEF CheckpointInv, TypeOK
  <2>7. \A x \in DOMAIN files' : files'[x] \in Nat \cup {Short}
    BY <2>3 DEF CheckpointInv, TypeOK
  <2>8. ~WriteFailed' =>
           \A h \in DOMAIN meta' \ halfRemoved' : \A d \in meta'[h] : Whole(h, d)'
    BY <1>2, <2>4, <2>5 DEF CheckpointInv, ListedIsWritten
  <2> QED BY <2>6, <2>7, <2>8
<1>3. ASSUME NEW hs \in Removals, RemovalCut(hs)
      PROVE  \E touched \in SUBSET Height : RemovalLeaves(touched)
  <2>1. hs \in SUBSET Height
    <3>1. \A ks \in SUBSET Height : \A max : Surplus(ks, max) \in SUBSET Height
      BY DEF Surplus
    <3>2. DOMAIN checkpoints \in SUBSET Height
          /\ (step = "publish" => DOMAIN checkpoints \cup {pending} \in SUBSET Height)
      BY DEF CheckpointInv, TypeOK, FinalizeProgress
    <3>3. CASE step = "publish"
      <4>1. hs = Surplus(DOMAIN checkpoints \cup {pending}, maxCheckpoints)
        BY <1>3, <3>3 DEF Removals
      <4> QED BY <3>1, <3>2, <3>3, <4>1
    <3>4. CASE step = "none"
      <4>1. hs \in {{h} : h \in DOMAIN checkpoints}
                     \cup {Surplus(DOMAIN checkpoints, max) : max \in MaxSettings}
        BY <1>3, <3>4 DEF Removals
      <4> QED BY <3>1, <3>2, <4>1
    <3>5. CASE step # "publish" /\ step # "none"
      BY <1>3, <3>5 DEF Removals
    <3> QED BY <3>3, <3>4, <3>5
  <2>2. PICK k \in hs : RemovalLeaves(UpTo(hs, k))
    BY <1>3, RemovalCutLeaves DEF CheckpointInv, MetadataInDirectory
  <2>3. UpTo(hs, k) \in SUBSET Height
    BY <2>1 DEF UpTo
  <2> QED BY <2>2, <2>3
<1>4. CASE \E touched \in SUBSET Height : RemovalLeaves(touched)
  <2>1. PICK touched \in SUBSET Height : RemovalLeaves(touched)
    BY <1>4
  <2>2. /\ dirs' \subseteq Height /\ DOMAIN meta' \subseteq Height
        /\ \A h \in DOMAIN meta' : meta'[h] \subseteq Component
        /\ DOMAIN files' \subseteq Height \X Component
        /\ \A x \in DOMAIN files' : files'[x] \in Nat \cup {Short}
        /\ halfRemoved' \subseteq Height
    BY <2>1, RemovalTypes DEF CheckpointInv
  <2>3. DOMAIN meta' \subseteq dirs'
    BY <2>1 DEF RemovalLeaves
  <2>4. ~WriteFailed' =>
           \A h \in DOMAIN meta' \ halfRemoved' : \A c \in meta'[h] : Whole(h, c)'
    BY <2>1, RemovalKeepsWhole DEF CheckpointInv
  <2> QED BY <2>2, <2>3, <2>4
<1>5. CASE /\ step = "collect" /\ Succeeds
           /\ \E c \in todo : files' = Written(c, Short)
           /\ UNCHANGED <<dirs, meta, halfRemoved>>
  <2>1. /\ dirs' \subseteq Height /\ DOMAIN meta' \subseteq Height
        /\ \A h \in DOMAIN meta' : meta'[h] \subseteq Component
        /\ halfRemoved' \subseteq Height /\ DOMAIN meta' \subseteq dirs'
    BY <1>5 DEF CheckpointInv, TypeOK, MetadataInDirectory
  <2> QED BY <1>2, <1>5, <2>1
<1> QED BY <1>1, <1>3, <1>4, <1>5 DEF DiskAtCrash

(* The map of a new process.                                                *)
LEMMA RestartKeeps ==
    ASSUME CheckpointInv, CrashAndRestart
    PROVE  CheckpointInv'
<1>1. /\ dirs' \subseteq Height /\ DOMAIN meta' \subseteq Height
      /\ \A h \in DOMAIN meta' : meta'[h] \subseteq Component
      /\ DOMAIN files' \subseteq Height \X Component
      /\ \A x \in DOMAIN files' : files'[x] \in Nat \cup {Short}
      /\ halfRemoved' \subseteq Height
      /\ DOMAIN meta' \subseteq dirs'
      /\ ~WriteFailed' =>
            \A h \in DOMAIN meta' \ halfRemoved' : \A c \in meta'[h] : Whole(h, c)'
  BY CrashLeaves DEF CrashAndRestart
<1>2. /\ DOMAIN checkpoints' = DOMAIN meta'
      /\ \A h \in DOMAIN meta' : checkpoints'[h] = [status |-> "Complete", comps |-> meta'[h]]
      /\ lastCheckpoint' = Highest(DOMAIN checkpoints')
      /\ pending' = 0 /\ listed' = {} /\ step' = "none" /\ todo' = {}
      /\ creating' = [a \in Caller |-> 0] /\ creator' = NoCaller
      /\ maxCheckpoints' = InitMax /\ registered' = Component
      /\ live' = [c \in Component |-> 0]
  BY <1>1 DEF CrashAndRestart
<1>3. /\ DOMAIN checkpoints' \in SUBSET Height
      /\ \A h \in DOMAIN checkpoints' :
            /\ checkpoints'[h] \in [status : Status, comps : SUBSET Component]
            /\ checkpoints'[h].status = "Complete" /\ checkpoints'[h].comps = meta'[h]
  BY <1>1, <1>2 DEF Status
<1>4. lastCheckpoint' \in Height \cup {0}
  BY <1>2, <1>3, HighestType
<1>5. TypeOK'
  BY <1>1, <1>2, <1>3, <1>4, CheckpointAssumption DEF TypeOK
<1>6. MapMatchesDisk' /\ MetadataInDirectory' /\ PendingIsNew' /\ FinalizeProgress'
  BY <1>1, <1>2 DEF MapMatchesDisk, MetadataInDirectory, PendingIsNew, FinalizeProgress
<1>7. ListsAgree' /\ ListedIsWritten'
  BY <1>1, <1>2, <1>3 DEF ListsAgree, ListedIsWritten
<1>8. VerdictsHold'
  BY <1>1, <1>2, <1>3 DEF VerdictsHold, Whole
<1> QED BY <1>5, <1>6, <1>7, <1>8 DEF CheckpointInv

(* Publish: the pending checkpoint enters the map, the surplus goes.        *)
LEMMA PublishKeeps ==
    ASSUME CheckpointInv, Publish
    PROVE  CheckpointInv'
<1> DEFINE new == [status |-> "Complete", comps |-> listed]
           added == [h \in DOMAIN checkpoints \cup {pending} |->
                        IF h = pending THEN new ELSE checkpoints[h]]
           old == Surplus(DOMAIN added, maxCheckpoints)
<1>1. /\ step = "publish" /\ RemoveDirs(old) /\ checkpoints' = Forget(added, old \ dirs')
      /\ lastCheckpoint' = pending
      /\ pending' = 0 /\ listed' = {} /\ step' = "none" /\ creator' = NoCaller
      /\ UNCHANGED <<maxCheckpoints, registered, todo, live, creating>>
  BY DEF Publish
<1>2. /\ pending # 0 /\ pending \in DOMAIN meta /\ meta[pending] = listed
      /\ DOMAIN meta \subseteq DOMAIN checkpoints \cup {pending}
      /\ pending \in Height /\ listed \subseteq Component
  BY <1>1 DEF CheckpointInv, FinalizeProgress, TypeOK
<1>3. /\ DOMAIN added = DOMAIN checkpoints \cup {pending}
      /\ \A h \in DOMAIN checkpoints \ {pending} : added[h] = checkpoints[h]
      /\ added[pending] = new
  OBVIOUS
<1>4. GoodMap(added)
  <2>1. /\ new \in [status : Status, comps : SUBSET Component]
        /\ new.status = "Complete" /\ new.comps = meta[pending]
    BY <1>2 DEF Status
  <2> HIDE DEF added, new
  <2> QED
    BY <1>1, <1>2, <1>3, <2>1 DEF CheckpointInv, TypeOK, MapMatchesDisk, VerdictsHold,
       ListsAgree, GoodMap
<1>5. old \in SUBSET DOMAIN added
  BY DEF Surplus
<1> HIDE DEF added, new, old
<1>6. /\ DOMAIN checkpoints' = DOMAIN added \ (old \ dirs')
      /\ \A h \in DOMAIN checkpoints' : checkpoints'[h] = added[h]
  BY <1>1 DEF Forget
<1>7. /\ MapMatchesDisk' /\ VerdictsHold' /\ MetadataInDirectory' /\ ListsAgree'
      /\ ListedIsWritten'
      /\ DOMAIN checkpoints' \subseteq Height
      /\ \A h \in DOMAIN checkpoints' :
            checkpoints'[h] \in [status : Status, comps : SUBSET Component]
      /\ RemovalLeaves(old)
  BY <1>1, <1>4, <1>5, <1>6, PruningKeeps
<1>8. /\ dirs' \subseteq Height /\ DOMAIN meta' \subseteq Height
      /\ \A h \in DOMAIN meta' : meta'[h] \subseteq Component
      /\ DOMAIN files' \subseteq Height \X Component
      /\ \A x \in DOMAIN files' : files'[x] \in Nat \cup {Short}
      /\ halfRemoved' \subseteq Height
  <2>1. old \in SUBSET Height
    BY <1>4, <1>5 DEF GoodMap
  <2> QED BY <1>7, <2>1, RemovalTypes DEF CheckpointInv
<1>9. TypeOK'
  BY <1>1, <1>2, <1>7, <1>8 DEF CheckpointInv, TypeOK
<1>10. PendingIsNew' /\ FinalizeProgress'
  BY <1>1 DEF PendingIsNew, FinalizeProgress
<1> QED BY <1>7, <1>9, <1>10 DEF CheckpointInv

(* Removals while FinalizeCheckpoint does not run leave the pending         *)
(* checkpoint alone, since it is not in the map.                            *)
LEMMA IdlePruningKeeps ==
    ASSUME CheckpointInv, step = "none", NEW hs \in SUBSET DOMAIN checkpoints, RemoveDirs(hs),
           DOMAIN checkpoints' = DOMAIN checkpoints \ (hs \ dirs'),
           \A h \in DOMAIN checkpoints' : checkpoints'[h] = checkpoints[h],
           UNCHANGED <<pending, registered, listed, step, todo, live, callVars>>,
           lastCheckpoint' \in Height \cup {0}, maxCheckpoints' \in Nat \ {0}
    PROVE  CheckpointInv'
<1>1. GoodMap(checkpoints)
  BY MapIsGood
<1>2. pending # 0 => /\ pending \notin hs /\ pending \in dirs
                     /\ pending \notin DOMAIN checkpoints' \cup halfRemoved
  BY DEF CheckpointInv, PendingIsNew
<1>3. /\ MapMatchesDisk' /\ VerdictsHold' /\ MetadataInDirectory' /\ ListsAgree'
      /\ ListedIsWritten'
      /\ DOMAIN checkpoints' \subseteq Height
      /\ \A h \in DOMAIN checkpoints' :
            checkpoints'[h] \in [status : Status, comps : SUBSET Component]
      /\ RemovalLeaves(hs)
  BY <1>1, <1>2, PruningKeeps
<1>4. /\ dirs' \subseteq Height /\ DOMAIN meta' \subseteq Height
      /\ \A h \in DOMAIN meta' : meta'[h] \subseteq Component
      /\ DOMAIN files' \subseteq Height \X Component
      /\ \A x \in DOMAIN files' : files'[x] \in Nat \cup {Short}
      /\ halfRemoved' \subseteq Height
  <2>1. hs \in SUBSET Height
    BY <1>1 DEF GoodMap
  <2> QED BY <1>3, <2>1, RemovalTypes DEF CheckpointInv
<1>5. TypeOK'
  BY <1>3, <1>4 DEF CheckpointInv, TypeOK, callVars
<1>6. PendingIsNew' /\ FinalizeProgress'
  BY <1>2, <1>3 DEF PendingIsNew, FinalizeProgress, RemovalLeaves
<1> QED BY <1>3, <1>5, <1>6 DEF CheckpointInv

LEMMA DeleteKeeps ==
    ASSUME CheckpointInv, NEW h \in Height, DeleteCheckpoint(h)
    PROVE  CheckpointInv'
<1>1. DOMAIN checkpoints \in SUBSET Height
  BY DEF CheckpointInv, TypeOK
<1>2. /\ {h} \in SUBSET DOMAIN checkpoints /\ RemoveDirs({h}) /\ step = "none"
      /\ UNCHANGED <<pending, registered, listed, step, todo, live, callVars>>
      /\ maxCheckpoints' \in Nat \ {0}
  BY DEF DeleteCheckpoint, CheckpointInv, TypeOK
<1>3. CASE h \in dirs'
  <2>1. UNCHANGED <<checkpoints, lastCheckpoint>>
    BY <1>3 DEF DeleteCheckpoint
  <2>2. /\ DOMAIN checkpoints' = DOMAIN checkpoints \ ({h} \ dirs')
        /\ \A g \in DOMAIN checkpoints' : checkpoints'[g] = checkpoints[g]
    BY <1>3, <2>1
  <2>3. lastCheckpoint' \in Height \cup {0}
    BY <2>1 DEF CheckpointInv, TypeOK
  <2> QED BY <1>2, <2>2, <2>3, IdlePruningKeeps
<1>4. CASE h \notin dirs'
  <2>1. /\ checkpoints' = Forget(checkpoints, {h})
        /\ lastCheckpoint' = NewLast(checkpoints', h)
    BY <1>4 DEF DeleteCheckpoint
  <2>2. /\ DOMAIN checkpoints' = DOMAIN checkpoints \ ({h} \ dirs')
        /\ \A g \in DOMAIN checkpoints' : checkpoints'[g] = checkpoints[g]
    BY <1>4, <2>1 DEF Forget
  <2>3. lastCheckpoint' \in Height \cup {0}
    BY <1>1, <2>1, <2>2, HighestType DEF NewLast, CheckpointInv, TypeOK
  <2> QED BY <1>2, <2>2, <2>3, IdlePruningKeeps
<1> QED BY <1>3, <1>4

LEMMA SetMaxKeeps ==
    ASSUME CheckpointInv, NEW max \in MaxSettings, SetMaxCheckpoints(max)
    PROVE  CheckpointInv'
<1> DEFINE old == Surplus(DOMAIN checkpoints, max)
<1>1. old \in SUBSET DOMAIN checkpoints
  BY DEF Surplus
<1>2. max \in Nat \ {0}
  BY CheckpointAssumption
<1>3. /\ RemoveDirs(old) /\ checkpoints' = Forget(checkpoints, old \ dirs')
      /\ step = "none" /\ maxCheckpoints' = max
      /\ UNCHANGED <<lastCheckpoint, pending, registered, listed, step, todo, live, callVars>>
  BY DEF SetMaxCheckpoints
<1> HIDE DEF old
<1>4. /\ DOMAIN checkpoints' = DOMAIN checkpoints \ (old \ dirs')
      /\ \A h \in DOMAIN checkpoints' : checkpoints'[h] = checkpoints[h]
  BY <1>3 DEF Forget
<1>5. lastCheckpoint' \in Height \cup {0}
  BY <1>3 DEF CheckpointInv, TypeOK
<1> QED BY <1>1, <1>2, <1>3, <1>4, <1>5, IdlePruningKeeps

(* Steps that change neither the disk nor the map nor the pending           *)
(* checkpoint.                                                              *)
LEMMA QuietKeeps ==
    ASSUME CheckpointInv, TypeOK', step' = step \/ (pending # 0 /\ step' = "collect"),
           step = "none" \/ step' = step,
           UNCHANGED <<checkpoints, pending, listed, dirs, meta, files, halfRemoved, faults>>
    PROVE  CheckpointInv'
<1>1. \A h, c : Whole(h, c)' <=> Whole(h, c)
  BY DEF Whole
<1>2. WriteFailed' <=> WriteFailed
  BY DEF WriteFailed
<1>3. MapMatchesDisk' /\ VerdictsHold'
  BY <1>2 DEF CheckpointInv, MapMatchesDisk, VerdictsHold
<1>4. MetadataInDirectory' /\ PendingIsNew' /\ FinalizeProgress' /\ ListsAgree'
  BY DEF CheckpointInv, MetadataInDirectory, PendingIsNew, FinalizeProgress, ListsAgree
<1>5. ListedIsWritten'
  BY <1>1, <1>2 DEF CheckpointInv, ListedIsWritten
<1> QED BY <1>3, <1>4, <1>5 DEF CheckpointInv

(* Creating, collecting and writing the metadata.                           *)
LEMMA FinalizeKeeps ==
    ASSUME CheckpointInv,
           \/ \E a \in Caller : CreateCheckpoint(a) \/ \E h \in Height : AdapterCreate(a, h)
           \/ FinalizeCheckpoint \/ WriteMetadata
           \/ \E c \in Component : CollectState(c)
    PROVE  CheckpointInv'
<1> USE DEF memVars, diskVars, callVars
<1>1. ASSUME NEW a \in Caller, NEW h \in Height, AdapterCreate(a, h)
      PROVE  CheckpointInv'
  <2>1. TypeOK'
    BY <1>1 DEF AdapterCreate, CheckpointInv, TypeOK
  <2> QED BY <1>1, <2>1, QuietKeeps DEF AdapterCreate
<1>2. ASSUME NEW a \in Caller, CreateCheckpoint(a)
      PROVE  CheckpointInv'
  <2>1. UNCHANGED <<checkpoints, step, meta, files, faults>> /\ step = "none"
    BY <1>2 DEF CreateCheckpoint
  <2>2. TypeOK'
    BY <1>2 DEF CreateCheckpoint, CheckpointInv, TypeOK
  <2>3. dirs \subseteq dirs'
        /\ (\/ UNCHANGED <<pending, listed, halfRemoved>>
            \/ /\ pending' \notin DOMAIN checkpoints
               /\ pending' \in dirs' /\ listed' = {} /\ halfRemoved' = halfRemoved \ {pending'})
    BY <1>2 DEF CreateCheckpoint
  <2>4. /\ DOMAIN meta \subseteq DOMAIN checkpoints
        /\ DOMAIN checkpoints \ halfRemoved' = DOMAIN checkpoints \ halfRemoved
        /\ DOMAIN meta \ halfRemoved' = DOMAIN meta \ halfRemoved
    BY <2>1, <2>3 DEF CheckpointInv, MapMatchesDisk
  <2>5. PendingIsNew' /\ MetadataInDirectory' /\ FinalizeProgress'
    BY <2>1, <2>3 DEF CheckpointInv, PendingIsNew, MetadataInDirectory, FinalizeProgress
  <2>6. MapMatchesDisk' /\ ListsAgree'
    BY <2>1, <2>4 DEF CheckpointInv, MapMatchesDisk, ListsAgree
  <2>7. WriteFailed' <=> WriteFailed
    BY <2>1 DEF WriteFailed
  <2>8. VerdictsHold'
    BY <2>1, <2>4, <2>7 DEF CheckpointInv, VerdictsHold
  <2>9. ListedIsWritten'
    <3>1. \A h, c : Whole(h, c)' <=> Whole(h, c)
      BY <2>1 DEF Whole
    <3> QED BY <2>1, <2>3, <2>4, <2>7, <3>1 DEF CheckpointInv, ListedIsWritten
  <2> QED BY <2>2, <2>5, <2>6, <2>8, <2>9 DEF CheckpointInv
<1>3. CASE FinalizeCheckpoint
  <2>1. TypeOK'
    BY <1>3 DEF FinalizeCheckpoint, CheckpointInv, TypeOK
  <2> QED BY <1>3, <2>1, QuietKeeps DEF FinalizeCheckpoint
<1>4. ASSUME NEW c \in Component, CollectState(c)
      PROVE  CheckpointInv'
  <2> DEFINE file == <<pending, c>>
  <2>1. /\ UNCHANGED <<checkpoints, lastCheckpoint, pending, maxCheckpoints, registered, step,
                       dirs, meta, live, creating, creator, halfRemoved>>
        /\ step = "collect" /\ todo' \subseteq todo
    BY <1>4 DEF CollectState
  <2>2. /\ pending \in Height /\ live[c] \in Nat /\ file \in Height \X Component
        /\ pending # 0 /\ pending \notin DOMAIN checkpoints /\ pending \notin DOMAIN meta
    BY <2>1 DEF CheckpointInv, FinalizeProgress, PendingIsNew, MapMatchesDisk, TypeOK
  <2>3. file = <<pending, c>> /\ \A h, d : h # pending => <<h, d>> # file
    OBVIOUS
  <2> HIDE DEF file
  <2>4. ASSUME NEW v, files' = Written(c, v)
        PROVE  /\ DOMAIN files' = DOMAIN files \cup {file} /\ files'[file] = v
               /\ \A x \in DOMAIN files : x # file => files'[x] = files[x]
    BY <2>3, <2>4 DEF Written
  <2>5. \E v \in Nat \cup {Short} : files' \in {files, Written(c, v)}
    BY <1>4, <2>2 DEF CollectState
  <2>6. /\ DOMAIN files \subseteq DOMAIN files' /\ DOMAIN files' \subseteq DOMAIN files \cup {file}
        /\ \A x \in DOMAIN files : x # file => files'[x] = files[x]
        /\ \A x \in DOMAIN files' : files'[x] \in Nat \cup {Short}
    <3>1. \A x \in DOMAIN files : files[x] \in Nat \cup {Short}
      BY DEF CheckpointInv, TypeOK
    <3> QED BY <2>4, <2>5, <3>1
  <2>7. /\ WriteFailed => WriteFailed'
        /\ ~WriteFailed' => \/ listed' = listed /\ files' = files
                            \/ listed' = listed \cup {c} /\ files' = Written(c, live[c])
    BY <1>4 DEF CollectState, Fails, Succeeds, WriteFailed
  <2>8. listed' \subseteq listed \cup {c}
    BY <1>4 DEF CollectState
  <2>9. TypeOK'
    BY <2>1, <2>2, <2>6, <2>8 DEF CheckpointInv, TypeOK
  <2>10. \A h, d : h # pending => (Whole(h, d)' <=> Whole(h, d))
    BY <2>3, <2>6 DEF Whole
  <2>11. ~WriteFailed' => \A d \in listed' : Whole(pending, d)'
    <3> SUFFICES ASSUME ~WriteFailed', NEW d \in listed' PROVE Whole(pending, d)'
      OBVIOUS
    <3>1. \A e \in listed : Whole(pending, e)
      BY <2>2, <2>7 DEF CheckpointInv, ListedIsWritten
    <3>2. CASE listed' = listed /\ files' = files
      BY <2>1, <3>1, <3>2 DEF Whole
    <3>3. CASE listed' = listed \cup {c} /\ files' = Written(c, live[c])
      <4>1. live[c] # Short
        BY <2>2 DEF Short
      <4>2. DOMAIN files' = DOMAIN files \cup {file} /\ files'[file] = live[c]
            /\ \A x \in DOMAIN files : x # file => files'[x] = files[x]
        BY <2>4, <3>3
      <4>3. CASE d = c
        BY <2>1, <2>3, <4>1, <4>2, <4>3 DEF Whole
      <4>4. CASE d # c
        <5>1. Whole(pending, d) /\ <<pending, d>> # file
          BY <2>3, <3>1, <3>3, <4>4
        <5> QED BY <2>1, <4>2, <5>1 DEF Whole
      <4> QED BY <4>3, <4>4
    <3> QED BY <2>7, <3>2, <3>3
  <2>12. ListedIsWritten'
    BY <2>1, <2>2, <2>7, <2>10, <2>11 DEF CheckpointInv, ListedIsWritten
  <2>13. MapMatchesDisk' /\ MetadataInDirectory' /\ PendingIsNew' /\ FinalizeProgress' /\ ListsAgree'
    BY <2>1 DEF CheckpointInv, MapMatchesDisk, MetadataInDirectory, PendingIsNew,
       FinalizeProgress, ListsAgree
  <2>14. VerdictsHold'
    <3>1. \A h \in DOMAIN checkpoints : h # pending
      BY <2>2
    <3>2. \A h \in DOMAIN checkpoints : \A d :
             /\ <<h, d>> \in DOMAIN files => <<h, d>> \in DOMAIN files'
             /\ Whole(h, d)' <=> Whole(h, d)
      BY <2>6, <2>10, <3>1
    <3> QED BY <2>1, <2>7, <3>2 DEF CheckpointInv, VerdictsHold, Whole
  <2> QED BY <2>9, <2>12, <2>13, <2>14 DEF CheckpointInv
<1>5. CASE WriteMetadata
  <2>1. /\ UNCHANGED <<checkpoints, lastCheckpoint, pending, maxCheckpoints, registered, listed,
                       dirs, files, live, todo, creating, halfRemoved>>
        /\ step = "collect"
    BY <1>5 DEF WriteMetadata
  <2>2. WriteFailed' <=> WriteFailed
    BY <1>5 DEF WriteMetadata, Fails, Succeeds, WriteFailed
  <2>3. /\ pending \in Height /\ pending \notin DOMAIN checkpoints /\ pending \in dirs
        /\ pending # 0 /\ DOMAIN meta \subseteq DOMAIN checkpoints
        /\ DOMAIN checkpoints \ halfRemoved \subseteq DOMAIN meta
    BY <2>1 DEF CheckpointInv, FinalizeProgress, TypeOK, PendingIsNew, MapMatchesDisk
  <2>4. \A h, c : Whole(h, c)' <=> Whole(h, c)
    BY <2>1 DEF Whole
  <2>5. VerdictsHold'
    BY <2>1, <2>2 DEF CheckpointInv, VerdictsHold
  <2>6. CASE step' = "none" /\ creator' = NoCaller /\ UNCHANGED meta
    <3>1. TypeOK'
      BY <2>1, <2>6 DEF CheckpointInv, TypeOK
    <3>2. ListedIsWritten'
      BY <2>1, <2>2, <2>4, <2>6 DEF CheckpointInv, ListedIsWritten
    <3> QED
      BY <2>1, <2>3, <2>5, <2>6, <3>1, <3>2 DEF CheckpointInv, MapMatchesDisk,
         MetadataInDirectory, PendingIsNew, FinalizeProgress, ListsAgree
  <2>7. CASE /\ step' = "publish" /\ creator' = creator
             /\ meta' = [h \in DOMAIN meta \cup {pending} |->
                            IF h = pending THEN listed ELSE meta[h]]
    <3>1. /\ DOMAIN meta' = DOMAIN meta \cup {pending} /\ meta'[pending] = listed
          /\ \A h \in DOMAIN meta : h # pending /\ meta'[h] = meta[h]
      BY <2>3, <2>7
    <3>2. TypeOK'
      BY <2>1, <2>3, <2>7, <3>1 DEF CheckpointInv, TypeOK
    <3>3. MetadataInDirectory' /\ PendingIsNew' /\ FinalizeProgress' /\ ListsAgree'
      BY <2>1, <2>3, <2>7, <3>1 DEF CheckpointInv, TypeOK, MetadataInDirectory, PendingIsNew,
         FinalizeProgress, ListsAgree
    <3>4. ListedIsWritten'
      BY <2>1, <2>2, <2>3, <2>4, <3>1 DEF CheckpointInv, ListedIsWritten
    <3>5. MapMatchesDisk'
      BY <2>1, <2>3, <2>7, <3>1 DEF MapMatchesDisk
    <3> QED BY <2>5, <3>2, <3>3, <3>4, <3>5 DEF CheckpointInv
  <2> QED BY <1>5, <2>6, <2>7 DEF WriteMetadata
<1> QED BY <1>1, <1>2, <1>3, <1>4, <1>5

(* The methods that touch neither the disk nor the pending checkpoint.      *)
LEMMA OtherKeeps ==
    ASSUME CheckpointInv,
           \/ \E h \in Height : VerifyCheckpoint(h) \/ RestoreFromCheckpoint(h)
           \/ \E c \in Optional : RegisterComponent(c) \/ UnregisterComponent(c)
           \/ Advance \/ UNCHANGED vars
    PROVE  CheckpointInv'
<1> USE DEF memVars, diskVars, callVars
<1>1. ASSUME NEW h \in Height, VerifyCheckpoint(h)
      PROVE  CheckpointInv'
  <2> DEFINE verdict == IF FilesPresent(h) THEN "Verified" ELSE "Corrupted"
  <2>1. /\ UNCHANGED <<lastCheckpoint, pending, maxCheckpoints, registered, listed, step, todo,
                       dirs, meta, files, live, creating, creator, faults, halfRemoved>>
        /\ step = "none" /\ h \in DOMAIN checkpoints
        /\ checkpoints' = [checkpoints EXCEPT ![h].status = verdict]
    BY <1>1 DEF VerifyCheckpoint
  <2>2. verdict \in Status
    BY DEF Status
  <2>3. verdict = "Verified" => \A c \in checkpoints[h].comps : <<h, c>> \in DOMAIN files
    BY DEF FilesPresent
  <2>4. verdict = "Corrupted" /\ h \notin halfRemoved => WriteFailed
    <3> SUFFICES ASSUME ~WriteFailed, h \notin halfRemoved PROVE FilesPresent(h)
      OBVIOUS
    <3>1. h \in DOMAIN meta
      BY <2>1 DEF CheckpointInv, MapMatchesDisk
    <3>2. checkpoints[h].comps = meta[h]
      BY <2>1, <3>1 DEF CheckpointInv, ListsAgree
    <3> QED BY <3>1, <3>2 DEF CheckpointInv, ListedIsWritten, Whole, FilesPresent
  <2> HIDE DEF verdict
  <2>5. /\ DOMAIN checkpoints' = DOMAIN checkpoints
        /\ \A g \in DOMAIN checkpoints : g # h => checkpoints'[g] = checkpoints[g]
        /\ checkpoints'[h] = [checkpoints[h] EXCEPT !.status = verdict]
    BY <2>1
  <2>6. checkpoints[h] \in [status : Status, comps : SUBSET Component]
    BY <2>1 DEF CheckpointInv, TypeOK
  <2>7. /\ checkpoints'[h] \in [status : Status, comps : SUBSET Component]
        /\ checkpoints'[h].status = verdict /\ checkpoints'[h].comps = checkpoints[h].comps
    BY <2>2, <2>5, <2>6
  <2>8. TypeOK'
    BY <2>1, <2>5, <2>7 DEF CheckpointInv, TypeOK
  <2>9. WriteFailed' <=> WriteFailed
    BY <2>1 DEF WriteFailed
  <2>10. VerdictsHold'
    BY <2>1, <2>3, <2>4, <2>5, <2>7, <2>9 DEF CheckpointInv, VerdictsHold
  <2>11. ListedIsWritten'
    <3>1. \A g, c : Whole(g, c)' <=> Whole(g, c)
      BY <2>1 DEF Whole
    <3> QED BY <2>1, <2>9, <3>1 DEF CheckpointInv, ListedIsWritten
  <2> QED
    BY <2>1, <2>5, <2>7, <2>8, <2>10, <2>11 DEF CheckpointInv, MapMatchesDisk,
       MetadataInDirectory, PendingIsNew, FinalizeProgress, ListsAgree
<1>3. ASSUME NEW h \in Height, RestoreFromCheckpoint(h)
      PROVE  CheckpointInv'
  <2>1. \A c \in Component : Restored(c, h) \in Nat
    BY DEF CheckpointInv, TypeOK, Restored
  <2>2. TypeOK'
    BY <1>3, <2>1 DEF RestoreFromCheckpoint, CheckpointInv, TypeOK
  <2> QED BY <1>3, <2>2, QuietKeeps DEF RestoreFromCheckpoint
<1>4. ASSUME NEW c \in Optional, RegisterComponent(c) \/ UnregisterComponent(c)
      PROVE  CheckpointInv'
  <2>1. TypeOK'
    BY <1>4, CheckpointAssumption
       DEF RegisterComponent, UnregisterComponent, CheckpointInv, TypeOK
  <2> QED BY <1>4, <2>1, QuietKeeps DEF RegisterComponent, UnregisterComponent
<1>5. CASE Advance
  <2>1. TypeOK'
    BY <1>5 DEF Advance, CheckpointInv, TypeOK
  <2> QED BY <1>5, <2>1, QuietKeeps DEF Advance
<1>6. CASE UNCHANGED vars
  <2>1. TypeOK'
    BY <1>6 DEF vars, CheckpointInv, TypeOK
  <2> QED BY <1>6, <2>1, QuietKeeps DEF vars
<1> QED BY <1>1, <1>3, <1>4, <1>5, <1>6

----------------------------------------------------------------------------
(* The theorems                                                             *)

(* The invariant holds in every reachable state: whatever faults, crashes   *)
(* and interleavings of the callers occur.                                  *)
THEOREM CheckpointInvariant == Spec => []CheckpointInv
<1>1. Init => CheckpointInv
  <2> SUFFICES ASSUME Init PROVE CheckpointInv
    OBVIOUS
  <2>1. TypeOK
    BY CheckpointAssumption DEF Init, Empty, TypeOK
  <2> QED
    BY <2>1 DEF Init, Empty, CheckpointInv, MapMatchesDisk, VerdictsHold, MetadataInDirectory,
       PendingIsNew, FinalizeProgress, ListsAgree, ListedIsWritten
<1>2. CheckpointInv /\ [Next]_vars => CheckpointInv'
  BY RestartKeeps, PublishKeeps, DeleteKeeps, SetMaxKeeps, FinalizeKeeps, OtherKeeps DEF Next
<1> QED BY <1>1, <1>2, PTL DEF Spec

(* A restart finds exactly the checkpoints the manager had in its map,      *)
(* but for those whose removal failed or was cut by a crash.                *)
THEOREM RestartFindsMap == Spec => []MapMatchesDisk
BY CheckpointInvariant, PTL DEF CheckpointInv

(* A verified checkpoint keeps its files, and until the write of a state    *)
(* fails every checkpoint no removal has left half-way is restorable and    *)
(* none is found corrupt.                                                   *)
THEOREM VerdictsReliable == Spec => []VerdictsHold
BY CheckpointInvariant, PTL DEF CheckpointInv

----------------------------------------------------------------------------
(* The refinement                                                           *)

Failed == faults \cap {"writeState"}

(* The abstract store has the heights with metadata.                        *)
LEMMA DiskHeights ==
    ASSUME CheckpointInv, CheckpointInv'
    PROVE  /\ DOMAIN Disk = DOMAIN meta /\ DOMAIN Disk' = DOMAIN meta'
           /\ \A h \in DOMAIN meta : Disk[h] = Contents(h)
           /\ \A h \in DOMAIN meta' : Disk'[h] = Contents(h)'
           /\ Disk = [h \in DOMAIN meta |-> Disk[h]]
           /\ Disk' = [h \in DOMAIN meta' |-> Disk'[h]]
<1>1. DOMAIN meta \cap dirs = DOMAIN meta /\ DOMAIN meta' \cap dirs' = DOMAIN meta'
  BY DEF CheckpointInv, MetadataInDirectory
<1>2. Disk = [h \in DOMAIN meta |-> Contents(h)]
  BY <1>1 DEF Disk
<1>3. Disk' = [h \in DOMAIN meta' |-> Contents(h)']
  BY <1>1 DEF Disk
<1> QED BY <1>2, <1>3

(* A checkpoint whose metadata and state files stay has the same contents.  *)
LEMMA ContentsStay ==
    ASSUME NEW h, meta'[h] = meta[h],
           \A c : <<h, c>> \in DOMAIN files' <=> <<h, c>> \in DOMAIN files,
           \A c : <<h, c>> \in DOMAIN files => files'[<<h, c>>] = files[<<h, c>>]
    PROVE  Contents(h)' = Contents(h)
<1> DEFINE Now(c) == IF <<h, c>> \in DOMAIN files THEN files[<<h, c>>] ELSE Lost
           Then(c) == IF <<h, c>> \in DOMAIN files' THEN files'[<<h, c>>] ELSE Lost
<1>1. \A c : Then(c) = Now(c)
  OBVIOUS
<1>2. Contents(h) = [c \in meta[h] |-> Now(c)] /\ Contents(h)' = [c \in meta'[h] |-> Then(c)]
  BY DEF Contents
<1> HIDE DEF Now, Then
<1> QED BY <1>1, <1>2

(* Steps that leave the metadata and the states it names alone.             *)
LEMMA DiskStays ==
    ASSUME CheckpointInv, CheckpointInv', DOMAIN meta' = DOMAIN meta,
           \A h \in DOMAIN meta : Contents(h)' = Contents(h)
    PROVE  Disk' = Disk
BY DiskHeights

(* A state file of a height without metadata changes no checkpoint.         *)
LEMMA WrittenElsewhere ==
    ASSUME CheckpointInv, CheckpointInv', UNCHANGED meta, pending \notin DOMAIN meta,
           NEW c, NEW v, files' \in {files, Written(c, v)}
    PROVE  Disk' = Disk
<1>1. ASSUME NEW h \in DOMAIN meta
      PROVE  \A d : /\ <<h, d>> \in DOMAIN files' <=> <<h, d>> \in DOMAIN files
                    /\ <<h, d>> \in DOMAIN files => files'[<<h, d>>] = files[<<h, d>>]
  <2>1. \A d : <<h, d>> # <<pending, c>>
    OBVIOUS
  <2> QED BY <2>1 DEF Written
<1>2. \A h \in DOMAIN meta : Contents(h)' = Contents(h)
  BY <1>1, ContentsStay
<1> QED BY <1>2, DiskStays

(* A removal takes away or damages what it was given, and nothing else.     *)
LEMMA RemovalRemoves ==
    ASSUME CheckpointInv, CheckpointInv', NEW hs, RemovalLeaves(hs),
           hs \ halfRemoved \subseteq DOMAIN meta
    PROVE  Store!Remove(hs)
<1>1. /\ DOMAIN Disk' \subseteq DOMAIN Disk /\ DOMAIN Disk \ hs \subseteq DOMAIN Disk'
  BY DiskHeights DEF RemovalLeaves
<1>2. ASSUME NEW h \in DOMAIN Disk \ hs PROVE Disk'[h] = Disk[h]
  <2>1. h \in DOMAIN meta' /\ h \in DOMAIN meta /\ h \notin hs
    BY <1>1, DiskHeights
  <2>2. /\ meta'[h] = meta[h]
        /\ \A c : <<h, c>> \in DOMAIN files' <=> <<h, c>> \in DOMAIN files
        /\ \A c : <<h, c>> \in DOMAIN files => files'[<<h, c>>] = files[<<h, c>>]
    BY <2>1 DEF RemovalLeaves
  <2>3. Contents(h)' = Contents(h)
    BY <2>2, ContentsStay
  <2> QED BY <2>1, <2>3, DiskHeights
<1>3. ASSUME NEW h \in DOMAIN Disk' \cap hs
      PROVE  /\ DOMAIN Disk'[h] = DOMAIN Disk[h]
             /\ \A c \in DOMAIN Disk[h] : Disk'[h][c] = Disk[h][c] \/ Disk'[h][c] \in {Short, Lost}
  <2>1. h \in DOMAIN meta' /\ h \in DOMAIN meta
    BY <1>1, DiskHeights
  <2>2. Disk'[h] = Contents(h)' /\ Disk[h] = Contents(h)
    BY <2>1, DiskHeights
  <2>3. meta'[h] = meta[h]
    BY <2>1 DEF RemovalLeaves
  <2>4. \A c : <<h, c>> \in DOMAIN files' => /\ <<h, c>> \in DOMAIN files
                                            /\ files'[<<h, c>>] = files[<<h, c>>]
    BY DEF RemovalLeaves
  <2> DEFINE Now(c) == IF <<h, c>> \in DOMAIN files THEN files[<<h, c>>] ELSE Lost
             Then(c) == IF <<h, c>> \in DOMAIN files' THEN files'[<<h, c>>] ELSE Lost
  <2>5. \A c : Then(c) = Now(c) \/ Then(c) = Lost
    BY <2>4
  <2>6. Contents(h) = [c \in meta[h] |-> Now(c)] /\ Contents(h)' = [c \in meta[h] |-> Then(c)]
    BY <2>3 DEF Contents
  <2> HIDE DEF Now, Then
  <2> QED BY <2>2, <2>5, <2>6
<1>4. DOMAIN Disk' \cap hs \subseteq halfRemoved'
  BY DiskHeights DEF RemovalLeaves
<1>5. halfRemoved \ hs \subseteq halfRemoved'
      /\ halfRemoved' \subseteq halfRemoved \cup (hs \cap DOMAIN Disk)
  BY DiskHeights DEF RemovalLeaves
<1>6. (faults \cap {"writeState"})' = faults \cap {"writeState"}
  BY DEF RemovalLeaves
<1> QED BY <1>1, <1>2, <1>3, <1>4, <1>5, <1>6 DEF Store!Remove, Store!Keeps

(* A removal from the lower end of the map takes the lowest checkpoints,    *)
(* and all only when the map has one that was left half-removed.            *)
LEMMA LowRemovalTrims ==
    ASSUME CheckpointInv, CheckpointInv', NEW map \in SUBSET Height, NEW max \in Nat \ {0},
           NEW hs \in SUBSET Surplus(map, max), RemovalLeaves(hs),
           \A g \in hs, h \in Surplus(map, max) \ hs : g < h,
           DOMAIN meta \subseteq map, map \ halfRemoved \subseteq DOMAIN meta
    PROVE  Store!Next \/ (Disk' = Disk /\ halfRemoved' = halfRemoved /\ Failed' = Failed)
<1> DEFINE old == Surplus(map, max)
<1>1. map \in SUBSET Nat /\ IsFiniteSet(map)
  BY CheckpointAssumption, FS_Subset
<1>2. /\ old \subseteq map /\ \A g \in old, h \in map \ old : g < h
      /\ map # {} => map \ old # {}
  BY <1>1, SurplusIsLow
<1>3. /\ hs \subseteq old /\ \A g \in hs, h \in old \ hs : g < h
  OBVIOUS
<1> HIDE DEF old
<1>4. DOMAIN Disk = DOMAIN meta
  BY DiskHeights
<1>5. Store!Remove(hs)
  BY <1>2, <1>3, RemovalRemoves
<1>6. CASE map # {}
  <2>1. PICK m \in map : m \notin old
    BY <1>2, <1>6
  <2>2. DOMAIN Disk \subseteq hs => halfRemoved # {}
    BY <1>3, <1>4, <2>1
  <2>3. \A g \in hs \cap DOMAIN Disk, h \in DOMAIN Disk \ hs : g < h
    BY <1>2, <1>3, <1>4
  <2>4. Store!Trim(hs)
    BY <1>5, <2>2, <2>3 DEF Store!Trim
  <2>5. hs \in SUBSET Height
    BY <1>2, <1>3
  <2> QED BY <2>4, <2>5 DEF Store!Next
<1>7. CASE map = {}
  <2>1. hs = {} /\ DOMAIN meta = {}
    BY <1>2, <1>3, <1>7
  <2>2. DOMAIN meta' = {} /\ halfRemoved' = halfRemoved /\ Failed' = Failed
    BY <2>1 DEF RemovalLeaves, Failed
  <2> QED BY <2>1, <2>2, DiskHeights
<1> QED BY <1>6, <1>7

(* The files on disk implement the durable store: no crash, fault or        *)
(* interleaving changes a checkpoint on disk other than one being removed,  *)
(* makes a part of one visible before the write of a state has failed, or   *)
(* lets clean-up take another than the lowest.                              *)
THEOREM FilesImplementStore == Spec => ImplementsStore
<1>1. Init => Store!Init
  BY DEF Init, Empty, Disk, Store!Init
<1>2. CheckpointInv /\ CheckpointInv' /\ [Next]_vars => [Store!Next]_(Store!storeVars)
  <2> SUFFICES ASSUME CheckpointInv, CheckpointInv', [Next]_vars
               PROVE  Store!Next \/ UNCHANGED Store!storeVars
    OBVIOUS
  <2> USE DEF memVars, diskVars, callVars
  <2>1. ASSUME Disk' = Disk, halfRemoved' = halfRemoved, Failed' = Failed
        PROVE  UNCHANGED Store!storeVars
    BY <2>1 DEF Store!storeVars, Failed
  <2>2. ASSUME UNCHANGED <<meta, files>> PROVE Disk' = Disk
    BY <2>2, ContentsStay, DiskStays
  <2>3. ASSUME UNCHANGED <<meta, files, halfRemoved, faults>>
        PROVE  UNCHANGED Store!storeVars
    BY <2>1, <2>2, <2>3 DEF Failed
  <2>4. ASSUME NEW a \in Caller, NEW h \in Height, AdapterCreate(a, h)
        PROVE  UNCHANGED Store!storeVars
    BY <2>3, <2>4 DEF AdapterCreate
  <2>5. ASSUME NEW a \in Caller, CreateCheckpoint(a)
        PROVE  Store!Next \/ UNCHANGED Store!storeVars
    <3>1. UNCHANGED <<meta, files, faults>> /\ creating[a] \in Height /\ step = "none"
      BY <2>5 DEF CreateCheckpoint, CheckpointInv, TypeOK
    <3>2. Disk' = Disk
      BY <2>2, <3>1
    <3>3. CASE UNCHANGED halfRemoved
      BY <2>3, <3>1, <3>3
    <3>4. CASE /\ creating[a] \notin DOMAIN checkpoints
               /\ halfRemoved' = halfRemoved \ {creating[a]}
      <4>1. creating[a] \notin DOMAIN Disk
        BY <3>1, <3>4, DiskHeights DEF CheckpointInv, MapMatchesDisk
      <4> DEFINE h == creating[a]
      <4>2. h \in Height /\ h \notin DOMAIN Disk /\ halfRemoved' = halfRemoved \ {h}
        BY <3>1, <3>4, <4>1
      <4> HIDE DEF h
      <4>3. (faults \cap {"writeState"})' = faults \cap {"writeState"}
        BY <3>1
      <4>4. Store!Remove({h})
        BY <3>2, <4>2, <4>3 DEF Store!Remove, Store!Keeps
      <4> QED BY <4>2, <4>4 DEF Store!Next, Store!Delete
    <3> QED BY <2>5, <3>3, <3>4 DEF CreateCheckpoint
  <2>6. ASSUME NEW h \in Height, VerifyCheckpoint(h) \/ RestoreFromCheckpoint(h)
        PROVE  UNCHANGED Store!storeVars
    BY <2>3, <2>6 DEF VerifyCheckpoint, RestoreFromCheckpoint
  <2>7. ASSUME NEW h \in Height, DeleteCheckpoint(h)
        PROVE  Store!Next
    <3>1. RemoveDirs({h}) /\ step = "none" /\ h \in DOMAIN checkpoints
      BY <2>7 DEF DeleteCheckpoint
    <3>2. RemovalLeaves({h})
      BY <3>1, RemoveDirsLeaves DEF CheckpointInv, MetadataInDirectory
    <3>3. {h} \ halfRemoved \subseteq DOMAIN meta
      BY <3>1 DEF CheckpointInv, MapMatchesDisk
    <3>4. Store!Remove({h})
      BY <3>2, <3>3, RemovalRemoves
    <3> QED BY <3>4 DEF Store!Delete, Store!Next
  <2>8. CASE FinalizeCheckpoint
    BY <2>3, <2>8 DEF FinalizeCheckpoint
  <2>9. CASE WriteMetadata
    <3>1. /\ step = "collect" /\ UNCHANGED <<files, halfRemoved>> /\ pending # 0
          /\ pending \in Height /\ pending \notin DOMAIN meta
      BY <2>9 DEF WriteMetadata, CheckpointInv, FinalizeProgress, TypeOK, PendingIsNew,
         MapMatchesDisk
    <3>2. Failed' = Failed
      BY <2>9 DEF WriteMetadata, Fails, Succeeds, Failed
    <3>3. CASE UNCHANGED meta
      BY <2>1, <2>2, <3>1, <3>2, <3>3
    <3>4. CASE meta' = [h \in DOMAIN meta \cup {pending} |->
                           IF h = pending THEN listed ELSE meta[h]]
      <4>1. /\ DOMAIN meta' = DOMAIN meta \cup {pending} /\ meta'[pending] = listed
            /\ \A h \in DOMAIN meta : meta'[h] = meta[h]
        BY <3>1, <3>4
      <4>2. \A h \in DOMAIN meta : Contents(h)' = Contents(h)
        BY <3>1, <4>1, ContentsStay
      <4>3. /\ pending \notin DOMAIN Disk /\ DOMAIN Disk' = DOMAIN Disk \cup {pending}
            /\ \A h \in DOMAIN Disk : Disk'[h] = Disk[h]
        BY <3>1, <4>1, <4>2, DiskHeights
      <4>4. ASSUME Failed = {}
            PROVE  \A c \in DOMAIN Disk'[pending] : Disk'[pending][c] \notin {Short, Lost}
        <5>1. ~WriteFailed /\ pending' = pending
          BY <2>9, <4>4 DEF Failed, WriteFailed, WriteMetadata
        <5>2. \A c \in listed : Whole(pending, c)
          BY <3>1, <5>1 DEF CheckpointInv, ListedIsWritten
        <5>3. Disk'[pending] = [c \in listed |-> IF <<pending, c>> \in DOMAIN files
                                                  THEN files[<<pending, c>>] ELSE Lost]
          <6>1. Disk'[pending] = Contents(pending)'
            BY <4>1, <5>1, DiskHeights
          <6>2. Contents(pending)' = [c \in meta'[pending'] |->
                  IF <<pending', c>> \in DOMAIN files' THEN files'[<<pending', c>>] ELSE Lost]
            BY DEF Contents
          <6> QED BY <3>1, <4>1, <5>1, <6>1, <6>2
        <5>4. \A c \in listed : <<pending, c>> \in DOMAIN files
                 /\ files[<<pending, c>>] # Short /\ files[<<pending, c>>] # Lost
          BY <5>2 DEF Whole, CheckpointInv, TypeOK, Lost, Short
        <5> QED BY <5>3, <5>4
      <4>5. Store!Save(pending)
        BY <3>1, <3>2, <4>3, <4>4 DEF Store!Save, Store!Keeps, Failed
      <4> QED BY <3>1, <4>5 DEF Store!Next
    <3> QED BY <2>9, <3>3, <3>4 DEF WriteMetadata
  <2>10. CASE Publish
    <3> DEFINE map == DOMAIN checkpoints \cup {pending}
               old == Surplus(map, maxCheckpoints)
    <3>1. RemoveDirs(old) /\ step = "publish"
      <4>1. DOMAIN [h \in map |-> IF h = pending THEN [status |-> "Complete", comps |-> listed]
                                  ELSE checkpoints[h]] = map
        OBVIOUS
      <4> QED BY <2>10, <4>1 DEF Publish
    <3>2. map \in SUBSET Height /\ maxCheckpoints \in Nat \ {0}
      BY <3>1 DEF CheckpointInv, TypeOK, FinalizeProgress
    <3>3. DOMAIN meta \subseteq map /\ map \ halfRemoved \subseteq DOMAIN meta
      BY <3>1 DEF CheckpointInv, MapMatchesDisk, FinalizeProgress
    <3>4. RemovalLeaves(old)
      BY <3>1, RemoveDirsLeaves DEF CheckpointInv, MetadataInDirectory
    <3>5. old \in SUBSET Surplus(map, maxCheckpoints)
          /\ \A g \in old, h \in Surplus(map, maxCheckpoints) \ old : g < h
      OBVIOUS
    <3> HIDE DEF map, old
    <3> QED BY <2>1, <3>2, <3>3, <3>4, <3>5, LowRemovalTrims
  <2>11. ASSUME NEW c \in Component, CollectState(c)
         PROVE  Store!Next \/ UNCHANGED Store!storeVars
    <3>1. /\ step = "collect" /\ UNCHANGED <<meta, halfRemoved>>
          /\ pending \notin DOMAIN meta
      BY <2>11 DEF CollectState, CheckpointInv, FinalizeProgress, PendingIsNew, MapMatchesDisk
    <3>2. \E v : files' \in {files, Written(c, v)}
      BY <2>11 DEF CollectState
    <3>3. Disk' = Disk
      BY <2>2, <3>1, <3>2, WrittenElsewhere
    <3>4. CASE Failed' = Failed
      BY <2>1, <3>1, <3>3, <3>4
    <3>5. CASE Failed' # Failed
      <4>1. Failed' # {}
        BY <2>11, <3>5 DEF CollectState, Fails, Succeeds, Failed
      <4>2. Store!Fail
        BY <3>1, <3>3, <4>1 DEF Store!Fail, Failed
      <4> QED BY <4>2 DEF Store!Next
    <3> QED BY <3>4, <3>5
  <2>12. ASSUME NEW c \in Optional, RegisterComponent(c) \/ UnregisterComponent(c)
         PROVE  UNCHANGED Store!storeVars
    BY <2>3, <2>12 DEF RegisterComponent, UnregisterComponent
  <2>13. ASSUME NEW max \in MaxSettings, SetMaxCheckpoints(max)
         PROVE  Store!Next \/ UNCHANGED Store!storeVars
    <3> DEFINE old == Surplus(DOMAIN checkpoints, max)
    <3>1. RemoveDirs(old) /\ step = "none"
      BY <2>13 DEF SetMaxCheckpoints
    <3>2. /\ DOMAIN checkpoints \in SUBSET Height /\ max \in Nat \ {0}
          /\ DOMAIN meta \subseteq DOMAIN checkpoints
          /\ DOMAIN checkpoints \ halfRemoved \subseteq DOMAIN meta
      BY <3>1, CheckpointAssumption DEF CheckpointInv, TypeOK, MapMatchesDisk
    <3>3. RemovalLeaves(old)
      BY <3>1, RemoveDirsLeaves DEF CheckpointInv, MetadataInDirectory
    <3>4. old \in SUBSET Surplus(DOMAIN checkpoints, max)
          /\ \A g \in old, h \in Surplus(DOMAIN checkpoints, max) \ old : g < h
      OBVIOUS
    <3> HIDE DEF old
    <3> QED BY <2>1, <3>2, <3>3, <3>4, LowRemovalTrims
  <2>14. CASE Advance
    BY <2>3, <2>14 DEF Advance
  <2>15. CASE CrashAndRestart
    <3>1. CASE Succeeds /\ UNCHANGED diskVars
      BY <2>3, <3>1 DEF Succeeds
    <3>2. ASSUME step = "collect", Succeeds, NEW c \in todo, files' = Written(c, Short),
                 UNCHANGED <<dirs, meta, halfRemoved>>
          PROVE  UNCHANGED Store!storeVars
      <4>1. pending \notin DOMAIN meta
        BY <3>2 DEF CheckpointInv, FinalizeProgress, PendingIsNew, MapMatchesDisk
      <4>2. Disk' = Disk
        BY <3>2, <4>1, WrittenElsewhere
      <4> QED BY <2>1, <3>2, <4>2 DEF Succeeds, Failed
    <3>3. ASSUME NEW map \in SUBSET Height, NEW max \in Nat \ {0},
                 RemovalCut(Surplus(map, max)),
                 DOMAIN meta \subseteq map, map \ halfRemoved \subseteq DOMAIN meta
          PROVE  Store!Next \/ UNCHANGED Store!storeVars
      <4> DEFINE old == Surplus(map, max)
      <4>1. old \in SUBSET Nat
        BY CheckpointAssumption DEF Surplus
      <4>2. PICK k \in old : RemovalLeaves(UpTo(old, k))
        BY <3>3, RemovalCutLeaves DEF CheckpointInv, MetadataInDirectory
      <4> HIDE DEF old
      <4>3. UpTo(old, k) \in SUBSET old /\ \A g \in UpTo(old, k), h \in old \ UpTo(old, k) : g < h
        <5>1. \A g \in UpTo(old, k) : g \in old /\ (g < k \/ g = k)
          BY DEF UpTo
        <5>2. \A h \in old \ UpTo(old, k) : ~(h < k) /\ h # k
          BY DEF UpTo
        <5>3. \A g \in UpTo(old, k), h \in old \ UpTo(old, k) : g \in Nat /\ h \in Nat /\ k \in Nat
          BY <4>1, <5>1
        <5>4. \A g \in UpTo(old, k), h \in old \ UpTo(old, k) : g < h
          BY <5>1, <5>2, <5>3
        <5> QED BY <5>1, <5>4
      <4> DEFINE hs == UpTo(old, k)
      <4>4. /\ hs \in SUBSET Surplus(map, max) /\ RemovalLeaves(hs)
            /\ \A g \in hs, h \in Surplus(map, max) \ hs : g < h
        BY <4>2, <4>3 DEF old
      <4> HIDE DEF hs
      <4> QED BY <2>1, <3>3, <4>4, LowRemovalTrims
    <3>4. ASSUME NEW h \in DOMAIN checkpoints, RemovalCut({h}), step = "none"
          PROVE  Store!Next
      <4>1. UpTo({h}, h) = {h} /\ h \in Height
        BY DEF UpTo, CheckpointInv, TypeOK
      <4>2. RemovalLeaves({h})
        <5>1. PICK k \in {h} : RemovalLeaves(UpTo({h}, k))
          BY <3>4, RemovalCutLeaves DEF CheckpointInv, MetadataInDirectory
        <5> QED BY <4>1, <5>1
      <4>3. {h} \ halfRemoved \subseteq DOMAIN meta
        BY <3>4 DEF CheckpointInv, MapMatchesDisk
      <4>4. Store!Remove({h})
        BY <4>2, <4>3, RemovalRemoves
      <4> QED BY <4>1, <4>4 DEF Store!Delete, Store!Next
    <3>5. ASSUME NEW hs \in Removals, RemovalCut(hs)
          PROVE  Store!Next \/ UNCHANGED Store!storeVars
      <4>1. CASE step = "publish"
        <5> DEFINE map == DOMAIN checkpoints \cup {pending}
        <5>1. hs = Surplus(map, maxCheckpoints)
          BY <3>5, <4>1 DEF Removals
        <5>2. map \in SUBSET Height /\ maxCheckpoints \in Nat \ {0}
          BY <4>1 DEF CheckpointInv, TypeOK, FinalizeProgress
        <5>3. DOMAIN meta \subseteq map /\ map \ halfRemoved \subseteq DOMAIN meta
          BY <4>1 DEF CheckpointInv, MapMatchesDisk, FinalizeProgress
        <5> HIDE DEF map
        <5> QED BY <3>3, <3>5, <5>1, <5>2, <5>3
      <4>2. CASE step = "none"
        <5>1. hs \in {{h} : h \in DOMAIN checkpoints}
                       \cup {Surplus(DOMAIN checkpoints, max) : max \in MaxSettings}
          BY <3>5, <4>2 DEF Removals
        <5>2. CASE hs \in {{h} : h \in DOMAIN checkpoints}
          BY <3>4, <3>5, <4>2, <5>2
        <5>3. CASE hs \in {Surplus(DOMAIN checkpoints, max) : max \in MaxSettings}
          <6>1. PICK max \in MaxSettings : hs = Surplus(DOMAIN checkpoints, max)
            BY <5>3
          <6>2. /\ DOMAIN checkpoints \in SUBSET Height /\ max \in Nat \ {0}
                /\ DOMAIN meta \subseteq DOMAIN checkpoints
                /\ DOMAIN checkpoints \ halfRemoved \subseteq DOMAIN meta
            BY <4>2, CheckpointAssumption DEF CheckpointInv, TypeOK, MapMatchesDisk
          <6> QED BY <3>3, <3>5, <6>1, <6>2
        <5> QED BY <5>1, <5>2, <5>3
      <4>3. CASE step # "publish" /\ step # "none"
        BY <3>5, <4>3 DEF Removals
      <4> QED BY <4>1, <4>2, <4>3
    <3> QED BY <2>15, <3>1, <3>2, <3>5 DEF CrashAndRestart, DiskAtCrash
  <2>16. CASE UNCHANGED vars
    BY <2>3, <2>16 DEF vars
  <2> QED
    BY <2>4, <2>5, <2>6, <2>7, <2>8, <2>9, <2>10, <2>11, <2>12, <2>13, <2>14, <2>15, <2>16 DEF Next
<1> QED BY <1>1, <1>2, CheckpointInvariant, PTL DEF Spec, ImplementsStore, Store!Spec
=============================================================================
