----------------------------- MODULE PublishProofs -----------------------------
(***************************************************************************)
(* Publishing into the corpus (module Publish) is safe and implements a    *)
(* write-once store, for any processes, hashes, pids and power losses.     *)
(***************************************************************************)
EXTENDS Publish, TLAPS

-----------------------------------------------------------------------------
(* The inductive invariant.                                                *)

ImageDone == {"manifest", "sync_manifest", "sync_stage", "seal", "rename", "discard"}
ManifestDone == {"sync_stage", "seal", "rename", "discard"}
EntriesDone == {"seal", "rename", "discard"}

(* What the stage d of a process p holds when p has come to `at'.          *)
Shape(at, p, d) ==
  /\ at \in Filling => d.exists /\ d.producer = p /\ ~d.nameSynced
  /\ at \in ImageDone => d.image = "synced"
  /\ at \in ManifestDone => d.manifest = "synced"
  /\ at \in EntriesDone => d.entriesSynced

StagesAreShaped == \A p \in Process : Shape(pc[p], p, Stage(p))

PidsTellApart == \A p, q \in Process : Live(p) /\ Live(q) /\ pid[p] = pid[q] => p = q

AbsentIsEmpty == \A h \in Hash : ~final[h].exists => final[h] = NoDirectory

(* A process that renamed its stage finds the entry there.                 *)
RenamedExists == \A p \in Process : pc[p] = "sync_samples" => final[hash[p]].exists

Inv ==
  /\ TypeOK
  /\ StagesAreShaped
  /\ PidsTellApart
  /\ AbsentIsEmpty
  /\ RenamedExists
  /\ FinalIsWhole
  /\ PublishedIsDurable
  /\ ExistingIsThere
  /\ NobodyIsDenied

LEMMA NoDirectoryType == NoDirectory \in Directory
  BY DEF NoDirectory, Directory, Content

LEMMA InvInit == Init => Inv
<1> SUFFICES ASSUME Init
             PROVE  Inv
  OBVIOUS
<1>1. \A p \in Process : pc[p] = "idle"
  BY DEF Init
<1>2. \A h \in Hash : final[h] = NoDirectory
  BY DEF Init
<1>3. 0 \in 0..MaxPowerLosses
  BY PublishAssumption DEF PublishAssumption
<1>4. TypeOK
  BY <1>3, NoDirectoryType DEF Init, TypeOK, Control
<1>5. ~NoDirectory.exists
  BY DEF NoDirectory
<1> QED
  BY <1>1, <1>2, <1>4, <1>5
     DEF Inv, StagesAreShaped, Shape, Filling, ImageDone, ManifestDone, EntriesDone,
         PidsTellApart, Live, AbsentIsEmpty, RenamedExists, FinalIsWhole,
         PublishedIsDurable, ExistingIsThere, NobodyIsDenied

(* A process that is alone with its pid moves on and may change its stage. *)
LEMMA MoveKeeps ==
  ASSUME Inv, NEW p \in Process, NEW to \in Control, pc' = [pc EXCEPT ![p] = to],
         UNCHANGED <<setup, final, losses>>,
         \A q \in Process : q # p /\ Live(q) => pid[q] # pid[p],
         NEW d \in Directory, SetStage(p, d) \/ (UNCHANGED stage /\ d = Stage(p)),
         Shape(to, p, d),
         to \notin {"sync_samples", "published"},
         to = "existing" => final[hash[p]].exists,
         privileged => to # "denied"
  PROVE  Inv'
<1>1. pc'[p] = to /\ \A q \in Process : q # p => pc'[q] = pc[q]
  BY DEF Inv, TypeOK
<1>2. StagePath(p) \in Pid \X Hash
  BY DEF Inv, TypeOK, StagePath
<1>3. /\ stage' \in [Pid \X Hash -> Directory]
      /\ stage'[StagePath(p)] = d
      /\ \A k \in Pid \X Hash : k # StagePath(p) => stage'[k] = stage[k]
  BY <1>2 DEF Inv, TypeOK, SetStage, Stage
<1>4. TypeOK'
  BY <1>3 DEF Inv, TypeOK, setup
<1>5. StagesAreShaped'
  <2> SUFFICES ASSUME NEW q \in Process
               PROVE  Shape(pc'[q], q, stage'[StagePath(q)])
    BY DEF StagesAreShaped, Stage, StagePath, setup, Shape
  <2>1. CASE q = p
    BY <1>1, <1>3, <2>1
  <2>2. CASE q # p /\ pc[q] \notin Filling
    BY <1>1, <2>2 DEF Shape, Filling, ImageDone, ManifestDone, EntriesDone
  <2>3. CASE q # p /\ pc[q] \in Filling
    <3>1. Live(q)
      BY <2>3 DEF Live, Filling, Ended
    <3>2. StagePath(q) # StagePath(p) /\ StagePath(q) \in Pid \X Hash
      BY <2>3, <3>1 DEF StagePath, Inv, TypeOK
    <3>3. stage'[StagePath(q)] = Stage(q)
      BY <1>3, <3>2 DEF Stage
    <3> QED
      BY <1>1, <2>3, <3>3 DEF Inv, StagesAreShaped
  <2> QED
    BY <2>1, <2>2, <2>3
<1>6. PidsTellApart'
  BY <1>1 DEF Inv, PidsTellApart, Live, setup
<1>7. AbsentIsEmpty' /\ FinalIsWhole'
  BY DEF Inv, AbsentIsEmpty, FinalIsWhole, setup
<1>8. RenamedExists' /\ PublishedIsDurable' /\ ExistingIsThere' /\ NobodyIsDenied'
  BY <1>1 DEF Inv, RenamedExists, PublishedIsDurable, ExistingIsThere, NobodyIsDenied, setup
<1> QED
  BY <1>4, <1>5, <1>6, <1>7, <1>8 DEF Inv

LEMMA StartKeeps ==
  ASSUME Inv, NEW p \in Process, Start(p)
  PROVE  Inv'
<1>1. Stage(p) \in Directory
  BY DEF Inv, TypeOK, Stage, StagePath
<1>2. Shape("lookup", p, Stage(p))
  BY DEF Shape, Filling, ImageDone, ManifestDone, EntriesDone
<1> QED
  BY <1>1, <1>2, MoveKeeps DEF Start, Goto, Control

(* A live process moves on and leaves all directories as they are.         *)
LEMMA StayKeeps ==
  ASSUME Inv, NEW p \in Process,
         Lookup(p) \/ CleanDenied(p) \/ LoseRace(p) \/ DiscardDenied(p) \/ Verify(p) \/ Kill(p)
  PROVE  Inv'
<1> USE DEF Lookup, CleanDenied, LoseRace, DiscardDenied, Verify, Kill, Goto
<1>1. Stage(p) \in Directory
  BY DEF Inv, TypeOK, Stage, StagePath
<1>2. Live(p) /\ UNCHANGED <<setup, stage, final, losses>>
  BY DEF Live, Ended
<1>3. \A q \in Process : q # p /\ Live(q) => pid[q] # pid[p]
  BY <1>2 DEF Inv, PidsTellApart
<1>4. PICK to \in {"verify", "clean", "denied", "discard", "existing", "dead"} :
        /\ pc' = [pc EXCEPT ![p] = to]
        /\ to = "discard" => pc[p] = "rename"
        /\ to = "existing" => final[hash[p]].image # "absent"
        /\ privileged => to # "denied"
  BY DEF CanRemove
<1>5. Shape(to, p, Stage(p))
  BY <1>4 DEF Inv, StagesAreShaped, Shape, Filling, ImageDone, ManifestDone, EntriesDone
<1>6. to = "existing" => final[hash[p]].exists
  BY <1>4 DEF Inv, TypeOK, AbsentIsEmpty, NoDirectory
<1> QED
  BY <1>1, <1>2, <1>3, <1>4, <1>5, <1>6, MoveKeeps DEF Control

(* A live process makes, fills, empties or removes its stage.              *)
LEMMA StageStepKeeps ==
  ASSUME Inv, NEW p \in Process, NEW from, NEW to \in Control, Live(p), Goto(p, from, to),
         UNCHANGED <<setup, final, losses>>,
         NEW d \in Directory, SetStage(p, d), Shape(to, p, d),
         to \notin {"sync_samples", "published", "existing", "denied"}
  PROVE  Inv'
<1>1. \A q \in Process : q # p /\ Live(q) => pid[q] # pid[p]
  BY DEF Inv, PidsTellApart
<1> QED
  BY <1>1, MoveKeeps DEF Goto

LEMMA FillKeeps ==
  ASSUME Inv, NEW p \in Process,
         Clean(p) \/ MakeStage(p) \/ WriteImage(p) \/ SyncImage(p) \/ WriteManifest(p)
           \/ SyncManifest(p) \/ SyncStage(p) \/ Seal(p) \/ RenameFails(p) \/ Discard(p)
  PROVE  Inv'
<1> USE DEF Shape, Filling, ImageDone, ManifestDone, EntriesDone, Control
<1>1. Stage(p) \in Directory
  BY DEF Inv, TypeOK, Stage, StagePath
<1>2. Shape(pc[p], p, Stage(p))
  BY DEF Inv, StagesAreShaped
<1>3. Live(p)
  BY DEF Live, Ended, Goto, Clean, MakeStage, WriteImage, SyncImage, WriteManifest,
         SyncManifest, SyncStage, Seal, RenameFails, Discard
<1>4. CASE Clean(p)
  BY <1>3, <1>4, NoDirectoryType, StageStepKeeps DEF Clean
<1>5. CASE MakeStage(p)
  <2> DEFINE d == [NoDirectory EXCEPT !.exists = TRUE, !.producer = p]
  <2>1. d \in Directory /\ d.exists /\ d.producer = p /\ ~d.nameSynced
    BY DEF NoDirectory, Directory, Content
  <2> QED
    BY <1>3, <1>5, <2>1, StageStepKeeps DEF MakeStage
<1>6. CASE WriteImage(p)
  <2> DEFINE d == [Stage(p) EXCEPT !.image = "written"]
  <2>1. d \in Directory /\ Shape("sync_image", p, d)
    BY <1>1, <1>2, <1>6 DEF WriteImage, Goto, Directory, Content
  <2> QED
    BY <1>3, <1>6, <2>1, StageStepKeeps DEF WriteImage
<1>7. CASE SyncImage(p)
  <2> DEFINE d == [Stage(p) EXCEPT !.image = "synced"]
  <2>1. d \in Directory /\ Shape("manifest", p, d)
    BY <1>1, <1>2, <1>7 DEF SyncImage, Goto, Directory, Content
  <2> QED
    BY <1>3, <1>7, <2>1, StageStepKeeps DEF SyncImage
<1>8. CASE WriteManifest(p)
  <2> DEFINE d == [Stage(p) EXCEPT !.manifest = "written"]
  <2>1. d \in Directory /\ Shape("sync_manifest", p, d)
    BY <1>1, <1>2, <1>8 DEF WriteManifest, Goto, Directory, Content
  <2> QED
    BY <1>3, <1>8, <2>1, StageStepKeeps DEF WriteManifest
<1>9. CASE SyncManifest(p)
  <2> DEFINE d == [Stage(p) EXCEPT !.manifest = "synced"]
  <2>1. d \in Directory /\ Shape("sync_stage", p, d)
    BY <1>1, <1>2, <1>9 DEF SyncManifest, Goto, Directory, Content
  <2> QED
    BY <1>3, <1>9, <2>1, StageStepKeeps DEF SyncManifest
<1>10. CASE SyncStage(p)
  <2> DEFINE d == [Stage(p) EXCEPT !.entriesSynced = TRUE]
  <2>1. d \in Directory /\ Shape("seal", p, d)
    BY <1>1, <1>2, <1>10 DEF SyncStage, Goto, Directory, Content
  <2> QED
    BY <1>3, <1>10, <2>1, StageStepKeeps DEF SyncStage
<1>11. CASE Seal(p)
  <2> DEFINE d == [Stage(p) EXCEPT !.sealed = TRUE]
  <2>1. d \in Directory /\ Shape("rename", p, d)
    BY <1>1, <1>2, <1>11 DEF Seal, Goto, Directory, Content
  <2> QED
    BY <1>3, <1>11, <2>1, StageStepKeeps DEF Seal
<1>12. CASE RenameFails(p)
  BY <1>1, <1>3, <1>12, NoDirectoryType, StageStepKeeps DEF RenameFails
<1>13. CASE Discard(p)
  BY <1>3, <1>13, NoDirectoryType, StageStepKeeps DEF Discard
<1> QED
  BY <1>4, <1>5, <1>6, <1>7, <1>8, <1>9, <1>10, <1>11, <1>12, <1>13

(* The commit point: the whole stage becomes the entry that did not exist. *)
LEMMA RenameKeeps ==
  ASSUME Inv, NEW p \in Process, Rename(p)
  PROVE  Inv'
<1>1. /\ pc[p] = "rename" /\ pc'[p] = "sync_samples"
      /\ \A q \in Process : q # p => pc'[q] = pc[q]
  BY DEF Rename, Goto, Inv, TypeOK
<1>2. UNCHANGED <<setup, losses>> /\ ~final[hash[p]].exists
  BY DEF Rename
<1>3. Stage(p) \in Directory /\ StagePath(p) \in Pid \X Hash /\ hash[p] \in Hash
  BY DEF Inv, TypeOK, Stage, StagePath
<1>4. /\ final' \in [Hash -> Directory]
      /\ final'[hash[p]] = Stage(p)
      /\ \A h \in Hash : h # hash[p] => final'[h] = final[h]
  BY <1>3 DEF Rename, Inv, TypeOK
<1>5. /\ stage' \in [Pid \X Hash -> Directory]
      /\ \A k \in Pid \X Hash : k # StagePath(p) => stage'[k] = stage[k]
  BY <1>3, NoDirectoryType DEF Rename, SetStage, Inv, TypeOK
<1>6. Shape("rename", p, Stage(p))
  BY <1>1 DEF Inv, StagesAreShaped
<1>7. TypeOK'
  BY <1>1, <1>2, <1>4, <1>5 DEF Rename, Goto, Inv, TypeOK, Control, setup
<1>8. StagesAreShaped'
  <2> SUFFICES ASSUME NEW q \in Process
               PROVE  Shape(pc'[q], q, stage'[StagePath(q)])
    BY <1>2 DEF StagesAreShaped, Stage, StagePath, setup, Shape
  <2>1. CASE pc'[q] \notin Filling
    BY <2>1 DEF Shape, Filling, ImageDone, ManifestDone, EntriesDone
  <2>2. CASE pc'[q] \in Filling
    <3>1. q # p /\ pc'[q] = pc[q]
      BY <1>1, <2>2 DEF Filling
    <3>2. Live(q) /\ Live(p)
      BY <1>1, <2>2, <3>1 DEF Live, Filling, Ended
    <3>3. StagePath(q) # StagePath(p) /\ StagePath(q) \in Pid \X Hash
      BY <3>1, <3>2 DEF StagePath, Inv, TypeOK, PidsTellApart
    <3> QED
      BY <1>5, <3>1, <3>3 DEF Inv, StagesAreShaped, Stage
  <2> QED
    BY <2>1, <2>2
<1>9. PidsTellApart'
  BY <1>1, <1>2 DEF Inv, PidsTellApart, Live, Ended, setup
<1>10. AbsentIsEmpty' /\ RenamedExists'
  BY <1>1, <1>2, <1>3, <1>4, <1>6
     DEF Inv, AbsentIsEmpty, RenamedExists, Shape, Filling, setup, TypeOK
<1>11. FinalIsWhole'
  <2>1. /\ Stage(p).image = "synced" /\ Stage(p).manifest = "synced"
        /\ Stage(p).entriesSynced /\ Stage(p).producer = p /\ p # Nobody
    BY <1>6, PublishAssumption
       DEF PublishAssumption, Shape, Filling, ImageDone, ManifestDone, EntriesDone
  <2> QED
    BY <1>2, <1>4, <2>1 DEF Inv, FinalIsWhole, setup
<1>12. PublishedIsDurable' /\ ExistingIsThere' /\ NobodyIsDenied'
  <2>1. Stage(p).exists
    BY <1>6 DEF Shape, Filling
  <2> QED
    BY <1>1, <1>2, <1>4, <2>1
       DEF Inv, PublishedIsDurable, ExistingIsThere, NobodyIsDenied, setup, TypeOK
<1> QED
  BY <1>7, <1>8, <1>9, <1>10, <1>11, <1>12 DEF Inv

LEMMA SyncSamplesKeeps ==
  ASSUME Inv, NEW p \in Process, SyncSamples(p)
  PROVE  Inv'
<1>1. /\ pc[p] = "sync_samples" /\ pc'[p] = "published"
      /\ \A q \in Process : q # p => pc'[q] = pc[q]
  BY DEF SyncSamples, Goto, Inv, TypeOK
<1>2. UNCHANGED <<setup, stage, losses>>
  BY DEF SyncSamples
<1>3. \A h \in Hash : /\ final'[h].exists => final'[h].nameSynced
                      /\ ~final[h].exists => final'[h] = final[h]
                      /\ final'[h] \in Directory
                      /\ final'[h].exists = final[h].exists
                      /\ final'[h].image = final[h].image
                      /\ final'[h].manifest = final[h].manifest
                      /\ final'[h].producer = final[h].producer
                      /\ final'[h].entriesSynced = final[h].entriesSynced
  BY DEF SyncSamples, Inv, TypeOK, Directory
<1>4. TypeOK'
  BY <1>1, <1>2, <1>3 DEF SyncSamples, Goto, Inv, TypeOK, Control, setup
<1>5. StagesAreShaped'
  BY <1>1, <1>2
     DEF Inv, StagesAreShaped, Stage, StagePath, setup, Shape, Filling, ImageDone,
         ManifestDone, EntriesDone
<1>6. PidsTellApart'
  BY <1>1, <1>2 DEF Inv, PidsTellApart, Live, Ended, setup
<1>7. AbsentIsEmpty' /\ FinalIsWhole'
  BY <1>2, <1>3 DEF Inv, AbsentIsEmpty, FinalIsWhole, setup
<1>8. RenamedExists' /\ PublishedIsDurable' /\ ExistingIsThere' /\ NobodyIsDenied'
  <2>1. /\ hash' = hash /\ losses' = losses /\ privileged' = privileged
        /\ hash \in [Process -> Hash]
    BY <1>2 DEF Inv, TypeOK, setup
  <2>2. RenamedExists'
    BY <1>1, <1>3, <2>1 DEF Inv, RenamedExists
  <2>3. PublishedIsDurable'
    BY <1>1, <1>3, <2>1 DEF Inv, PublishedIsDurable, RenamedExists
  <2>4. ExistingIsThere'
    BY <1>1, <1>3, <2>1 DEF Inv, ExistingIsThere
  <2>5. NobodyIsDenied'
    BY <1>1, <2>1 DEF Inv, NobodyIsDenied
  <2> QED
    BY <2>2, <2>3, <2>4, <2>5
<1> QED
  BY <1>4, <1>5, <1>6, <1>7, <1>8 DEF Inv

-----------------------------------------------------------------------------
(* A power loss.                                                           *)

LEMMA SurvivorsType ==
  ASSUME NEW d \in Directory, NEW e \in Survivors(d)
  PROVE  /\ e \in Directory
         /\ e.exists = d.exists
         /\ e.producer = d.producer
         /\ ~d.exists => e = d
         /\ d.exists => e.nameSynced /\ e.entriesSynced
         /\ d.exists /\ d.image = "synced" /\ d.manifest = "synced" /\ d.entriesSynced
              => e.image = "synced" /\ e.manifest = "synced"
<1>1. CASE ~d.exists
  BY <1>1 DEF Survivors
<1>2. CASE d.exists
  <2>1. PICK files \in FileSurvivors(d.image, d.entriesSynced)
                       \X FileSurvivors(d.manifest, d.entriesSynced) :
          e = [d EXCEPT !.image = files[1], !.manifest = files[2],
                        !.entriesSynced = TRUE, !.nameSynced = TRUE]
    BY <1>2 DEF Survivors
  <2> DEFINE i == files[1]
             m == files[2]
  <2>2. d.image \in Content /\ d.manifest \in Content
    BY DEF Directory
  <2>3. i \in Content /\ m \in Content
    BY <2>2 DEF FileSurvivors, Content
  <2>4. /\ e.exists = d.exists /\ e.producer = d.producer
        /\ e.nameSynced = TRUE /\ e.entriesSynced = TRUE
        /\ e.image = i /\ e.manifest = m
    BY <2>1 DEF Directory
  <2>5. e \in Directory
    BY <2>1, <2>3 DEF Directory
  <2>6. d.image = "synced" /\ d.entriesSynced => i = "synced"
    BY DEF FileSurvivors
  <2>7. d.manifest = "synced" /\ d.entriesSynced => m = "synced"
    BY DEF FileSurvivors
  <2> QED
    BY <1>2, <2>4, <2>5, <2>6, <2>7
<1> QED
  BY <1>1, <1>2

(* Every entry survives, unless its name was not durable.                  *)
LEMMA PowerLossFinal ==
  ASSUME Inv, PowerLoss
  PROVE  \E undone \in SUBSET {h \in Hash : final[h].exists /\ ~final[h].nameSynced} :
           /\ final' \in [Hash -> Directory]
           /\ \A h \in undone : final'[h] = NoDirectory
           /\ \A h \in Hash \ undone : final'[h] \in Survivors(final[h])
<1>1. PICK undone \in SUBSET {h \in Hash : final[h].exists /\ ~final[h].nameSynced} :
        LET kept == [h \in Hash |-> IF h \in undone THEN NoDirectory ELSE final[h]]
        IN  final' \in {f \in [Hash -> UNION {Survivors(kept[h]) : h \in Hash}] :
                          \A h \in Hash : f[h] \in Survivors(kept[h])}
  BY DEF PowerLoss
<1> DEFINE kept == [h \in Hash |-> IF h \in undone THEN NoDirectory ELSE final[h]]
<1>2. final' \in [Hash -> UNION {Survivors(kept[h]) : h \in Hash}]
  BY <1>1
<1>3. \A h \in Hash : final'[h] \in Survivors(kept[h])
  BY <1>1
<1>4. \A h \in Hash : kept[h] \in Directory
  BY NoDirectoryType DEF Inv, TypeOK
<1>5. \A h \in Hash : final'[h] \in Directory
  BY <1>3, <1>4, SurvivorsType
<1>6. final' \in [Hash -> Directory]
  BY <1>2, <1>5
<1>7. \A h \in undone : final'[h] = NoDirectory
  BY <1>3, SurvivorsType, NoDirectoryType DEF NoDirectory
<1>8. \A h \in Hash \ undone : final'[h] \in Survivors(final[h])
  BY <1>3
<1> QED
  BY <1>6, <1>7, <1>8

LEMMA PowerLossKeeps ==
  ASSUME Inv, PowerLoss
  PROVE  Inv'
<1>1. \A p \in Process : pc'[p] = IF Live(p) THEN "dead" ELSE pc[p]
  BY DEF PowerLoss
<1>2. UNCHANGED setup
  BY DEF PowerLoss
<1>3. PICK undone \in SUBSET {h \in Hash : final[h].exists /\ ~final[h].nameSynced} :
        /\ final' \in [Hash -> Directory]
        /\ \A h \in undone : final'[h] = NoDirectory
        /\ \A h \in Hash \ undone : final'[h] \in Survivors(final[h])
  BY PowerLossFinal
<1>4. \A h \in Hash \ undone :
        /\ final'[h].exists = final[h].exists
        /\ final'[h].producer = final[h].producer
        /\ ~final[h].exists => final'[h] = final[h]
        /\ final[h].exists => final'[h].nameSynced /\ final'[h].entriesSynced
        /\ final[h].exists /\ final[h].image = "synced" /\ final[h].manifest = "synced"
             /\ final[h].entriesSynced
             => final'[h].image = "synced" /\ final'[h].manifest = "synced"
  BY <1>3, SurvivorsType DEF Inv, TypeOK
<1>5. \A h \in undone : ~final'[h].exists
  BY <1>3 DEF NoDirectory
<1>6. stage' \in [Pid \X Hash -> Directory]
  <2>1. PICK u \in SUBSET {h \in Hash : final[h].exists /\ ~final[h].nameSynced} :
          LET back == [k \in Pid \X Hash |->
                         IF k[2] \in u /\ k[1] = pid[final[k[2]].producer]
                         THEN final[k[2]] ELSE stage[k]]
          IN  \E lost \in SUBSET {k \in Pid \X Hash : back[k].exists} :
                stage' = [k \in Pid \X Hash |-> IF k \in lost THEN NoDirectory ELSE back[k]]
    BY DEF PowerLoss
  <2> DEFINE back == [k \in Pid \X Hash |->
                        IF k[2] \in u /\ k[1] = pid[final[k[2]].producer]
                        THEN final[k[2]] ELSE stage[k]]
  <2>2. \A k \in Pid \X Hash : back[k] \in Directory
    BY DEF Inv, TypeOK
  <2>3. PICK lost \in SUBSET {k \in Pid \X Hash : back[k].exists} :
          stage' = [k \in Pid \X Hash |-> IF k \in lost THEN NoDirectory ELSE back[k]]
    BY <2>1
  <2> HIDE DEF back
  <2> QED
    BY <2>2, <2>3, NoDirectoryType
<1>7. TypeOK'
  <2>1. losses' \in 0..MaxPowerLosses
    BY PublishAssumption DEF PublishAssumption, PowerLoss, Inv, TypeOK
  <2>2. pc' \in [Process -> Control]
    BY DEF PowerLoss, Inv, TypeOK, Control
  <2> QED
    BY <1>2, <1>3, <1>6, <2>1, <2>2 DEF Inv, TypeOK, setup
<1>8. \A p \in Process : pc'[p] \in Ended \cup {"idle"}
  BY <1>1 DEF Live, Ended
<1>9. StagesAreShaped' /\ PidsTellApart' /\ RenamedExists'
  BY <1>8
     DEF StagesAreShaped, Shape, Filling, ImageDone, ManifestDone, EntriesDone, Ended,
         PidsTellApart, Live, RenamedExists
<1>10. AbsentIsEmpty'
  BY <1>3, <1>4 DEF Inv, AbsentIsEmpty
<1>11. FinalIsWhole'
  BY <1>2, <1>4, <1>5 DEF Inv, FinalIsWhole, setup
<1>12. PublishedIsDurable'
  <2> SUFFICES ASSUME NEW p \in Process, pc'[p] = "published"
               PROVE  final'[hash[p]].exists /\ final'[hash[p]].nameSynced
    BY <1>2 DEF PublishedIsDurable, setup
  <2>1. pc[p] = "published" /\ hash[p] \in Hash
    BY <1>1 DEF Inv, TypeOK
  <2>2. final[hash[p]].exists /\ final[hash[p]].nameSynced
    BY <2>1 DEF Inv, PublishedIsDurable
  <2> QED
    BY <1>4, <2>1, <2>2
<1>13. NobodyIsDenied'
  BY <1>1, <1>2 DEF Inv, NobodyIsDenied, setup
<1>14. ExistingIsThere'
  <2>1. losses \in Nat /\ losses' = losses + 1
    BY PublishAssumption DEF PublishAssumption, PowerLoss, Inv, TypeOK
  <2> QED
    BY <2>1 DEF ExistingIsThere
<1> QED
  BY <1>7, <1>9, <1>10, <1>11, <1>12, <1>13, <1>14 DEF Inv

LEMMA InvInductive == Inv /\ [Next]_vars => Inv'
<1> SUFFICES ASSUME Inv, [Next]_vars
             PROVE  Inv'
  OBVIOUS
<1>1. ASSUME NEW p \in Process, Step(p)
      PROVE  Inv'
  BY <1>1, StartKeeps, StayKeeps, FillKeeps, RenameKeeps, SyncSamplesKeeps DEF Step
<1>2. CASE PowerLoss
  BY <1>2, PowerLossKeeps
<1>3. CASE UNCHANGED vars
  BY <1>3 DEF vars, setup, Inv, TypeOK, StagesAreShaped, Stage, StagePath, Shape,
              PidsTellApart, Live, AbsentIsEmpty, RenamedExists, FinalIsWhole,
              PublishedIsDurable, ExistingIsThere, NobodyIsDenied
<1> QED
  BY <1>1, <1>2, <1>3 DEF Next, Terminated

LEMMA SpecInv == Spec => []Inv
  BY InvInit, InvInductive, PTL DEF Spec

-----------------------------------------------------------------------------
(* Theorems.                                                               *)

(* Every variable of publish keeps its type.                               *)
THEOREM TypesHold == Spec => []TypeOK
<1>1. Inv => TypeOK
  BY DEF Inv
<1> QED
  BY <1>1, SpecInv, PTL

(* An entry under its final name is whole and was made for its hash, after *)
(* any number of crashes and power losses.                                 *)
THEOREM EntriesAreWhole == Spec => []FinalIsWhole
<1>1. Inv => FinalIsWhole
  BY DEF Inv
<1> QED
  BY <1>1, SpecInv, PTL

(* No power loss takes back an entry whose publisher has returned.         *)
THEOREM PublishedStays == Spec => []PublishedIsDurable
<1>1. Inv => PublishedIsDurable
  BY DEF Inv
<1> QED
  BY <1>1, SpecInv, PTL

(* Only a power loss takes back an entry that a process found existing.    *)
THEOREM ExistingStays == Spec => []ExistingIsThere
<1>1. Inv => ExistingIsThere
  BY DEF Inv
<1> QED
  BY <1>1, SpecInv, PTL

(* An entry is whole whenever it is there; it is there for good once its   *)
(* own publisher has returned, and until a power loss once it was found    *)
(* existing.                                                               *)
THEOREM EntriesStay == Spec => []EntriesLast
  BY EntriesAreWhole, PublishedStays, ExistingStays, PTL DEF EntriesLast

(* Two publishers never fill one stage.                                    *)
THEOREM StagesAreOwn == Spec => []StageIsOwn
<1>1. Inv => StageIsOwn
  BY DEF Inv, StagesAreShaped, Shape, StageIsOwn
<1> QED
  BY <1>1, SpecInv, PTL

(* What a step does to the entries, seen as a write-once store.            *)
LEMMA StepRefines ==
  ASSUME Inv, [Next]_vars
  PROVE  [Abstract!Next]_<<[h \in Hash |-> final[h].producer],
                           {h \in Hash : final[h].nameSynced}>>
<1> DEFINE producer == [h \in Hash |-> final[h].producer]
           durable == {h \in Hash : final[h].nameSynced}
<1>1. \A h \in Hash : final[h].exists <=> final[h].producer # Nobody
  BY DEF Inv, FinalIsWhole, AbsentIsEmpty, NoDirectory
<1>2. CASE UNCHANGED final
  BY <1>2
<1>3. ASSUME NEW p \in Process, Rename(p)
      PROVE  Abstract!Put(hash[p], p)
  <2>1. /\ hash[p] \in Hash
        /\ final' = [final EXCEPT ![hash[p]] = Stage(p)]
        /\ ~final[hash[p]].exists
        /\ pc[p] = "rename"
    BY <1>3 DEF Rename, Goto, Inv, TypeOK
  <2>2. Stage(p).producer = p /\ ~Stage(p).nameSynced
    BY <2>1 DEF Inv, StagesAreShaped, Shape, Filling
  <2>3. \A h \in Hash : final'[h] = IF h = hash[p] THEN Stage(p) ELSE final[h]
    BY <2>1 DEF Inv, TypeOK
  <2>4. ~final[hash[p]].nameSynced
    BY <2>1 DEF Inv, AbsentIsEmpty, NoDirectory
  <2>5. producer[hash[p]] = Nobody
    BY <1>1, <2>1
  <2>6. producer' = [producer EXCEPT ![hash[p]] = p]
    <3>1. \A h \in Hash : final'[h].producer = IF h = hash[p] THEN p ELSE final[h].producer
      BY <2>2, <2>3
    <3> QED
      BY <3>1
  <2>7. durable' = durable
    BY <2>2, <2>3, <2>4
  <2> QED
    BY <2>5, <2>6, <2>7 DEF Abstract!Put
<1>4. ASSUME NEW p \in Process, SyncSamples(p)
      PROVE  Abstract!Settle
  <2>1. \A h \in Hash : final'[h] = IF final[h].exists
                                    THEN [final[h] EXCEPT !.nameSynced = TRUE] ELSE final[h]
    BY <1>4 DEF SyncSamples
  <2>2. \A h \in Hash : final'[h].producer = final[h].producer
    BY <2>1 DEF Inv, TypeOK, Directory
  <2>3. \A h \in Hash : final'[h].nameSynced <=> final[h].exists
    <3> SUFFICES ASSUME NEW h \in Hash
                 PROVE  final'[h].nameSynced <=> final[h].exists
      OBVIOUS
    <3>1. final[h] \in Directory
      BY DEF Inv, TypeOK
    <3>2. CASE final[h].exists
      BY <2>1, <3>1, <3>2 DEF Directory
    <3>3. CASE ~final[h].exists
      <4>1. final'[h] = NoDirectory
        BY <2>1, <3>3 DEF Inv, AbsentIsEmpty
      <4> QED
        BY <3>3, <4>1 DEF NoDirectory
    <3> QED
      BY <3>2, <3>3
  <2>4. producer' = producer
    BY <2>2
  <2>5. durable' = {h \in Hash : producer[h] # Nobody}
    BY <1>1, <2>3
  <2> QED
    BY <2>4, <2>5 DEF Abstract!Settle
<1>5. ASSUME PowerLoss
      PROVE  \E kept \in SUBSET Hash : Abstract!Survive(kept)
  <2>1. PICK undone \in SUBSET {h \in Hash : final[h].exists /\ ~final[h].nameSynced} :
          /\ final' \in [Hash -> Directory]
          /\ \A h \in undone : final'[h] = NoDirectory
          /\ \A h \in Hash \ undone : final'[h] \in Survivors(final[h])
    BY <1>5, PowerLossFinal
  <2>2. \A h \in Hash \ undone :
          /\ final'[h].producer = final[h].producer
          /\ ~final[h].exists => final'[h] = final[h]
          /\ final[h].exists => final'[h].nameSynced
    BY <2>1, SurvivorsType DEF Inv, TypeOK
  <2>3. \A h \in undone : final'[h].producer = Nobody /\ ~final'[h].nameSynced
    BY <2>1 DEF NoDirectory
  <2>4. \A h \in Hash : ~final[h].exists => ~final[h].nameSynced
    BY DEF Inv, AbsentIsEmpty, NoDirectory
  <2> DEFINE kept == Hash \ undone
  <2>5. durable \subseteq kept
    BY <2>1
  <2>6. producer' = [h \in Hash |-> IF h \in kept THEN producer[h] ELSE Nobody]
    BY <2>2, <2>3
  <2>7. durable' = {h \in kept : producer[h] # Nobody}
    BY <1>1, <2>2, <2>3, <2>4
  <2>8. kept \in SUBSET Hash
    OBVIOUS
  <2> QED
    BY <2>5, <2>6, <2>7, <2>8 DEF Abstract!Survive
<1>6. CASE \E p \in Process : Step(p) /\ ~Rename(p) /\ ~SyncSamples(p)
  <2>1. UNCHANGED final
    BY <1>6 DEF Step, Start, Lookup, Clean, CleanDenied, MakeStage, WriteImage, SyncImage,
                WriteManifest, SyncManifest, SyncStage, Seal, LoseRace, RenameFails,
                Discard, DiscardDenied, Verify, Kill
  <2> QED
    BY <1>2, <2>1
<1>7. CASE UNCHANGED vars
  BY <1>2, <1>7 DEF vars
<1>8. CASE \E p \in Process : Rename(p)
  <2>1. PICK p \in Process : Rename(p)
    BY <1>8
  <2>2. hash[p] \in Hash
    BY DEF Inv, TypeOK
  <2> QED
    BY <1>3, <2>1, <2>2 DEF Abstract!Next
<1>9. CASE \E p \in Process : SyncSamples(p)
  BY <1>4, <1>9 DEF Abstract!Next
<1>10. CASE PowerLoss
  BY <1>5, <1>10 DEF Abstract!Next
<1> QED
  BY <1>6, <1>7, <1>8, <1>9, <1>10 DEF Next, Terminated

(* publish implements the write-once store: one producer for ever, and no  *)
(* entry is replaced, or removed by anything but a power loss.             *)
THEOREM Refinement == Spec => ImplementsWriteOnceStore
<1>1. Init => Abstract!Init
  BY DEF Init, Abstract!Init, NoDirectory
<1> QED
  BY <1>1, StepRefines, SpecInv, PTL DEF Spec, ImplementsWriteOnceStore, Abstract!Spec
=============================================================================
