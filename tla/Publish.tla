------------------------------- MODULE Publish -------------------------------
(***************************************************************************)
(* Publication of a sample in the content-addressed corpus:                *)
(*   erofs-lab/src/lib.rs, publish and verify_existing.                    *)
(*                                                                         *)
(* Several processes publish into one corpus.  Each builds the entry in a  *)
(* stage directory named after its pid and the hash, makes it durable,     *)
(* makes it read-only, and renames it to its final name without replacing. *)
(* A process may be killed between any two system calls; the machine may   *)
(* lose power, which undoes what was not synced.                           *)
(***************************************************************************)
EXTENDS Naturals, FiniteSets

CONSTANTS
  Process,        \* incarnations: a process that ends never comes back
  Hash,           \* output hashes
  Pid,            \* process ids; reused, but never by two live processes
  MaxPowerLosses, \* bound on the power losses of a behaviour
  Nobody

ASSUME PublishAssumption ==
  /\ MaxPowerLosses \in Nat
  /\ Nobody \notin Process

(* A file is absent, written but not synced, synced, or torn by a power    *)
(* loss.  Its intended content is always the producer's.                   *)
Content == {"absent", "written", "synced", "torn"}

(* A directory: its two files, who fills it, whether its entries and its   *)
(* own name are durable, and whether it is read-only (mode 0555).          *)
Directory ==
  [exists : BOOLEAN, image : Content, manifest : Content,
   producer : Process \cup {Nobody}, entriesSynced : BOOLEAN,
   nameSynced : BOOLEAN, sealed : BOOLEAN]

NoDirectory ==
  [exists |-> FALSE, image |-> "absent", manifest |-> "absent", producer |-> Nobody,
   entriesSynced |-> FALSE, nameSynced |-> FALSE, sealed |-> FALSE]

Control == {"idle", "lookup", "clean", "mkdir", "image", "sync_image", "manifest",
            "sync_manifest", "sync_stage", "seal", "rename", "discard",
            "sync_samples", "verify", "published", "existing", "denied", "dead"}

Ended == {"published", "existing", "denied", "dead"}

VARIABLES
  privileged, \* the processes may write read-only directories
  pc,     \* where each process is
  hash,   \* the hash it publishes
  pid,    \* its process id
  stage,  \* stage[i, h]: the directory .stage-i-h
  final,  \* final[h]: the directory samples/sha256/h
  losses  \* power losses so far

vars == <<privileged, pc, hash, pid, stage, final, losses>>

setup == <<privileged, hash, pid>>

TypeOK ==
  /\ privileged \in BOOLEAN
  /\ pc \in [Process -> Control]
  /\ hash \in [Process -> Hash]
  /\ pid \in [Process -> Pid]
  /\ stage \in [Pid \X Hash -> Directory]
  /\ final \in [Hash -> Directory]
  /\ losses \in 0..MaxPowerLosses

Live(p) == pc[p] \notin Ended \cup {"idle"}

Init ==
  /\ privileged \in BOOLEAN
  /\ pc = [p \in Process |-> "idle"]
  /\ hash \in [Process -> Hash]
  /\ pid \in [Process -> Pid]
  /\ stage = [k \in Pid \X Hash |-> NoDirectory]
  /\ final = [h \in Hash |-> NoDirectory]
  /\ losses = 0

Goto(p, from, to) == pc[p] = from /\ pc' = [pc EXCEPT ![p] = to]

(* Mutant: the stage is named after the hash only.                         *)
StagePathOfHash(p) == <<CHOOSE i \in Pid : TRUE, hash[p]>>

StagePath(p) == <<pid[p], hash[p]>>

Stage(p) == stage[StagePath(p)]

SetStage(p, directory) == stage' = [stage EXCEPT ![StagePath(p)] = directory]

(* remove_dir_all: the entries of a read-only directory cannot be unlinked *)
(* without privilege.                                                      *)
CanRemove(directory) == ~directory.sealed \/ privileged

-----------------------------------------------------------------------------
Start(p) ==
  /\ Goto(p, "idle", "lookup")
  /\ \A q \in Process : Live(q) => pid[q] # pid[p]
  /\ UNCHANGED <<setup, stage, final, losses>>

Lookup(p) ==
  /\ Goto(p, "lookup", IF final[hash[p]].exists THEN "verify" ELSE "clean")
  /\ UNCHANGED <<setup, stage, final, losses>>

(* A stage left by a dead process of the same pid is removed first.        *)
Clean(p) ==
  /\ Goto(p, "clean", "mkdir")
  /\ Stage(p).exists => CanRemove(Stage(p))
  /\ SetStage(p, NoDirectory)
  /\ UNCHANGED <<setup, final, losses>>

CleanDenied(p) ==
  /\ Goto(p, "clean", "denied")
  /\ Stage(p).exists /\ ~CanRemove(Stage(p))
  /\ UNCHANGED <<setup, stage, final, losses>>

MakeStage(p) ==
  /\ Goto(p, "mkdir", "image")
  /\ SetStage(p, [NoDirectory EXCEPT !.exists = TRUE, !.producer = p])
  /\ UNCHANGED <<setup, final, losses>>

WriteImage(p) ==
  /\ Goto(p, "image", "sync_image")
  /\ SetStage(p, [Stage(p) EXCEPT !.image = "written"])
  /\ UNCHANGED <<setup, final, losses>>

SyncImage(p) ==
  /\ Goto(p, "sync_image", "manifest")
  /\ SetStage(p, [Stage(p) EXCEPT !.image = "synced"])
  /\ UNCHANGED <<setup, final, losses>>

WriteManifest(p) ==
  /\ Goto(p, "manifest", "sync_manifest")
  /\ SetStage(p, [Stage(p) EXCEPT !.manifest = "written"])
  /\ UNCHANGED <<setup, final, losses>>

SyncManifest(p) ==
  /\ Goto(p, "sync_manifest", "sync_stage")
  /\ SetStage(p, [Stage(p) EXCEPT !.manifest = "synced"])
  /\ UNCHANGED <<setup, final, losses>>

(* Mutant: the directory of the two files is not synced.                   *)
SyncStageSkipped(p) ==
  /\ Goto(p, "sync_stage", "seal")
  /\ UNCHANGED <<setup, stage, final, losses>>

SyncStage(p) ==
  /\ Goto(p, "sync_stage", "seal")
  /\ SetStage(p, [Stage(p) EXCEPT !.entriesSynced = TRUE])
  /\ UNCHANGED <<setup, final, losses>>

Seal(p) ==
  /\ Goto(p, "seal", "rename")
  /\ SetStage(p, [Stage(p) EXCEPT !.sealed = TRUE])
  /\ UNCHANGED <<setup, final, losses>>

(* Mutant: a rename that replaces an entry.                                *)
RenameReplacing(p) ==
  /\ Goto(p, "rename", "sync_samples")
  /\ final' = [final EXCEPT ![hash[p]] = Stage(p)]
  /\ SetStage(p, NoDirectory)
  /\ UNCHANGED <<setup, losses>>

(* renameat2(RENAME_NOREPLACE): the commit point.                          *)
Rename(p) ==
  /\ ~final[hash[p]].exists
  /\ Goto(p, "rename", "sync_samples")
  /\ final' = [final EXCEPT ![hash[p]] = Stage(p)]
  /\ SetStage(p, NoDirectory)
  /\ UNCHANGED <<setup, losses>>

LoseRace(p) ==
  /\ final[hash[p]].exists
  /\ Goto(p, "rename", "discard")
  /\ UNCHANGED <<setup, stage, final, losses>>

(* Any other error of the rename: the stage is removed if it can be.       *)
RenameFails(p) ==
  /\ Goto(p, "rename", "dead")
  /\ SetStage(p, IF CanRemove(Stage(p)) THEN NoDirectory ELSE Stage(p))
  /\ UNCHANGED <<setup, final, losses>>

(* `fs::remove_dir_all(&stage)?` of the loser, on its own sealed stage.    *)
Discard(p) ==
  /\ Goto(p, "discard", "verify")
  /\ CanRemove(Stage(p))
  /\ SetStage(p, NoDirectory)
  /\ UNCHANGED <<setup, final, losses>>

DiscardDenied(p) ==
  /\ Goto(p, "discard", "denied")
  /\ ~CanRemove(Stage(p))
  /\ UNCHANGED <<setup, stage, final, losses>>

SyncSamples(p) ==
  /\ Goto(p, "sync_samples", "published")
  /\ final' = [h \in Hash |->
       IF final[h].exists THEN [final[h] EXCEPT !.nameSynced = TRUE] ELSE final[h]]
  /\ UNCHANGED <<setup, stage, losses>>

(* verify_existing: the image must hash to the name of the directory.      *)
Verify(p) ==
  /\ Goto(p, "verify",
          IF final[hash[p]].image \in {"written", "synced"} THEN "existing" ELSE "dead")
  /\ UNCHANGED <<setup, stage, final, losses>>

-----------------------------------------------------------------------------
(* The process is killed, or an I/O error is returned with `?`.            *)
Kill(p) ==
  /\ Live(p)
  /\ pc' = [pc EXCEPT ![p] = "dead"]
  /\ UNCHANGED <<setup, stage, final, losses>>

(* What a power loss may leave of a file: unsynced data is torn or there,  *)
(* a file whose directory entry was not synced may be missing.             *)
FileSurvivors(content, entrySynced) ==
  (IF content = "written" THEN {"torn", "synced"} ELSE {content})
  \cup (IF entrySynced THEN {} ELSE {"absent"})

Survivors(d) ==
  IF ~d.exists THEN {d}
  ELSE {[d EXCEPT !.image = files[1], !.manifest = files[2], !.entriesSynced = TRUE,
                  !.nameSynced = TRUE] :
          files \in FileSurvivors(d.image, d.entriesSynced)
                    \X FileSurvivors(d.manifest, d.entriesSynced)}

(* Renames that were not synced may be undone, which brings the stage back *)
(* under its old name; stages, never synced by name, may be lost.  What a  *)
(* leftover stage holds does not matter, it is never read again.           *)
PowerLoss ==
  /\ losses < MaxPowerLosses
  /\ losses' = losses + 1
  /\ pc' = [p \in Process |-> IF Live(p) THEN "dead" ELSE pc[p]]
  /\ \E undone \in SUBSET {h \in Hash : final[h].exists /\ ~final[h].nameSynced} :
       LET kept == [h \in Hash |-> IF h \in undone THEN NoDirectory ELSE final[h]]
           back == [k \in Pid \X Hash |->
                      IF k[2] \in undone /\ k[1] = pid[final[k[2]].producer]
                      THEN final[k[2]] ELSE stage[k]]
       IN  /\ final' \in {f \in [Hash -> UNION {Survivors(kept[h]) : h \in Hash}] :
                          \A h \in Hash : f[h] \in Survivors(kept[h])}
           /\ \E lost \in SUBSET {k \in Pid \X Hash : back[k].exists} :
                stage' = [k \in Pid \X Hash |-> IF k \in lost THEN NoDirectory ELSE back[k]]
  /\ UNCHANGED setup

Step(p) ==
  \/ Start(p) \/ Lookup(p) \/ Clean(p) \/ CleanDenied(p) \/ MakeStage(p)
  \/ WriteImage(p) \/ SyncImage(p) \/ WriteManifest(p) \/ SyncManifest(p)
  \/ SyncStage(p) \/ Seal(p)
  \/ Rename(p) \/ LoseRace(p) \/ RenameFails(p) \/ Discard(p) \/ DiscardDenied(p)
  \/ SyncSamples(p) \/ Verify(p)
  \/ Kill(p)

Terminated == (\A p \in Process : pc[p] \in Ended) /\ UNCHANGED vars

Next == (\E p \in Process : Step(p)) \/ PowerLoss \/ Terminated

Spec == Init /\ [][Next]_vars

-----------------------------------------------------------------------------
(* Properties.                                                             *)

(* An entry of the corpus is whole from the moment it has its final name,  *)
(* and after every crash and power loss: image and manifest are complete   *)
(* and durable, and were produced for this very hash.                      *)
FinalIsWhole ==
  \A h \in Hash : final[h].exists =>
    /\ final[h].image = "synced"
    /\ final[h].manifest = "synced"
    /\ final[h].entriesSynced
    /\ final[h].producer # Nobody /\ hash[final[h].producer] = h

(* A process that renamed its stage and returned has made the entry        *)
(* durable: no later power loss takes it away.                             *)
PublishedIsDurable ==
  \A p \in Process : pc[p] = "published" =>
    final[hash[p]].exists /\ final[hash[p]].nameSynced

(* A process that found the entry of another has not synced anything: it   *)
(* was given a whole entry, which only a power loss takes back.            *)
ExistingIsThere ==
  \A p \in Process : pc[p] = "existing" => final[hash[p]].exists \/ losses > 0

(* An entry is whole or absent after any kills and power losses; once its  *)
(* own publisher has returned nothing takes it back, and what a process    *)
(* was given as existing only a power loss does (it can, until somebody    *)
(* has synced samples/sha256, which verify_existing does not).             *)
EntriesLast == FinalIsWhole /\ PublishedIsDurable /\ ExistingIsThere

(* With privileges, publishing never fails on a directory left behind or   *)
(* of the process's own making.                                            *)
NobodyIsDenied == privileged => \A p \in Process : pc[p] # "denied"

(* The stage a process is filling is its own: neither another publisher of *)
(* the same bytes nor a dead process of the same pid shares it, and with   *)
(* privileges what they left behind never makes publishing fail.           *)
Filling == {"image", "sync_image", "manifest", "sync_manifest", "sync_stage",
            "seal", "rename", "discard"}

StageIsOwn ==
  /\ \A p \in Process : pc[p] \in Filling => Stage(p).exists /\ Stage(p).producer = p
  /\ NobodyIsDenied

(* Losing the race to publish some bytes is not an error, the entry of the *)
(* winner serves: "image bytes matching that hash make the entry valid no  *)
(* matter which plan or policy produced them" (lib.rs:782).                *)
LostRaceIsNotAnError ==
  \A p \in Process : pc[p] = "discard" => CanRemove(Stage(p))

Abstract == INSTANCE WriteOnceStore WITH
  Producer <- Process,
  producer <- [h \in Hash |-> final[h].producer],
  durable  <- {h \in Hash : final[h].nameSynced}

(* The stage-and-rename protocol implements the write-once store: entries  *)
(* appear whole in one step, the manifest stays that of the first producer *)
(* and only a power loss takes back an entry, if it was not synced.        *)
ImplementsWriteOnceStore == Abstract!Spec
=============================================================================
