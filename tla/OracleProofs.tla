----------------------------- MODULE OracleProofs -----------------------------
(***************************************************************************)
(* What oracle runs leave on record (module OracleRuns), for any           *)
(* processes, any pids and any number of runs, and what is judged of one   *)
(* (module Verdict), for any retention limit and any number of lines and   *)
(* errors.                                                                 *)
(***************************************************************************)
EXTENDS OracleRuns, Verdict, TLAPS

-----------------------------------------------------------------------------
(* Type correctness.                                                       *)

LEMMA NewNameType ==
  ASSUME RunsTypeOK, NEW p \in Process, clock < MaxRuns
  PROVE  NewName(p) \in Name /\ clock + 1 \in 0..MaxRuns
  BY OracleRunsAssumption DEF OracleRunsAssumption, RunsTypeOK, NewName, Name

LEMMA PutType ==
  ASSUME RunsTypeOK, NEW n \in Name, NEW artifacts \in Artifacts, Put(n, artifacts)
  PROVE  /\ DOMAIN stages' \subseteq Name
         /\ \A m \in DOMAIN stages' : stages'[m] \in Artifacts
         /\ DOMAIN stages' = DOMAIN stages \cup {n}
  BY DEF RunsTypeOK, Put

LEMMA RemoveType ==
  ASSUME RunsTypeOK, NEW names, Unlink(names)
  PROVE  /\ DOMAIN stages' \subseteq Name
         /\ \A m \in DOMAIN stages' : stages'[m] \in Artifacts
         /\ DOMAIN stages' = DOMAIN stages \ names
  BY DEF RunsTypeOK, Unlink

LEMMA RunsTypeInit == RunsInit => RunsTypeOK
<1> SUFFICES ASSUME RunsInit
             PROVE  RunsTypeOK
  OBVIOUS
<1>1. 0 \in 0..MaxRuns
  BY OracleRunsAssumption DEF OracleRunsAssumption
<1>2. attempt \in [Process -> Name]
  BY <1>1 DEF RunsInit, Name
<1>3. DOMAIN stages = {}
  BY DEF RunsInit
<1> QED
  BY <1>1, <1>2, <1>3 DEF RunsInit, RunsTypeOK, Control

LEMMA RunsTypeStep ==
  ASSUME RunsTypeOK, [RunsNext]_runVars
  PROVE  RunsTypeOK'
<1> USE DEF RunsTypeOK, Goto, Control
<1>1. ASSUME NEW p \in Process, Step(p)
      PROVE  RunsTypeOK'
  <2>1. CASE BeginRun(p)
    BY <2>1 DEF BeginRun
  <2>2. CASE Examine(p)
    BY <2>2 DEF Examine
  <2>3. CASE SweepOne(p)
    <3>1. PICK n \in doomed[p] : doomed' = [doomed EXCEPT ![p] = @ \ {n}] /\ Unlink({n})
      BY <2>3 DEF SweepOne
    <3> QED
      BY <2>3, <3>1, RemoveType DEF SweepOne
  <2>4. CASE CreateStage(p)
    <3>1. NewName(p) \in Name /\ clock + 1 \in 0..MaxRuns
      BY <2>4, NewNameType DEF CreateStage
    <3>2. "empty" \in Artifacts
      BY DEF Artifacts
    <3> QED
      BY <2>4, <3>1, <3>2, PutType DEF CreateStage
  <2>5. CASE WriteLogs(p)
    BY <2>5, PutType DEF WriteLogs, Artifacts
  <2>6. CASE WriteRecord(p)
    BY <2>6, PutType DEF WriteRecord, Artifacts
  <2>7. CASE PublishRun(p)
    BY <2>7, RemoveType DEF PublishRun
  <2>8. CASE ReturnRun(p)
    BY <2>8 DEF ReturnRun
  <2>9. CASE RunErrs(p)
    BY <2>9, RemoveType DEF RunErrs
  <2> QED
    BY <1>1, <2>1, <2>2, <2>3, <2>4, <2>5, <2>6, <2>7, <2>8, <2>9 DEF Step
<1>2. ASSUME NEW p \in Process, Spawn(p) \/ Die(p)
      PROVE  RunsTypeOK'
  BY <1>2 DEF Spawn, Die
<1>3. CASE UNCHANGED runVars
  BY <1>3 DEF runVars
<1> QED
  BY <1>1, <1>2, <1>3 DEF RunsNext, RunsTerminated

-----------------------------------------------------------------------------
(* The inductive invariant.                                                *)

(* Two live processes have two pids, and an attempt bears the pid of its   *)
(* process.                                                                *)
PidsTellApart ==
  /\ \A p, q \in Process : Alive(p) /\ Alive(q) /\ pid[p] = pid[q] => p = q
  /\ \A p \in Process : attempt[p].pid = pid[p]

(* No stage, listed or doomed name is of the future.                       *)
NamesArePast ==
  /\ \A n \in DOMAIN stages : n.time <= clock
  /\ \A p \in Process : \A n \in listed[p] \cup doomed[p] : n.time <= clock

(* A stage is that of a run in progress, or of one its process died in.    *)
StagesHaveOwners ==
  \A n \in DOMAIN stages : \E q \in Process :
    attempt[q] = n /\ pc[q] \in Staging \cup {"dead"}

(* What a sweep has doomed is not the stage of a run in progress, however  *)
(* long ago the sweep has looked.                                          *)
DoomIsForTheDead ==
  \A p, q \in Process : pc[p] \in Staging => attempt[p] \notin doomed[q]

(* A run that was renamed is on record before its verdict is returned.     *)
RenamedIsOnRecord == \A p \in Process : pc[p] = "sync" => attempt[p] \in records

RunsInv ==
  /\ RunsTypeOK
  /\ PidsTellApart
  /\ NamesArePast
  /\ StagesHaveOwners
  /\ DoomIsForTheDead
  /\ RenamedIsOnRecord
  /\ SweepSparesTheLiving
  /\ ReturnedIsOnRecord

LEMMA RunsInvInit == RunsInit => RunsInv
<1> SUFFICES ASSUME RunsInit
             PROVE  RunsInv
  OBVIOUS
<1>1. RunsTypeOK
  BY RunsTypeInit
<1>2. \A p \in Process : attempt[p].pid = pid[p] /\ pc[p] = "unborn"
  BY DEF RunsInit
<1>3. DOMAIN stages = {} /\ \A p \in Process : listed[p] = {} /\ doomed[p] = {}
  BY DEF RunsInit
<1>4. returned = {}
  BY DEF RunsInit
<1> QED
  BY <1>1, <1>2, <1>3, <1>4
     DEF RunsInv, PidsTellApart, NamesArePast, StagesHaveOwners, DoomIsForTheDead,
         RenamedIsOnRecord, SweepSparesTheLiving, ReturnedIsOnRecord, Staging, Alive

(* The stages of two runs in progress are two.                             *)
LEMMA StagesAreTwo ==
  ASSUME RunsInv, NEW p \in Process, NEW q \in Process, p # q,
         pc[p] \in Staging, pc[q] \in Staging
  PROVE  attempt[p] # attempt[q]
  BY DEF RunsInv, PidsTellApart, Staging, Alive

(* A run leaves its stage: by publishing it, or by an error.               *)
LEMMA LeaveKeeps ==
  ASSUME RunsInv, RunsTypeOK', NEW p \in Process, pc[p] \in Staging, Unlink({attempt[p]}),
         NEW to \in {"sync", "ready"}, pc' = [pc EXCEPT ![p] = to],
         UNCHANGED <<pid, attempt, listed, doomed, clock, returned>>,
         records \subseteq records', to = "sync" => attempt[p] \in records'
  PROVE  RunsInv'
<1>1. \A q \in Process : q # p => pc'[q] = pc[q]
  BY DEF RunsInv, RunsTypeOK
<1>2. pc'[p] = to
  BY DEF RunsInv, RunsTypeOK
<1>3. DOMAIN stages' = DOMAIN stages \ {attempt[p]}
  BY DEF Unlink
<1>4. PidsTellApart'
  BY <1>1, <1>2 DEF RunsInv, PidsTellApart, Alive, Staging
<1>5. NamesArePast'
  BY <1>3 DEF RunsInv, NamesArePast
<1>6. StagesHaveOwners'
  BY <1>1, <1>3 DEF RunsInv, StagesHaveOwners
<1>7. DoomIsForTheDead'
  BY <1>1, <1>2 DEF RunsInv, DoomIsForTheDead, Staging
<1>8. RenamedIsOnRecord'
  BY <1>1, <1>2 DEF RunsInv, RenamedIsOnRecord
<1>9. SweepSparesTheLiving'
  <2> SUFFICES ASSUME NEW q \in Process, pc'[q] \in Staging
               PROVE  attempt[q] \in DOMAIN stages'
    BY DEF SweepSparesTheLiving
  <2>1. q # p /\ pc[q] \in Staging
    BY <1>1, <1>2 DEF Staging
  <2> QED
    BY <1>3, <2>1, StagesAreTwo DEF RunsInv, SweepSparesTheLiving
<1>10. ReturnedIsOnRecord'
  BY DEF RunsInv, ReturnedIsOnRecord
<1> QED
  BY <1>4, <1>5, <1>6, <1>7, <1>8, <1>9, <1>10 DEF RunsInv

(* A stage is written: logs, or the record.                                *)
LEMMA WriteKeeps ==
  ASSUME RunsInv, RunsTypeOK', NEW p \in Process, WriteLogs(p) \/ WriteRecord(p)
  PROVE  RunsInv'
<1>1. /\ UNCHANGED <<pid, attempt, listed, doomed, clock, records, returned>>
      /\ attempt[p] \in DOMAIN stages
      /\ \E artifacts \in Artifacts : Put(attempt[p], artifacts)
  BY DEF WriteLogs, WriteRecord, Artifacts
<1>2. DOMAIN stages' = DOMAIN stages
  BY <1>1 DEF Put
<1>3. \A q \in Process : /\ pc'[q] \in Staging <=> pc[q] \in Staging
                         /\ pc'[q] = "dead" <=> pc[q] = "dead"
                         /\ pc'[q] = "sync" <=> pc[q] = "sync"
                         /\ Alive(q)' <=> Alive(q)
  BY DEF WriteLogs, WriteRecord, Goto, RunsInv, RunsTypeOK, Staging, Alive
<1>4. PidsTellApart' /\ NamesArePast'
  BY <1>1, <1>2, <1>3 DEF RunsInv, PidsTellApart, NamesArePast
<1>5. StagesHaveOwners'
  BY <1>1, <1>2, <1>3 DEF RunsInv, StagesHaveOwners
<1> QED
  BY <1>1, <1>2, <1>3, <1>4, <1>5
     DEF RunsInv, DoomIsForTheDead, RenamedIsOnRecord, SweepSparesTheLiving, ReturnedIsOnRecord

LEMMA BeginRunKeeps ==
  ASSUME RunsInv, RunsTypeOK', NEW p \in Process, BeginRun(p)
  PROVE  RunsInv'
<1>1. \A q \in Process : /\ pc'[q] \in Staging <=> pc[q] \in Staging
                         /\ pc'[q] = "dead" <=> pc[q] = "dead"
                         /\ pc'[q] = "sync" <=> pc[q] = "sync"
                         /\ Alive(q)' <=> Alive(q)
  BY DEF BeginRun, Goto, RunsInv, RunsTypeOK, Staging, Alive
<1>2. \A q \in Process : listed'[q] \in {listed[q], DOMAIN stages}
  BY DEF BeginRun, RunsInv, RunsTypeOK
<1>3. NamesArePast'
  BY <1>2 DEF BeginRun, RunsInv, NamesArePast
<1> QED
  BY <1>1, <1>3
     DEF BeginRun, RunsInv, PidsTellApart, StagesHaveOwners, DoomIsForTheDead, RenamedIsOnRecord,
         SweepSparesTheLiving, ReturnedIsOnRecord

(* What is doomed has a pid no live process has.                           *)
LEMMA ExamineKeeps ==
  ASSUME RunsInv, RunsTypeOK', NEW p \in Process, Examine(p)
  PROVE  RunsInv'
<1>1. PICK n \in listed[p] :
        /\ listed' = [listed EXCEPT ![p] = @ \ {n}]
        /\ doomed' = [doomed EXCEPT ![p] = IF PidExists(n.pid) THEN @ ELSE @ \cup {n}]
  BY DEF Examine
<1>2. UNCHANGED <<pid, pc, attempt, clock, stages, records, returned>>
  BY DEF Examine
<1>3. \A q \in Process :
        /\ listed'[q] \subseteq listed[q]
        /\ \A m \in doomed'[q] : m \in doomed[q] \/ (q = p /\ m = n /\ ~PidExists(n.pid))
  BY <1>1 DEF RunsInv, RunsTypeOK
<1>4. NamesArePast'
  BY <1>2, <1>3 DEF RunsInv, NamesArePast
<1>5. DoomIsForTheDead'
  <2> SUFFICES ASSUME NEW r \in Process, NEW q \in Process, pc[r] \in Staging,
                      attempt[r] \in doomed'[q]
               PROVE  FALSE
    BY <1>2 DEF DoomIsForTheDead
  <2>1. attempt[r] = n /\ ~PidExists(n.pid)
    BY <1>3 DEF RunsInv, DoomIsForTheDead
  <2>2. Alive(r) /\ attempt[r].pid = pid[r]
    BY DEF RunsInv, PidsTellApart, Alive, Staging
  <2> QED
    BY <2>1, <2>2 DEF PidExists
<1> QED
  BY <1>2, <1>4, <1>5
     DEF RunsInv, PidsTellApart, StagesHaveOwners, RenamedIsOnRecord, SweepSparesTheLiving,
         ReturnedIsOnRecord, Alive

LEMMA SweepOneKeeps ==
  ASSUME RunsInv, RunsTypeOK', NEW p \in Process, SweepOne(p)
  PROVE  RunsInv'
<1>1. PICK n \in doomed[p] : doomed' = [doomed EXCEPT ![p] = @ \ {n}] /\ Unlink({n})
  BY DEF SweepOne
<1>2. UNCHANGED <<pid, pc, attempt, listed, clock, records, returned>>
  BY DEF SweepOne
<1>3. DOMAIN stages' = DOMAIN stages \ {n}
  BY <1>1 DEF Unlink
<1>4. \A q \in Process : doomed'[q] \subseteq doomed[q]
  BY <1>1 DEF RunsInv, RunsTypeOK
<1>5. NamesArePast' /\ DoomIsForTheDead'
  BY <1>2, <1>3, <1>4 DEF RunsInv, NamesArePast, DoomIsForTheDead
<1>6. SweepSparesTheLiving'
  BY <1>1, <1>2, <1>3 DEF RunsInv, SweepSparesTheLiving, DoomIsForTheDead
<1>7. StagesHaveOwners'
  BY <1>2, <1>3 DEF RunsInv, StagesHaveOwners
<1> QED
  BY <1>2, <1>5, <1>6, <1>7
     DEF RunsInv, PidsTellApart, RenamedIsOnRecord, ReturnedIsOnRecord, Alive

(* The new name is later than whatever a sweep has seen.                   *)
LEMMA CreateStageKeeps ==
  ASSUME RunsInv, RunsTypeOK', NEW p \in Process, CreateStage(p)
  PROVE  RunsInv'
<1>1. /\ pc[p] = "sweep" /\ pc'[p] = "run"
      /\ \A q \in Process : q # p => pc'[q] = pc[q]
  BY DEF CreateStage, Goto, RunsInv, RunsTypeOK
<1>2. /\ attempt'[p] = NewName(p)
      /\ \A q \in Process : q # p => attempt'[q] = attempt[q]
  BY DEF CreateStage, RunsInv, RunsTypeOK
<1>3. clock \in Nat /\ clock' = clock + 1
  BY OracleRunsAssumption DEF OracleRunsAssumption, CreateStage, RunsInv, RunsTypeOK
<1>4. DOMAIN stages' = DOMAIN stages \cup {NewName(p)}
  BY DEF CreateStage, Put
<1>5. UNCHANGED <<pid, listed, doomed, records, returned>>
  BY DEF CreateStage
<1>6. NewName(p).time = clock' /\ NewName(p).pid = pid[p]
  BY <1>3 DEF NewName
<1>7. PidsTellApart'
  BY <1>1, <1>2, <1>5, <1>6 DEF RunsInv, PidsTellApart, Alive
<1>8. NamesArePast'
  <2>1. \A n \in DOMAIN stages : n.time \in Nat
    BY OracleRunsAssumption DEF OracleRunsAssumption, RunsInv, RunsTypeOK, Name
  <2>2. \A q \in Process : \A n \in listed[q] \cup doomed[q] : n.time \in Nat
    BY OracleRunsAssumption DEF OracleRunsAssumption, RunsInv, RunsTypeOK, Name
  <2> QED
    BY <1>3, <1>4, <1>5, <1>6, <2>1, <2>2 DEF RunsInv, NamesArePast
<1>9. StagesHaveOwners'
  <2> SUFFICES ASSUME NEW n \in DOMAIN stages'
               PROVE  \E q \in Process : attempt'[q] = n /\ pc'[q] \in Staging \cup {"dead"}
    BY DEF StagesHaveOwners
  <2>1. CASE n = NewName(p)
    BY <1>1, <1>2, <2>1 DEF Staging
  <2>2. CASE n \in DOMAIN stages
    <3>1. PICK q \in Process : attempt[q] = n /\ pc[q] \in Staging \cup {"dead"}
      BY <2>2 DEF RunsInv, StagesHaveOwners
    <3>2. q # p
      BY <1>1, <3>1 DEF Staging
    <3> QED
      BY <1>1, <1>2, <3>1, <3>2
  <2> QED
    BY <1>4, <2>1, <2>2
<1>10. DoomIsForTheDead'
  <2> SUFFICES ASSUME NEW r \in Process, NEW q \in Process, pc'[r] \in Staging
               PROVE  attempt'[r] \notin doomed[q]
    BY <1>5 DEF DoomIsForTheDead
  <2>1. CASE r = p
    <3>1. \A n \in doomed[q] : n.time \in Nat /\ n.time <= clock
      BY OracleRunsAssumption
         DEF OracleRunsAssumption, RunsInv, RunsTypeOK, Name, NamesArePast
    <3> QED
      BY <1>2, <1>3, <1>6, <2>1, <3>1
  <2>2. CASE r # p
    BY <1>1, <1>2, <2>2 DEF RunsInv, DoomIsForTheDead
  <2> QED
    BY <2>1, <2>2
<1>11. RenamedIsOnRecord' /\ SweepSparesTheLiving'
  BY <1>1, <1>2, <1>4, <1>5 DEF RunsInv, RenamedIsOnRecord, SweepSparesTheLiving
<1> QED
  BY <1>5, <1>7, <1>8, <1>9, <1>10, <1>11 DEF RunsInv, ReturnedIsOnRecord

(* A run that is over: its verdict is returned, or syncing it fails.       *)
LEMMA EndKeeps ==
  ASSUME RunsInv, RunsTypeOK', NEW p \in Process, pc[p] = "sync", pc' = [pc EXCEPT ![p] = "ready"],
         UNCHANGED <<pid, attempt, listed, doomed, clock, stages, records>>,
         returned' \subseteq returned \cup {attempt[p]}
  PROVE  RunsInv'
<1>1. \A q \in Process : /\ pc'[q] \in Staging <=> pc[q] \in Staging
                         /\ pc'[q] = "dead" <=> pc[q] = "dead"
                         /\ pc'[q] = "sync" => pc[q] = "sync"
                         /\ Alive(q)' <=> Alive(q)
  BY DEF RunsInv, RunsTypeOK, Staging, Alive
<1>2. PidsTellApart' /\ NamesArePast' /\ DoomIsForTheDead'
  BY <1>1 DEF RunsInv, PidsTellApart, NamesArePast, DoomIsForTheDead
<1>3. StagesHaveOwners'
  BY <1>1 DEF RunsInv, StagesHaveOwners
<1> QED
  BY <1>1, <1>2, <1>3
     DEF RunsInv, RenamedIsOnRecord, SweepSparesTheLiving, ReturnedIsOnRecord

LEMMA SpawnKeeps ==
  ASSUME RunsInv, RunsTypeOK', NEW p \in Process, Spawn(p)
  PROVE  RunsInv'
<1>1. /\ pc[p] = "unborn" /\ pc'[p] = "ready"
      /\ \A q \in Process : q # p => pc'[q] = pc[q]
  BY DEF Spawn, Goto, RunsInv, RunsTypeOK
<1>2. UNCHANGED <<pid, attempt, listed, doomed, clock, stages, records, returned>>
  BY DEF Spawn
<1>3. PidsTellApart'
  BY <1>1, <1>2 DEF Spawn, RunsInv, PidsTellApart, Alive, PidExists
<1>4. StagesHaveOwners'
  <2> SUFFICES ASSUME NEW n \in DOMAIN stages
               PROVE  \E q \in Process : attempt[q] = n /\ pc'[q] \in Staging \cup {"dead"}
    BY <1>2 DEF StagesHaveOwners
  <2>1. PICK q \in Process : attempt[q] = n /\ pc[q] \in Staging \cup {"dead"}
    BY DEF RunsInv, StagesHaveOwners
  <2>2. q # p
    BY <1>1, <2>1 DEF Staging
  <2> QED
    BY <1>1, <2>1, <2>2
<1>5. NamesArePast' /\ DoomIsForTheDead'
  BY <1>1, <1>2 DEF RunsInv, NamesArePast, DoomIsForTheDead, Staging
<1> QED
  BY <1>1, <1>2, <1>3, <1>4, <1>5
     DEF RunsInv, RenamedIsOnRecord, SweepSparesTheLiving, ReturnedIsOnRecord, Staging

LEMMA DieKeeps ==
  ASSUME RunsInv, RunsTypeOK', NEW p \in Process, Die(p)
  PROVE  RunsInv'
<1>1. /\ pc'[p] = "dead"
      /\ \A q \in Process : q # p => pc'[q] = pc[q]
  BY DEF Die, RunsInv, RunsTypeOK
<1>2. UNCHANGED <<pid, attempt, clock, stages, records, returned>>
  BY DEF Die
<1>3. \A q \in Process : listed'[q] \subseteq listed[q] /\ doomed'[q] \subseteq doomed[q]
  BY DEF Die, RunsInv, RunsTypeOK
<1>4. PidsTellApart'
  BY <1>1, <1>2 DEF RunsInv, PidsTellApart, Alive
<1>5. StagesHaveOwners'
  BY <1>1, <1>2 DEF RunsInv, StagesHaveOwners
<1>6. NamesArePast' /\ DoomIsForTheDead'
  BY <1>1, <1>2, <1>3 DEF RunsInv, NamesArePast, DoomIsForTheDead, Staging
<1> QED
  BY <1>1, <1>2, <1>4, <1>5, <1>6
     DEF RunsInv, RenamedIsOnRecord, SweepSparesTheLiving, ReturnedIsOnRecord, Staging

LEMMA RunsInductive == RunsInv /\ [RunsNext]_runVars => RunsInv'
<1> SUFFICES ASSUME RunsInv, [RunsNext]_runVars
             PROVE  RunsInv'
  OBVIOUS
<1>1. RunsTypeOK'
  BY RunsTypeStep DEF RunsInv
<1>2. ASSUME NEW p \in Process, Step(p)
      PROVE  RunsInv'
  <2>1. CASE BeginRun(p) \/ Examine(p) \/ SweepOne(p)
    BY <1>1, <2>1, BeginRunKeeps, ExamineKeeps, SweepOneKeeps
  <2>2. CASE CreateStage(p) \/ WriteLogs(p) \/ WriteRecord(p)
    BY <1>1, <2>2, CreateStageKeeps, WriteKeeps
  <2>3. CASE PublishRun(p)
    <3>1. pc[p] \in Staging /\ pc' = [pc EXCEPT ![p] = "sync"]
      BY <2>3 DEF PublishRun, Goto, Staging
    <3> QED
      BY <1>1, <2>3, <3>1, LeaveKeeps DEF PublishRun
  <2>4. CASE ReturnRun(p)
    BY <1>1, <2>4, EndKeeps DEF ReturnRun, Goto
  <2>5. CASE RunErrs(p) /\ pc[p] \in Staging
    BY <1>1, <2>5, LeaveKeeps DEF RunErrs
  <2>6. CASE RunErrs(p) /\ pc[p] \notin Staging
    BY <1>1, <2>6, EndKeeps DEF RunErrs
  <2> QED
    BY <1>2, <2>1, <2>2, <2>3, <2>4, <2>5, <2>6 DEF Step
<1>3. ASSUME NEW p \in Process, Spawn(p) \/ Die(p)
      PROVE  RunsInv'
  BY <1>1, <1>3, SpawnKeeps, DieKeeps
<1>4. CASE UNCHANGED runVars
  BY <1>1, <1>4
     DEF RunsInv, runVars, PidsTellApart, NamesArePast, StagesHaveOwners, DoomIsForTheDead,
         RenamedIsOnRecord, SweepSparesTheLiving, ReturnedIsOnRecord, Alive
<1> QED
  BY <1>2, <1>3, <1>4 DEF RunsNext, RunsTerminated

LEMMA RunsSpecInv == RunsSpec => []RunsInv
  BY RunsInvInit, RunsInductive, PTL DEF RunsSpec

-----------------------------------------------------------------------------
(* Theorems.                                                               *)

(* Every variable of the run directory keeps its type.                     *)
THEOREM RunTypesHold == RunsSpec => []RunsTypeOK
<1>1. RunsInv => RunsTypeOK
  BY DEF RunsInv
<1> QED
  BY <1>1, RunsSpecInv, PTL

(* sweep_stale_stages never removes the stage of a run in progress,        *)
(* whatever pids are reused between its look and its removal.              *)
THEOREM SweepingSparesTheLiving == RunsSpec => []SweepSparesTheLiving
<1>1. RunsInv => SweepSparesTheLiving
  BY DEF RunsInv
<1> QED
  BY <1>1, RunsSpecInv, PTL

(* run_oracle_inner returns a verdict only when its run is on record.      *)
THEOREM ReturnedRunsAreOnRecord == RunsSpec => []ReturnedIsOnRecord
<1>1. RunsInv => ReturnedIsOnRecord
  BY DEF RunsInv
<1> QED
  BY <1>1, RunsSpecInv, PTL

(* No run is lost, neither staged nor returned.                            *)
THEOREM RunsKept == RunsSpec => []RunsAreKept
  BY SweepingSparesTheLiving, ReturnedRunsAreOnRecord, PTL DEF RunsAreKept

(* StageGuard: under the pid of a live process there are only the stage of *)
(* its run in progress and those of processes killed in the middle of one. *)
THEOREM LivingLeaveNoLitter == RunsSpec => []NoLitterFromTheLiving
<1>1. RunsInv => NoLitterFromTheLiving
  <2> SUFFICES ASSUME RunsInv, NEW p \in Process, NEW n \in DOMAIN stages, Alive(p),
                      n.pid = pid[p]
               PROVE  \/ pc[p] \in Staging /\ attempt[p] = n
                      \/ \E q \in Process : pc[q] = "dead" /\ attempt[q] = n
    BY DEF NoLitterFromTheLiving
  <2>1. PICK q \in Process : attempt[q] = n /\ pc[q] \in Staging \cup {"dead"}
    BY DEF RunsInv, StagesHaveOwners
  <2>2. CASE pc[q] \in Staging
    BY <2>1, <2>2 DEF RunsInv, PidsTellApart, Alive, Staging
  <2> QED
    BY <2>1, <2>2
<1> QED
  BY <1>1, RunsSpecInv, PTL

-----------------------------------------------------------------------------
(* Logs.                                                                   *)

Said(log, line) == \E i \in DOMAIN log : log[i] = line

LEMMA SaidAppend ==
  ASSUME NEW log \in Seq(Line), NEW line \in Line
  PROVE  /\ Append(log, line) \in Seq(Line)
         /\ \A x : Said(Append(log, line), x) <=> Said(log, x) \/ x = line
<1>1. Append(log, line) \in Seq(Line)
  OBVIOUS
<1>2. ASSUME NEW x
      PROVE  Said(Append(log, line), x) <=> Said(log, x) \/ x = line
  <2>1. /\ DOMAIN Append(log, line) = 1..(Len(log) + 1)
        /\ Len(log) \in Nat /\ DOMAIN log = 1..Len(log)
        /\ \A i \in 1..Len(log) : Append(log, line)[i] = log[i]
        /\ Append(log, line)[Len(log) + 1] = line
    OBVIOUS
  <2>2. ASSUME Said(log, x) PROVE Said(Append(log, line), x)
    BY <2>1, <2>2 DEF Said
  <2>3. ASSUME x = line PROVE Said(Append(log, line), x)
    BY <2>1, <2>3 DEF Said
  <2>4. ASSUME Said(Append(log, line), x), x # line PROVE Said(log, x)
    <3>1. PICK i \in 1..(Len(log) + 1) : Append(log, line)[i] = x
      BY <2>1, <2>4 DEF Said
    <3>2. i \in 1..Len(log)
      BY <2>1, <2>4, <3>1
    <3> QED
      BY <2>1, <3>1, <3>2 DEF Said
  <2> QED
    BY <2>2, <2>3, <2>4
<1> QED
  BY <1>1, <1>2

LEMMA SaidNothing == \A x : ~Said(<<>>, x)
  BY DEF Said

(* What the classifier sees was said; of a whole log it sees all.          *)
LEMMA ShownIsSaid ==
  ASSUME NEW log \in Seq(Line), NEW line, Shows(log, {line})
  PROVE  Said(log, line)
<1>1. PICK i \in DOMAIN Retained(log) : log[i] = line
  BY DEF Shows
<1>2. DOMAIN Retained(log) \subseteq DOMAIN log
  BY VerdictAssumption DEF VerdictAssumption, Retained
<1> QED
  BY <1>1, <1>2 DEF Said

LEMMA WholeIsShown ==
  ASSUME NEW log \in Seq(Line), NEW line, Whole(log), Said(log, line)
  PROVE  Shows(log, {line})
<1>1. PICK i \in DOMAIN log : log[i] = line
  BY DEF Said
<1>2. DOMAIN Retained(log) = DOMAIN log
  <2>1. Retained(log) = SubSeq(log, 1, Len(log))
    BY VerdictAssumption DEF VerdictAssumption, Retained, Whole
  <2> QED
    BY <2>1
<1> QED
  BY <1>1, <1>2 DEF Shows

-----------------------------------------------------------------------------
(* Classifiers: a verdict is that of a rule that applies, and no rule      *)
(* before it does.                                                         *)
LEMMA FirstApplies ==
  ASSUME NEW rules, NEW n \in 9..10, DOMAIN rules = 1..n, rules[n].when
  PROVE  \E i \in 1..n : /\ rules[i].when
                         /\ First(rules) = rules[i].verdict
                         /\ \A j \in 1..n : j < i => ~rules[j].when
<1> DEFINE applies == {i \in DOMAIN rules : rules[i].when}
           least(i) == i \in applies /\ \A j \in applies : i <= j
           noneTo(k) == \A j \in applies : j > k
<1>1. \E i \in 1..n : least(i)
  <2> SUFFICES ASSUME \A i \in 1..n : ~least(i) PROVE FALSE
    OBVIOUS
  <2>1. ~noneTo(n) /\ noneTo(0)
    OBVIOUS
  <2>2. \A k \in 0..9 : noneTo(k) => noneTo(k + 1)
    OBVIOUS
  <2> HIDE DEF noneTo
  <2>3. noneTo(1) /\ noneTo(2) /\ noneTo(3) /\ noneTo(4) /\ noneTo(5)
    BY <2>1, <2>2
  <2>4. noneTo(6) /\ noneTo(7) /\ noneTo(8) /\ noneTo(9) /\ noneTo(10)
    BY <2>2, <2>3
  <2> QED
    BY <2>1, <2>3, <2>4
<1>2. least(CHOOSE i \in applies : \A j \in applies : i <= j)
  BY <1>1
<1>3. PICK i \in 1..n : least(i) /\ First(rules) = rules[i].verdict
  BY <1>2 DEF First
<1> QED
  BY <1>3

-----------------------------------------------------------------------------
(* The programs: what has been said, and what has happened.                *)

Trouble == truth \cap {"refused", "limited"}

ReaderSays ==
  /\ profile = "rust" => at \in {"begin", "work", "over"}
  /\ profile = "rust" /\ at # "over" => truth = {}
  /\ \A e \in {"event_complete", "event_rejected", "event_panic"} :
       Said(out, e) => profile = "rust" /\ at = "over"
  /\ Said(out, "event_complete") => truth = {"clean"}
  /\ Said(out, "event_rejected") => "refused" \in truth
  /\ Said(out, "event_panic") <=> "panicked" \in truth

FsckSays ==
  /\ profile = "fsck" => at \in {"begin", "over"}
  /\ profile = "fsck" /\ death = "exit0" => truth = {"clean"}

GuestSays ==
  /\ profile = "linux" /\ at \in {"begin", "work", "summary"} =>
       (errors = 0 <=> Trouble = {})
  /\ profile = "linux" /\ at = "summary" /\ errors = 0 => "clean" \in truth
  /\ profile = "linux" /\ at = "begin" => errors = 0
  /\ Said(out, "complete") =>
       profile = "linux" /\ at \in {"off", "over"} /\ "clean" \in truth /\ Trouble = {}
  /\ \A line \in {"mount_rejected", "rejected"} :
       Said(out, line) => profile = "linux" /\ Trouble # {}
  /\ Said(out, "danger") <=> "danger" \in truth
  /\ "danger" \in truth => profile = "linux"

(* A program that ended has ended for a reason.                            *)
DeathsAreReal ==
  /\ death # "none" <=> at = "over"
  /\ death = "abort" => truth \cap {"panicked", "exhausted"} # {}
  /\ death = "fault" => "faulted" \in truth
  /\ death = "kill" => "exhausted" \in truth

StatusIsReal ==
  /\ status \in Signal /\ ~cancelled /\ ~timedOut => death \in {"abort", "fault", "kill"}
  /\ status = "success" => death = "exit0"
  /\ status = "none" => verdict = NoVerdict /\ ~cancelled /\ ~timedOut

ProgramInv == TypeOK /\ ReaderSays /\ FsckSays /\ GuestSays /\ DeathsAreReal /\ StatusIsReal

LEMMA ProgramInit == Init => ProgramInv
<1> SUFFICES ASSUME Init
             PROVE  ProgramInv
  OBVIOUS
<1>1. TypeOK
  <2>1. 0 \in 0..MaxErrors /\ <<>> \in Seq(Line)
    BY VerdictAssumption DEF VerdictAssumption
  <2>2. "none" \in Death /\ verdict.status = "none"
    BY DEF Init, Death, NoVerdict
  <2> QED
    BY <2>1, <2>2, Zenon DEF Init, TypeOK
<1> QED
  BY <1>1, SaidNothing
     DEF Init, ProgramInv, ReaderSays, FsckSays, GuestSays, DeathsAreReal, StatusIsReal,
         Trouble, Signal

LEMMA LineAdded ==
  ASSUME TypeOK, NEW line \in Line, Say(line)
  PROVE  /\ out' \in Seq(Line) /\ err' \in Seq(Line)
         /\ \A x : Said(out', x) <=> Said(out, x) \/ x = line
  BY SaidAppend DEF Say, TypeOK

LEMMA ReaderKeeps ==
  ASSUME ProgramInv, Reader
  PROVE  ProgramInv'
<1> USE DEF ProgramInv, Working, supervisorVars, Know, End
<1>1. profile = "rust" /\ at \in {"begin", "work"} /\ status = "none" /\ truth = {}
  BY DEF Reader, ReaderStarts, ReaderAccepts, ReaderRefuses, ReaderStopsAtBudget,
         ReaderPanics, ReaderRunsOut, ReaderSays
<1>2. UNCHANGED <<profile, errors, supervisorVars>>
  BY DEF Reader, ReaderStarts, ReaderAccepts, ReaderRefuses, ReaderStopsAtBudget,
         ReaderPanics, ReaderRunsOut
<1>3. /\ {"noise", "event_complete", "event_rejected", "event_resource", "event_panic",
          "allocation_failed"} \subseteq Line
      /\ {"clean", "refused", "limited", "panicked", "exhausted"} \subseteq Truth
      /\ {"none", "exit0", "exit1", "abort"} \subseteq Death
  BY DEF Line, Truth, Death
<1>4. StatusIsReal'
  BY <1>1, <1>2 DEF StatusIsReal, Signal
<1>5. /\ \A e \in {"event_complete", "event_rejected", "event_panic", "complete",
                  "mount_rejected", "rejected", "danger"} : ~Said(out, e)
      /\ death = "none"
  BY <1>1 DEF ReaderSays, GuestSays, DeathsAreReal
<1>6. CASE ReaderStarts
  <2>1. /\ out' \in Seq(Line) /\ err' \in Seq(Line)
        /\ \A x : Said(out', x) <=> Said(out, x) \/ x = "noise"
    BY <1>3, <1>6, LineAdded DEF ReaderStarts
  <2>2. TypeOK'
    BY <1>2, <1>6, <2>1 DEF ReaderStarts, TypeOK
  <2>3. ReaderSays' /\ FsckSays' /\ GuestSays' /\ DeathsAreReal'
    BY <1>1, <1>2, <1>5, <1>6, <2>1
       DEF ReaderStarts, ReaderSays, FsckSays, GuestSays, DeathsAreReal, Trouble
  <2> QED
    BY <1>4, <2>2, <2>3
<1>7. CASE ReaderAccepts
  <2>1. out' = Append(Append(out, "noise"), "event_complete")
    BY <1>7 DEF ReaderAccepts, TypeOK
  <2>2. Append(out, "noise") \in Seq(Line)
        /\ \A x : Said(Append(out, "noise"), x) <=> Said(out, x) \/ x = "noise"
    BY <1>3, SaidAppend DEF TypeOK
  <2>3. out' \in Seq(Line)
        /\ \A x : Said(out', x) <=> Said(out, x) \/ x = "noise" \/ x = "event_complete"
    <3> DEFINE begun == Append(out, "noise")
    <3>1. begun \in Seq(Line) /\ "event_complete" \in Line
      BY <1>3, <2>2
    <3>2. /\ Append(begun, "event_complete") \in Seq(Line)
          /\ \A x : Said(Append(begun, "event_complete"), x)
                      <=> Said(begun, x) \/ x = "event_complete"
      <4> HIDE DEF begun
      <4> QED
        BY <3>1, SaidAppend
    <3> QED
      BY <2>1, <2>2, <3>2
  <2>4. TypeOK'
    <3>1. /\ at' = "over" /\ death' = "exit0" /\ truth' = truth \cup {"clean"}
          /\ err' = err
      BY <1>7 DEF ReaderAccepts
    <3>2. out' \in Seq(Line)
      BY <2>3
    <3> QED
      BY <1>2, <1>3, <3>1, <3>2 DEF TypeOK
  <2>5. ReaderSays' /\ FsckSays' /\ GuestSays' /\ DeathsAreReal'
    BY <1>1, <1>2, <1>5, <1>7, <2>3
       DEF ReaderAccepts, ReaderSays, FsckSays, GuestSays, DeathsAreReal, Trouble
  <2> QED
    BY <1>4, <2>4, <2>5
<1>8. CASE ReaderRefuses
  <2>1. /\ out' \in Seq(Line) /\ err' \in Seq(Line)
        /\ \A x : Said(out', x) <=> Said(out, x) \/ x = "event_rejected"
    BY <1>3, <1>8, LineAdded DEF ReaderRefuses
  <2>2. TypeOK'
    BY <1>2, <1>3, <1>8, <2>1 DEF ReaderRefuses, TypeOK
  <2>3. ReaderSays' /\ FsckSays' /\ GuestSays' /\ DeathsAreReal'
    BY <1>1, <1>2, <1>5, <1>8, <2>1
       DEF ReaderRefuses, ReaderSays, FsckSays, GuestSays, DeathsAreReal, Trouble
  <2> QED
    BY <1>4, <2>2, <2>3
<1>9. CASE ReaderStopsAtBudget
  <2>1. /\ out' \in Seq(Line) /\ err' \in Seq(Line)
        /\ \A x : Said(out', x) <=> Said(out, x) \/ x = "event_resource"
    BY <1>3, <1>9, LineAdded DEF ReaderStopsAtBudget
  <2>2. TypeOK'
    BY <1>2, <1>3, <1>9, <2>1 DEF ReaderStopsAtBudget, TypeOK
  <2>3. ReaderSays' /\ FsckSays' /\ GuestSays' /\ DeathsAreReal'
    BY <1>1, <1>2, <1>5, <1>9, <2>1
       DEF ReaderStopsAtBudget, ReaderSays, FsckSays, GuestSays, DeathsAreReal, Trouble
  <2> QED
    BY <1>4, <2>2, <2>3
<1>10. CASE ReaderPanics
  <2>1. /\ out' \in Seq(Line) /\ err' \in Seq(Line)
        /\ \A x : Said(out', x) <=> Said(out, x) \/ x = "event_panic"
    BY <1>3, <1>10, SaidAppend DEF ReaderPanics, TypeOK
  <2>2. TypeOK'
    BY <1>2, <1>3, <1>10, <2>1 DEF ReaderPanics, TypeOK
  <2>3. ReaderSays' /\ FsckSays' /\ GuestSays' /\ DeathsAreReal'
    BY <1>1, <1>2, <1>5, <1>10, <2>1
       DEF ReaderPanics, ReaderSays, FsckSays, GuestSays, DeathsAreReal, Trouble
  <2> QED
    BY <1>4, <2>2, <2>3
<1>11. CASE ReaderRunsOut
  <2>1. out' = out /\ err' \in Seq(Line)
    BY <1>3, <1>11, SaidAppend DEF ReaderRunsOut, Complain, TypeOK
  <2>2. TypeOK'
    BY <1>2, <1>3, <1>11, <2>1 DEF ReaderRunsOut, TypeOK
  <2>3. ReaderSays' /\ FsckSays' /\ GuestSays' /\ DeathsAreReal'
    BY <1>1, <1>2, <1>5, <1>11, <2>1
       DEF ReaderRunsOut, ReaderSays, FsckSays, GuestSays, DeathsAreReal, Trouble
  <2> QED
    BY <1>4, <2>2, <2>3
<1> QED
  BY <1>6, <1>7, <1>8, <1>9, <1>10, <1>11 DEF Reader

LEMMA FsckKeeps ==
  ASSUME ProgramInv, Fsck
  PROVE  ProgramInv'
<1> USE DEF ProgramInv, Working, supervisorVars, Know, End
<1>1. profile = "fsck" /\ at = "begin" /\ status = "none" /\ death = "none"
  BY DEF Fsck, FsckPrints, FsckEnds, DeathsAreReal
<1>2. UNCHANGED <<profile, errors, out, supervisorVars>>
  BY DEF Fsck, FsckPrints, FsckEnds, Complain
<1>3. StatusIsReal'
  BY <1>1, <1>2 DEF StatusIsReal, Signal
<1>4. CASE FsckPrints
  <2>1. PICK line \in {"noise", "corrupt", "unsupported", "exhausted"} :
          /\ Complain(line)
          /\ truth' = truth \cup CASE line = "exhausted" -> {"exhausted"}
                                   [] line \in {"corrupt", "unsupported"} -> {"refused"}
                                   [] OTHER -> {}
    BY <1>4 DEF FsckPrints
  <2>2. truth' \in {truth, truth \cup {"exhausted"}, truth \cup {"refused"}}
    BY <2>1
  <2>3. err' \in Seq(Line)
    BY <2>1, SaidAppend DEF Complain, Line, TypeOK
  <2>4. TypeOK'
    BY <1>2, <1>4, <2>2, <2>3 DEF FsckPrints, TypeOK, Truth
  <2>5. ReaderSays' /\ FsckSays' /\ GuestSays' /\ DeathsAreReal'
    BY <1>1, <1>2, <1>4, <2>2
       DEF FsckPrints, ReaderSays, FsckSays, GuestSays, DeathsAreReal, Trouble
  <2> QED
    BY <1>3, <2>4, <2>5
<1>5. CASE FsckEnds
  <2>1. TypeOK'
    BY <1>2, <1>5 DEF FsckEnds, TypeOK, Death, Truth
  <2>2. ReaderSays' /\ FsckSays' /\ GuestSays' /\ DeathsAreReal'
    BY <1>1, <1>2, <1>5 DEF FsckEnds, ReaderSays, FsckSays, GuestSays, DeathsAreReal, Trouble
  <2> QED
    BY <1>3, <2>1, <2>2
<1> QED
  BY <1>4, <1>5 DEF Fsck

LEMMA GuestPrints ==
  ASSUME TypeOK, NEW line \in Line, InitPrints(line)
  PROVE  /\ out' \in Seq(Line) /\ err' \in Seq(Line)
         /\ \A x : Said(out', x) => Said(out, x) \/ x = line \/ x = "noise"
         /\ \A x : Said(out, x) => Said(out', x)
         /\ line # "danger" => (Said(out', "danger") <=> Said(out, "danger"))
<1>1. PICK seen \in {line, "noise"} : Say(seen)
  BY DEF InitPrints
<1>2. seen \in Line
  BY DEF Line
<1> QED
  BY <1>1, <1>2, LineAdded

(* A guest that mounts, goes through the image and powers off.             *)
LEMMA InitKeeps ==
  ASSUME ProgramInv, MountFails \/ Mounts \/ TraverseError \/ TraverseEnds
                       \/ TraverseAccepted \/ PowerOff
  PROVE  ProgramInv'
<1> USE DEF ProgramInv, Working, supervisorVars, Know, End
<1>1. /\ profile = "linux" /\ status = "none"
      /\ at \in {"begin", "work", "summary", "off"} /\ death = "none"
  BY DEF MountFails, Mounts, TraverseError, TraverseEnds, TraverseAccepted, PowerOff,
         DeathsAreReal
<1>2. UNCHANGED <<profile, supervisorVars>>
  BY DEF MountFails, Mounts, TraverseError, TraverseEnds, TraverseAccepted, PowerOff
<1>3. /\ {"noise", "mount_accepted", "mount_rejected", "rejected", "resource", "complete"}
           \subseteq Line
      /\ {"clean", "refused", "limited"} \subseteq Truth
      /\ {"none", "exit0"} \subseteq Death
  BY DEF Line, Truth, Death
<1>4. StatusIsReal'
  BY <1>1, <1>2 DEF StatusIsReal, Signal
<1>5. \A e \in {"event_complete", "event_rejected", "event_panic"} : ~Said(out, e)
  BY <1>1 DEF ReaderSays
<1>6. CASE MountFails
  <2>1. /\ out' \in Seq(Line) /\ err' \in Seq(Line)
        /\ \A x : Said(out', x) => Said(out, x) \/ x = "mount_rejected" \/ x = "noise"
        /\ Said(out', "danger") <=> Said(out, "danger")
    BY <1>3, <1>6, GuestPrints DEF MountFails
  <2>2. TypeOK'
    BY <1>2, <1>3, <1>6, <2>1 DEF MountFails, TypeOK
  <2>3. ReaderSays' /\ FsckSays' /\ DeathsAreReal'
    BY <1>1, <1>2, <1>5, <1>6, <2>1 DEF MountFails, ReaderSays, FsckSays, DeathsAreReal
  <2>4. GuestSays'
    BY <1>1, <1>2, <1>6, <2>1 DEF MountFails, GuestSays, Trouble
  <2> QED
    BY <1>4, <2>2, <2>3, <2>4
<1>7. CASE Mounts
  <2>1. /\ out' \in Seq(Line) /\ err' \in Seq(Line)
        /\ \A x : Said(out', x) => Said(out, x) \/ x = "mount_accepted" \/ x = "noise"
        /\ Said(out', "danger") <=> Said(out, "danger")
    BY <1>3, <1>7, GuestPrints DEF Mounts
  <2>2. TypeOK'
    BY <1>2, <1>3, <1>7, <2>1 DEF Mounts, TypeOK
  <2>3. ReaderSays' /\ FsckSays' /\ DeathsAreReal'
    BY <1>1, <1>2, <1>5, <1>7, <2>1 DEF Mounts, ReaderSays, FsckSays, DeathsAreReal
  <2>4. GuestSays'
    BY <1>1, <1>2, <1>7, <2>1 DEF Mounts, GuestSays, Trouble
  <2> QED
    BY <1>4, <2>2, <2>3, <2>4
<1>8. CASE TraverseError
  <2>1. PICK line \in {"rejected", "resource"} :
          /\ InitPrints(line)
          /\ truth' = truth \cup {IF line = "rejected" THEN "refused" ELSE "limited"}
    BY <1>8 DEF TraverseError
  <2>2. /\ out' \in Seq(Line) /\ err' \in Seq(Line)
        /\ \A x : Said(out', x) => Said(out, x) \/ x = line \/ x = "noise"
        /\ Said(out', "danger") <=> Said(out, "danger")
    BY <1>3, <2>1, GuestPrints
  <2>3. errors' \in 0..MaxErrors /\ errors' # 0
    BY <1>8, VerdictAssumption DEF VerdictAssumption, TraverseError, TypeOK
  <2>4. TypeOK'
    BY <1>2, <1>3, <1>8, <2>1, <2>2, <2>3 DEF TraverseError, TypeOK
  <2>5. ReaderSays' /\ FsckSays' /\ DeathsAreReal'
    BY <1>1, <1>2, <1>5, <1>8, <2>1, <2>2
       DEF TraverseError, ReaderSays, FsckSays, DeathsAreReal
  <2>6. GuestSays'
    BY <1>1, <1>2, <1>8, <2>1, <2>2, <2>3 DEF TraverseError, GuestSays, Trouble
  <2> QED
    BY <1>4, <2>4, <2>5, <2>6
<1>9. CASE TraverseEnds
  <2>1. errors > 0 <=> errors # 0
    BY VerdictAssumption DEF VerdictAssumption, TypeOK
  <2>2. /\ out' \in Seq(Line) /\ err' \in Seq(Line)
        /\ \A x : Said(out', x) => Said(out, x) \/ x = "noise" \/ (errors # 0 /\ x = "rejected")
        /\ Said(out', "danger") <=> Said(out, "danger")
    BY <1>3, <1>9, <2>1, GuestPrints DEF TraverseEnds
  <2>3. truth' = IF errors # 0 THEN truth ELSE truth \cup {"clean"}
    BY <1>9, <2>1 DEF TraverseEnds
  <2>4. TypeOK'
    BY <1>2, <1>3, <1>9, <2>2, <2>3 DEF TraverseEnds, TypeOK
  <2>5. ReaderSays' /\ FsckSays' /\ DeathsAreReal'
    BY <1>1, <1>2, <1>5, <1>9, <2>2, <2>3 DEF TraverseEnds, ReaderSays, FsckSays, DeathsAreReal
  <2>6. GuestSays'
    BY <1>1, <1>2, <1>9, <2>2, <2>3 DEF TraverseEnds, GuestSays, Trouble
  <2> QED
    BY <1>4, <2>4, <2>5, <2>6
<1>10. CASE TraverseAccepted
  <2>1. errors > 0 <=> errors # 0
    BY VerdictAssumption DEF VerdictAssumption, TypeOK
  <2>2. /\ out' \in Seq(Line) /\ err' \in Seq(Line)
        /\ \A x : Said(out', x) => Said(out, x) \/ x = "noise" \/ (errors = 0 /\ x = "complete")
        /\ Said(out', "danger") <=> Said(out, "danger")
    BY <1>3, <1>10, <2>1, GuestPrints DEF TraverseAccepted, TypeOK
  <2>3. TypeOK'
    BY <1>2, <1>3, <1>10, <2>2 DEF TraverseAccepted, TypeOK
  <2>4. ReaderSays' /\ FsckSays' /\ DeathsAreReal'
    BY <1>1, <1>2, <1>5, <1>10, <2>2 DEF TraverseAccepted, ReaderSays, FsckSays, DeathsAreReal
  <2>5. GuestSays'
    BY <1>1, <1>2, <1>10, <2>2 DEF TraverseAccepted, GuestSays, Trouble
  <2> QED
    BY <1>4, <2>3, <2>4, <2>5
<1>11. CASE PowerOff
  <2>1. TypeOK'
    BY <1>2, <1>3, <1>11 DEF PowerOff, TypeOK
  <2>2. ReaderSays' /\ FsckSays' /\ DeathsAreReal'
    BY <1>1, <1>2, <1>5, <1>11 DEF PowerOff, ReaderSays, FsckSays, DeathsAreReal
  <2>3. GuestSays'
    BY <1>1, <1>2, <1>11 DEF PowerOff, GuestSays, Trouble
  <2> QED
    BY <1>4, <2>1, <2>2, <2>3
<1> QED
  BY <1>6, <1>7, <1>8, <1>9, <1>10, <1>11

(* A kernel that prints, whatever the init is doing.                       *)
LEMMA KernelKeeps ==
  ASSUME ProgramInv, KernelNoise \/ KernelDanger
  PROVE  ProgramInv'
<1> USE DEF ProgramInv, supervisorVars, Know, End
<1>1. profile = "linux" /\ status = "none" /\ death = "none" /\ at # "over"
  BY DEF KernelNoise, KernelDanger, DeathsAreReal
<1>2. UNCHANGED <<profile, errors, supervisorVars>>
  BY DEF KernelNoise, KernelDanger
<1>3. {"noise", "danger"} \subseteq Line /\ "danger" \in Truth /\ "exit0" \in Death
  BY DEF Line, Truth, Death
<1>4. StatusIsReal'
  BY <1>1, <1>2 DEF StatusIsReal, Signal
<1>5. CASE KernelNoise
  <2>1. /\ out' \in Seq(Line) /\ err' \in Seq(Line)
        /\ \A x : Said(out', x) <=> Said(out, x) \/ x = "noise"
    BY <1>3, <1>5, LineAdded DEF KernelNoise
  <2>2. TypeOK'
    BY <1>2, <1>5, <2>1 DEF KernelNoise, TypeOK
  <2>3. ReaderSays' /\ FsckSays' /\ GuestSays' /\ DeathsAreReal'
    BY <1>1, <1>2, <1>5, <2>1
       DEF KernelNoise, ReaderSays, FsckSays, GuestSays, DeathsAreReal, Trouble
  <2> QED
    BY <1>4, <2>2, <2>3
<1>6. CASE KernelDanger
  <2>1. /\ out' \in Seq(Line) /\ err' \in Seq(Line)
        /\ \A x : Said(out', x) <=> Said(out, x) \/ x = "danger"
    BY <1>3, <1>6, LineAdded DEF KernelDanger
  <2>2. truth' = truth \cup {"danger"} /\ Trouble' = Trouble
    BY <1>6 DEF KernelDanger, Trouble
  <2>3. /\ at' \in {at, "over"} /\ death' \in {"none", "exit0"}
        /\ death' # "none" <=> at' = "over"
    BY <1>1, <1>6 DEF KernelDanger
  <2>4. TypeOK'
    BY <1>2, <1>3, <2>1, <2>2, <2>3 DEF TypeOK, Death
  <2>5. ReaderSays' /\ FsckSays' /\ DeathsAreReal'
    BY <1>1, <1>2, <2>1, <2>2, <2>3 DEF ReaderSays, FsckSays, DeathsAreReal
  <2>6. GuestSays'
    BY <1>1, <1>2, <2>1, <2>2, <2>3 DEF GuestSays
  <2> QED
    BY <1>4, <2>4, <2>5, <2>6
<1> QED
  BY <1>5, <1>6

(* Any program may fault or die at a limit.                                *)
LEMMA DeathKeeps ==
  ASSUME ProgramInv, Faults \/ HitsLimit
  PROVE  ProgramInv'
<1> USE DEF ProgramInv, supervisorVars, Know, End, Faults, HitsLimit
<1>1. death = "none" /\ at # "over" /\ status = "none" /\ at' = "over"
  BY DEF DeathsAreReal
<1>2. UNCHANGED <<profile, errors, out, err, supervisorVars>>
  OBVIOUS
<1>3. PICK fact \in {"faulted", "exhausted"} :
        /\ truth' = truth \cup {fact}
        /\ death' = IF fact = "faulted" THEN "fault" ELSE "kill"
  OBVIOUS
<1>4. Trouble' = Trouble
  BY <1>3 DEF Trouble
<1>5. TypeOK'
  BY <1>1, <1>2, <1>3 DEF TypeOK, Death, Truth
<1>6. StatusIsReal'
  BY <1>1, <1>2 DEF StatusIsReal, Signal
<1>7. ReaderSays' /\ FsckSays' /\ DeathsAreReal'
  BY <1>1, <1>2, <1>3 DEF ReaderSays, FsckSays, DeathsAreReal
<1>8. GuestSays'
  BY <1>1, <1>2, <1>3, <1>4 DEF GuestSays
<1> QED
  BY <1>5, <1>6, <1>7, <1>8

(* The wrapper turns a death into a status; the supervisor kills.          *)
LEMMA WrapperKeeps ==
  ASSUME ProgramInv, WrapperEnds \/ SupervisorKills
  PROVE  ProgramInv'
<1> USE DEF ProgramInv
<1>1. UNCHANGED <<profile, at, errors, out, death, truth, verdict>> /\ status = "none"
  BY DEF WrapperEnds, SupervisorKills
<1>2. err' \in Seq(Line)
  BY SaidAppend DEF WrapperEnds, SupervisorKills, TypeOK, Line
<1>3. status' \in {"success", "failure", "SIGSEGV", "SIGKILL"}
  BY DEF WrapperEnds, SupervisorKills, TypeOK, Death
<1>4. timedOut' \in BOOLEAN /\ cancelled' \in BOOLEAN
  BY DEF WrapperEnds, SupervisorKills, TypeOK
<1>5. TypeOK'
  BY <1>1, <1>2, <1>3, <1>4 DEF TypeOK, Signal
<1>6. ReaderSays' /\ FsckSays' /\ GuestSays' /\ DeathsAreReal'
  BY <1>1 DEF ReaderSays, FsckSays, GuestSays, DeathsAreReal, Trouble
<1>7. StatusIsReal'
  <2>1. CASE WrapperEnds
    BY <1>1, <1>3, <2>1 DEF WrapperEnds, StatusIsReal, Signal, TypeOK, Death
  <2>2. CASE SupervisorKills
    BY <1>1, <2>2 DEF SupervisorKills, StatusIsReal
  <2> QED
    BY <2>1, <2>2
<1> QED
  BY <1>5, <1>6, <1>7

-----------------------------------------------------------------------------
(* What a verdict tells of its run.                                        *)

DiedOfSignal == status \in Signal /\ ~cancelled /\ ~timedOut

LEMMA RustVerdict ==
  /\ ClassifyRust.status \in OracleStatus
  /\ ClassifyRust.status = "accepted" => Shows(out, {"event_complete"})
  /\ ClassifyRust.status = "rejected" => Shows(out, {"event_rejected"})
  /\ ClassifyRust.status = "crashed" =>
       ~cancelled /\ ~timedOut /\ (Shows(out, {"event_panic"}) \/ DiedOfSignal)
  /\ ~cancelled /\ ~timedOut /\ Shows(out, {"event_panic"}) =>
       ClassifyRust = [status |-> "crashed", signature |-> "rust:panic"]
<1>1. DOMAIN RustRules = 1..10 /\ RustRules[10].when
  BY DEF RustRules, Rule
<1>2. PICK i \in 1..10 : /\ RustRules[i].when
                         /\ ClassifyRust = RustRules[i].verdict
                         /\ \A j \in 1..10 : j < i => ~RustRules[j].when
  BY <1>1, FirstApplies DEF ClassifyRust
<1>3. i \in {1, 2, 3, 4, 5, 6, 7, 8, 9, 10}
  OBVIOUS
<1> QED
  BY <1>2, <1>3 DEF RustRules, Rule, OracleStatus, DiedOfSignal

LEMMA FsckVerdict ==
  /\ ClassifyFsck.status \in OracleStatus
  /\ ClassifyFsck.status = "accepted" => status = "success"
  /\ ClassifyFsck.status = "crashed" => DiedOfSignal
<1>1. DOMAIN FsckRules = 1..9 /\ FsckRules[9].when
  BY DEF FsckRules, Rule
<1>2. PICK i \in 1..9 : /\ FsckRules[i].when
                        /\ ClassifyFsck = FsckRules[i].verdict
                        /\ \A j \in 1..9 : j < i => ~FsckRules[j].when
  BY <1>1, FirstApplies DEF ClassifyFsck
<1>3. i \in {1, 2, 3, 4, 5, 6, 7, 8, 9}
  OBVIOUS
<1>4. ClassifyFsck.status \in OracleStatus
  BY <1>2, <1>3 DEF FsckRules, Rule, OracleStatus
<1>5. ClassifyFsck.status = "accepted" => i = 5
  BY <1>2, <1>3 DEF FsckRules, Rule
<1>6. ClassifyFsck.status = "crashed" => i = 4
  BY <1>2, <1>3 DEF FsckRules, Rule
<1>7. i = 5 => status = "success"
  <2>1. FsckRules[5] = Rule(status = "success", "accepted", "fsck:clean")
    BY DEF FsckRules
  <2>2. Rule(status = "success", "accepted", "fsck:clean").when = (status = "success")
    BY Zenon DEF Rule
  <2> QED
    BY <1>2, <2>1, <2>2, Zenon
<1>8. i = 4 => DiedOfSignal
  BY <1>2 DEF FsckRules, Rule, DiedOfSignal
<1> QED
  BY <1>4, <1>5, <1>6, <1>7, <1>8

LEMMA QemuVerdict ==
  /\ ClassifyQemu.status \in OracleStatus
  /\ ClassifyQemu.status = "accepted" => Shows(out, {"complete"})
  /\ ClassifyQemu.status = "rejected" =>
       Shows(out, {"mount_rejected"}) \/ Shows(out, {"rejected"})
  /\ ClassifyQemu.status = "crashed" =>
       ~cancelled /\ (Shows(out, {"danger"}) \/ DiedOfSignal)
  /\ ~cancelled /\ Shows(out, {"danger"}) => ClassifyQemu.status = "crashed"
<1>1. DOMAIN QemuRules = 1..10 /\ QemuRules[10].when
  BY DEF QemuRules, Rule
<1>2. PICK i \in 1..10 : /\ QemuRules[i].when
                         /\ ClassifyQemu = QemuRules[i].verdict
                         /\ \A j \in 1..10 : j < i => ~QemuRules[j].when
  BY <1>1, FirstApplies DEF ClassifyQemu
<1>3. i \in {1, 2, 3, 4, 5, 6, 7, 8, 9, 10}
  OBVIOUS
<1> QED
  BY <1>2, <1>3 DEF QemuRules, Rule, OracleStatus, DiedOfSignal

-----------------------------------------------------------------------------
(* The invariant.                                                          *)

VerdictInv ==
  /\ ProgramInv
  /\ profile \in {"rust", "fsck", "linux"}
  /\ AcceptanceIsEarned
  /\ PanicIsOneCrash
  /\ SupervisorKillIsNoCrash
  /\ RejectionIsReal
  /\ DangerInTheLogWins

(* As long as nothing is judged there is nothing to be wrong about.        *)
LEMMA UnjudgedKeeps ==
  ASSUME verdict = NoVerdict
  PROVE  /\ AcceptanceIsEarned
         /\ PanicIsOneCrash
         /\ SupervisorKillIsNoCrash
         /\ RejectionIsReal
         /\ DangerInTheLogWins
  BY DEF AcceptanceIsEarned, PanicIsOneCrash, SupervisorKillIsNoCrash, RejectionIsReal,
         DangerInTheLogWins, Judged, NoVerdict

LEMMA ClassifyKeeps ==
  ASSUME VerdictInv, Classify
  PROVE  VerdictInv'
<1> USE DEF VerdictInv, ProgramInv
<1>1. UNCHANGED <<profile, at, errors, out, err, death, status, timedOut, cancelled, truth>>
  BY DEF Classify
<1>2. out \in Seq(Line) /\ status # "none"
  BY DEF TypeOK, Classify
<1>3. /\ verdict'.status \in OracleStatus
      /\ verdict'.status = "accepted" => "clean" \in truth /\ Trouble = {}
      /\ verdict'.status = "rejected" /\ profile # "fsck" => Trouble # {}
      /\ verdict'.status = "crashed" =>
           /\ ~cancelled
           /\ timedOut => "danger" \in truth
           /\ truth \cap {"danger", "panicked", "faulted"} # {} \/ DiedAtLimit
      /\ "panicked" \in truth /\ Whole(out) /\ ~cancelled /\ ~timedOut =>
           verdict' = [status |-> "crashed", signature |-> "rust:panic"]
      /\ "danger" \in truth /\ Whole(out) /\ ~cancelled => verdict'.status = "crashed"
  <2>1. DiedOfSignal => /\ ~cancelled /\ ~timedOut
                        /\ truth \cap {"panicked", "faulted"} # {} \/ DiedAtLimit
    BY DEF DiedOfSignal, StatusIsReal, DeathsAreReal, DiedAtLimit
  <2>2. \A line : Shows(out, {line}) => Said(out, line)
    BY <1>2, ShownIsSaid
  <2>3. \A line : Whole(out) /\ Said(out, line) => Shows(out, {line})
    BY <1>2, WholeIsShown
  <2>4. CASE profile = "rust"
    <3>1. verdict' = ClassifyRust
      BY <2>4 DEF Classify
    <3>2. "danger" \notin truth
      BY <2>4 DEF GuestSays
    <3> QED
      BY <2>1, <2>2, <2>3, <3>1, <3>2, RustVerdict DEF ReaderSays, Trouble
  <2>5. CASE profile = "fsck"
    <3>1. verdict' = ClassifyFsck
      BY <2>5 DEF Classify
    <3>2. "danger" \notin truth /\ "panicked" \notin truth
      BY <2>5 DEF GuestSays, ReaderSays
    <3>3. status = "success" => truth = {"clean"}
      BY <2>5 DEF StatusIsReal, FsckSays
    <3> QED
      BY <2>1, <2>5, <3>1, <3>2, <3>3, FsckVerdict DEF Trouble
  <2>6. CASE profile = "linux"
    <3>1. verdict' = ClassifyQemu
      BY <2>6 DEF Classify
    <3>2. "panicked" \notin truth
      BY <2>6 DEF ReaderSays
    <3> QED
      BY <2>1, <2>2, <2>3, <3>1, <3>2, QemuVerdict DEF GuestSays, Trouble
  <2> QED
    BY <2>4, <2>5, <2>6
<1>4. TypeOK'
  BY <1>1, <1>3 DEF TypeOK
<1>5. ReaderSays' /\ FsckSays' /\ GuestSays' /\ DeathsAreReal' /\ StatusIsReal'
  BY <1>1, <1>2 DEF ReaderSays, FsckSays, GuestSays, DeathsAreReal, StatusIsReal, Trouble
<1>6. AcceptanceIsEarned' /\ RejectionIsReal' /\ SupervisorKillIsNoCrash'
  BY <1>1, <1>3
     DEF AcceptanceIsEarned, RejectionIsReal, SupervisorKillIsNoCrash, DiedAtLimit, Trouble
<1>7. PanicIsOneCrash' /\ DangerInTheLogWins'
  BY <1>1, <1>3 DEF PanicIsOneCrash, DangerInTheLogWins, Whole
<1> QED
  BY <1>1, <1>4, <1>5, <1>6, <1>7

LEMMA InvInductive == VerdictInv /\ [Next]_vars => VerdictInv'
<1> SUFFICES ASSUME VerdictInv, [Next]_vars
             PROVE  VerdictInv'
  OBVIOUS
<1>1. CASE Reader \/ Fsck \/ Guest \/ Faults \/ HitsLimit \/ WrapperEnds \/ SupervisorKills
  <2>1. ProgramInv'
    BY <1>1, ReaderKeeps, FsckKeeps, InitKeeps, KernelKeeps, DeathKeeps, WrapperKeeps
       DEF VerdictInv, Guest
  <2>2. status = "none" /\ UNCHANGED <<profile, verdict>>
    BY <1>1
       DEF Reader, ReaderStarts, ReaderAccepts, ReaderRefuses, ReaderStopsAtBudget,
           ReaderPanics, ReaderRunsOut, Fsck, FsckPrints, FsckEnds, Guest, MountFails, Mounts,
           TraverseError, TraverseEnds, TraverseAccepted, PowerOff, KernelNoise, KernelDanger,
           Faults, HitsLimit, WrapperEnds, SupervisorKills, Working, supervisorVars
  <2>3. verdict' = NoVerdict
    BY <2>2 DEF VerdictInv, ProgramInv, StatusIsReal
  <2>4. /\ AcceptanceIsEarned' /\ PanicIsOneCrash' /\ SupervisorKillIsNoCrash'
        /\ RejectionIsReal' /\ DangerInTheLogWins'
    BY <2>3 DEF AcceptanceIsEarned, PanicIsOneCrash, SupervisorKillIsNoCrash,
                RejectionIsReal, DangerInTheLogWins, Judged, NoVerdict
  <2> QED
    BY <2>1, <2>2, <2>4 DEF VerdictInv
<1>2. CASE Classify
  BY <1>2, ClassifyKeeps
<1>3. CASE UNCHANGED vars
  BY <1>3
     DEF vars, VerdictInv, ProgramInv, TypeOK, ReaderSays, FsckSays, GuestSays,
         DeathsAreReal, StatusIsReal, Trouble, AcceptanceIsEarned, PanicIsOneCrash,
         SupervisorKillIsNoCrash, DiedAtLimit, RejectionIsReal, DangerInTheLogWins, Judged,
         Whole
<1> QED
  BY <1>1, <1>2, <1>3 DEF Next, Terminated

LEMMA InvInit == Init => VerdictInv
<1> SUFFICES ASSUME Init
             PROVE  VerdictInv
  OBVIOUS
<1>1. profile \in {"rust", "fsck", "linux"}
  BY VerdictAssumption DEF VerdictAssumption, Init
<1>2. verdict = NoVerdict
  BY DEF Init
<1> QED
  BY <1>1, <1>2, ProgramInit, UnjudgedKeeps DEF VerdictInv

LEMMA SpecInv == Spec => []VerdictInv
  BY InvInit, InvInductive, PTL DEF Spec

-----------------------------------------------------------------------------
(* Theorems.                                                               *)

(* Every variable of a run and of its judgement keeps its type.            *)
THEOREM TypesHold == Spec => []TypeOK
<1>1. VerdictInv => TypeOK
  BY DEF VerdictInv, ProgramInv
<1> QED
  BY <1>1, SpecInv, PTL

(* The classifiers accept nothing but an image that was gone through       *)
(* without an error, however little of the logs was retained, and          *)
(* classify_rust and classify_qemu reject only what was not gone through.  *)
THEOREM VerdictEarned == Spec => []VerdictIsEarned
<1>1. VerdictInv => VerdictIsEarned
  BY DEF VerdictInv, VerdictIsEarned
<1> QED
  BY <1>1, SpecInv, PTL

(* A retained panic event makes one crash under one signature.             *)
THEOREM PanicOneCrash == Spec => []PanicIsOneCrash
<1>1. VerdictInv => PanicIsOneCrash
  BY DEF VerdictInv
<1> QED
  BY <1>1, SpecInv, PTL

(* No kill of the supervisor is classified as a crash: what is has ended   *)
(* by itself, at a limit of its own if not by a panic or a fault.          *)
THEOREM KillNoCrash == Spec => []SupervisorKillIsNoCrash
<1>1. VerdictInv => SupervisorKillIsNoCrash
  BY DEF VerdictInv
<1> QED
  BY <1>1, SpecInv, PTL

(* A retained kernel report is a crash unless the run was cancelled.       *)
THEOREM DangerWins == Spec => []DangerInTheLogWins
<1>1. VerdictInv => DangerInTheLogWins
  BY DEF VerdictInv
<1> QED
  BY <1>1, SpecInv, PTL

(* Retained panics and kernel reports are crashes, kills by the supervisor *)
(* are none.                                                               *)
THEOREM CrashesTold == Spec => []CrashesAreTold
  BY PanicOneCrash, KillNoCrash, DangerWins, PTL DEF CrashesAreTold
=============================================================================
