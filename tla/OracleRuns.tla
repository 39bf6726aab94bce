------------------------------ MODULE OracleRuns ------------------------------
(***************************************************************************)
(* The run directory of a corpus:                                          *)
(*   erofs-lab/src/oracle.rs, run_oracle_inner, StageGuard and             *)
(*   sweep_stale_stages.                                                   *)
(*                                                                         *)
(* A process executes oracle runs one after the other.  Each run begins by *)
(* sweeping the stages of processes that no longer exist, works in a stage *)
(* named after the time and its pid, and renames it when the record is     *)
(* written.  Processes come and go, and pids are reused.                   *)
(***************************************************************************)
EXTENDS Naturals, FiniteSets

CONSTANTS
  Process,   \* incarnations: a process that ends never comes back
  Pid,       \* process ids, reused but never by two live processes
  MaxRuns    \* bound on the oracle runs of a behaviour

ASSUME OracleRunsAssumption == MaxRuns \in Nat

(* The nanosecond clock names the attempts; it is never read twice with    *)
(* the same result, so the n-th attempt of a behaviour has time n.         *)
Name == [time : 0..MaxRuns, pid : Pid]

Artifacts == {"empty", "logs", "record"}

VARIABLES
  pid,       \* pids of the processes
  pc,        \* what each is doing
  attempt,   \* the name of its current attempt
  listed,    \* stages its sweep has listed and not looked at yet
  doomed,    \* stages its sweep has found dead
  clock,     \* attempts named so far
  stages,    \* stages[n]: what the stage n holds
  records,   \* the published runs
  returned   \* history: the attempts whose verdict was returned to the caller

runVars == <<pid, pc, attempt, listed, doomed, clock, stages, records, returned>>

Control == {"unborn", "ready", "sweep", "run", "write", "rename", "sync", "dead"}

Alive(p) == pc[p] \notin {"unborn", "dead"}

RunsTypeOK ==
  /\ pid \in [Process -> Pid]
  /\ pc \in [Process -> Control]
  /\ attempt \in [Process -> Name]
  /\ listed \in [Process -> SUBSET Name]
  /\ doomed \in [Process -> SUBSET Name]
  /\ clock \in 0..MaxRuns
  /\ DOMAIN stages \subseteq Name
  /\ \A n \in DOMAIN stages : stages[n] \in Artifacts
  /\ records \subseteq Name
  /\ returned \subseteq Name

RunsInit ==
  /\ pid \in [Process -> Pid]
  /\ pc = [p \in Process |-> "unborn"]
  /\ attempt = [p \in Process |-> [time |-> 0, pid |-> pid[p]]]
  /\ listed = [p \in Process |-> {}]
  /\ doomed = [p \in Process |-> {}]
  /\ clock = 0
  /\ stages = <<>>
  /\ records = {}
  /\ returned = {}

Goto(p, from, to) == pc[p] = from /\ pc' = [pc EXCEPT ![p] = to]

Unlink(names) == stages' = [n \in DOMAIN stages \ names |-> stages[n]]

Put(n, artifacts) ==
  stages' = [m \in DOMAIN stages \cup {n} |-> IF m = n THEN artifacts ELSE stages[m]]

-----------------------------------------------------------------------------
(* read_dir of the run directories.                                        *)
BeginRun(p) ==
  /\ Goto(p, "ready", "sweep")
  /\ clock < MaxRuns
  /\ listed' = [listed EXCEPT ![p] = DOMAIN stages]
  /\ UNCHANGED <<pid, attempt, doomed, clock, stages, records, returned>>

PidExists(i) == \E q \in Process : Alive(q) /\ pid[q] = i

(* One listed stage is looked at: /proc/<pid> decides.                     *)
Examine(p) ==
  /\ pc[p] = "sweep" /\ doomed[p] = {}
  /\ \E n \in listed[p] :
       /\ listed' = [listed EXCEPT ![p] = @ \ {n}]
       /\ doomed' = [doomed EXCEPT ![p] = IF PidExists(n.pid) THEN @ ELSE @ \cup {n}]
  /\ UNCHANGED <<pid, pc, attempt, clock, stages, records, returned>>

(* Some time later the dead one is removed, whatever it is by then.        *)
SweepOne(p) ==
  /\ pc[p] = "sweep"
  /\ \E n \in doomed[p] :
       /\ doomed' = [doomed EXCEPT ![p] = @ \ {n}]
       /\ Unlink({n})
  /\ UNCHANGED <<pid, pc, attempt, listed, clock, records, returned>>

(* Mutant: the stage is named after the pid only.                          *)
NewNameOfPid(p) == [time |-> 1, pid |-> pid[p]]

NewName(p) == [time |-> clock + 1, pid |-> pid[p]]

CreateStage(p) ==
  /\ Goto(p, "sweep", "run")
  /\ listed[p] = {} /\ doomed[p] = {}
  /\ clock < MaxRuns
  /\ clock' = clock + 1
  /\ attempt' = [attempt EXCEPT ![p] = NewName(p)]
  /\ Put(NewName(p), "empty")
  /\ UNCHANGED <<pid, listed, doomed, records, returned>>

(* run_sandboxed (module Sandbox), classification, and the two logs.       *)
WriteLogs(p) ==
  /\ Goto(p, "run", "write")
  /\ attempt[p] \in DOMAIN stages
  /\ Put(attempt[p], "logs")
  /\ UNCHANGED <<pid, attempt, listed, doomed, clock, records, returned>>

WriteRecord(p) ==
  /\ Goto(p, "write", "rename")
  /\ attempt[p] \in DOMAIN stages
  /\ Put(attempt[p], "record")
  /\ UNCHANGED <<pid, attempt, listed, doomed, clock, records, returned>>

(* The rename publishes the run and the guard is defused.                  *)
PublishRun(p) ==
  /\ Goto(p, "rename", "sync")
  /\ attempt[p] \in DOMAIN stages
  /\ records' = records \cup {attempt[p]}
  /\ Unlink({attempt[p]})
  /\ UNCHANGED <<pid, attempt, listed, doomed, clock, returned>>

ReturnRun(p) ==
  /\ Goto(p, "sync", "ready")
  /\ returned' = returned \cup {attempt[p]}
  /\ UNCHANGED <<pid, attempt, listed, doomed, clock, stages, records>>

Staging == {"run", "write", "rename"}

(* Mutant: an error leaves the stage behind.                               *)
RunErrsUnguarded(p) ==
  /\ pc[p] \in Staging \cup {"sync"}
  /\ pc' = [pc EXCEPT ![p] = "ready"]
  /\ UNCHANGED <<pid, attempt, listed, doomed, clock, stages, records, returned>>

(* An error is returned with `?`: the armed guard removes the stage.       *)
RunErrs(p) ==
  /\ pc[p] \in Staging \cup {"sync"}
  /\ pc' = [pc EXCEPT ![p] = "ready"]
  /\ IF pc[p] \in Staging THEN Unlink({attempt[p]}) ELSE UNCHANGED stages
  /\ UNCHANGED <<pid, attempt, listed, doomed, clock, records, returned>>

-----------------------------------------------------------------------------
(* A process starts once, with a pid no live process has.                  *)
Spawn(p) ==
  /\ ~PidExists(pid[p])
  /\ Goto(p, "unborn", "ready")
  /\ UNCHANGED <<pid, attempt, listed, doomed, clock, stages, records, returned>>

(* It exits between runs or is killed in one, and then leaves its stage.   *)
Die(p) ==
  /\ Alive(p)
  /\ pc' = [pc EXCEPT ![p] = "dead"]
  /\ listed' = [listed EXCEPT ![p] = {}]
  /\ doomed' = [doomed EXCEPT ![p] = {}]
  /\ UNCHANGED <<pid, attempt, clock, stages, records, returned>>

Step(p) ==
  \/ BeginRun(p) \/ Examine(p) \/ SweepOne(p) \/ CreateStage(p)
  \/ WriteLogs(p) \/ WriteRecord(p) \/ PublishRun(p) \/ ReturnRun(p)
  \/ RunErrs(p)

RunsTerminated == (\A p \in Process : pc[p] = "dead") /\ UNCHANGED runVars

RunsNext == (\E p \in Process : Step(p) \/ Spawn(p) \/ Die(p)) \/ RunsTerminated

RunsSpec == RunsInit /\ [][RunsNext]_runVars

-----------------------------------------------------------------------------
(* Properties.                                                             *)

(* No sweep removes the stage of a run in progress: not one whose process  *)
(* is alive, and not one that came to exist after the sweep looked for its *)
(* process, under a pid that has been reused since.                        *)
SweepSparesTheLiving ==
  \A p \in Process : pc[p] \in Staging => attempt[p] \in DOMAIN stages

(* A verdict is returned to the campaign, which counts it, only if its run *)
(* is on record, whole.                                                    *)
ReturnedIsOnRecord == returned \subseteq records

(* A run is never lost: its stage is its owner's until it is renamed, and  *)
(* what a caller was told of stays on record.                              *)
RunsAreKept == SweepSparesTheLiving /\ ReturnedIsOnRecord

(* The only stages under the pid of a live process are that of its run in  *)
(* progress and those of earlier processes killed in the middle of one: a  *)
(* run that fails cleans up after itself.                                  *)
NoLitterFromTheLiving ==
  \A p \in Process : \A n \in DOMAIN stages :
    Alive(p) /\ n.pid = pid[p] =>
      \/ pc[p] \in Staging /\ attempt[p] = n
      \/ \E q \in Process : pc[q] = "dead" /\ attempt[q] = n
=============================================================================
