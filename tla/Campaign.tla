------------------------------ MODULE Campaign ------------------------------
(***************************************************************************)
(* Fuzzing campaigns over one corpus directory:                            *)
(*   erofs-lab/src/campaign.rs, run_campaign_with_progress_control.        *)
(*                                                                         *)
(* A campaign is one process.  It loads the shared novelty index WITHOUT   *)
(* a lock, visits the cases of its recipe in order (plan, deduplicate,     *)
(* materialize, escalate through the Rust, fsck and Linux oracles under    *)
(* the budgets), and merges what it learnt into the index at the end under *)
(* an exclusive flock.  The operator may cancel it, the wall clock may run *)
(* out, and an I/O error or a kill may end it anywhere.                    *)
(*                                                                         *)
(* What a case turns into (which plan, which verdict) is a free choice of  *)
(* the environment: recipes, images and oracle programs are arbitrary.     *)
(***************************************************************************)
EXTENDS Naturals, Sequences, FiniteSets

CONSTANTS
  Campaign,   \* campaign processes
  Sample,     \* output images, named by their SHA-256
  Plan,       \* resolved plans, named by their digest
  Output,     \* Output[p]: the image plan p produces (apply_resolved_plan)
  Verdict,    \* [status, signature] records an oracle run may end with
  Specs,      \* [funnel, maxOracleRuns] records a recipe may carry
  MaxCases,   \* bound on the number of cases of a recipe
  NoPlan, NoSample

FunnelPolicy == {"Novelty", "All", "MaterializeOnly"}

Status == {"accepted", "rejected", "crashed", "timed_out",
           "resource_exhausted", "unsupported", "harness_error", "cancelled"}

Abnormal == {"crashed", "timed_out", "resource_exhausted"}

Profile == {"rust", "fsck", "linux"}

ASSUME CampaignAssumption ==
  /\ Output \in [Plan -> Sample]
  /\ \A v \in Verdict : v.status \in Status \ {"cancelled"}
  /\ \A s \in Specs : s.funnel \in FunnelPolicy /\ s.maxOracleRuns \in Nat
  /\ MaxCases \in Nat
  /\ NoPlan \notin Plan
  /\ NoSample \notin Sample

(* ResultIdentity: what the index and the reports remember of an oracle    *)
(* run.  A run killed by cancellation has the one verdict Cancelled.       *)
Cancelled == [status |-> "cancelled", signature |-> "cancelled"]

Identity == Profile \X (Verdict \cup {Cancelled})

(* NoveltyIndex: deduplication identities, in memory and in novelty.json.  *)
NoveltyIndex ==
  [bytes : SUBSET Sample, plans : SUBSET Plan, results : SUBSET Identity]

EmptyIndex == [bytes |-> {}, plans |-> {}, results |-> {}]

(* Mutant: the bytes of the other index are forgotten.                     *)
MergeWithoutBytes(a, b) == [bytes   |-> b.bytes,
                            plans   |-> a.plans \cup b.plans,
                            results |-> a.results \cup b.results]

Merge(a, b) == [bytes   |-> a.bytes \cup b.bytes,
                plans   |-> a.plans \cup b.plans,
                results |-> a.results \cup b.results]

(* CampaignCaseReport, with sample NoSample for a planning error.          *)
CaseReport ==
  [sample : Sample \cup {NoSample}, duplicate : BOOLEAN, results : SUBSET Identity]

Control == {"start", "case", "materialize", "rust", "fsck", "linux", "push",
            "lock", "merge", "replace", "unlock", "report", "done", "failed"}

Running(p) == p \notin {"start", "done", "failed"}

VARIABLES
  (*************************** state of a process **************************)
  pc,           \* where each campaign is
  spec,         \* the spec its recipe carries
  cases,        \* how many cases its recipe has
  at,           \* how many of them it has begun
  novelty,      \* its in-memory NoveltyIndex
  current,      \* the plan of the case in hand
  results,      \* the identities recorded for the case in hand
  killed,       \* an oracle run of the case was killed by cancellation
  oracleRuns, materialized, reports, stopped,
  merged,       \* what it is about to write to novelty.json
  (************************* shared by the processes ***********************)
  index,        \* novelty.json
  flock,        \* holders of novelty.json.lock
  samples,      \* published samples
  (***************************** environment *******************************)
  request,      \* the operator has cancelled the campaign
  expired,      \* its wall time budget has run out
  (******************************* history *********************************)
  base,         \* the index as it was when the campaign loaded it
  panicked,     \* images whose materialization panicked, per campaign
  saved         \* the campaigns that have replaced novelty.json

caseVars  == <<current, results, killed>>
countVars == <<oracleRuns, materialized, reports>>
envVars   == <<request, expired>>
diskVars  == <<index, flock, samples, saved>>
setup     == <<spec, cases, base>>

vars == <<pc, spec, cases, at, novelty, current, results, killed, oracleRuns,
          materialized, reports, stopped, merged, index, flock, samples,
          request, expired, base, panicked, saved>>

TypeOK ==
  /\ pc \in [Campaign -> Control]
  /\ spec \in [Campaign -> Specs]
  /\ cases \in [Campaign -> 0..MaxCases]
  /\ at \in [Campaign -> 0..MaxCases]
  /\ novelty \in [Campaign -> NoveltyIndex]
  /\ current \in [Campaign -> Plan \cup {NoPlan}]
  /\ results \in [Campaign -> SUBSET Identity]
  /\ killed \in [Campaign -> BOOLEAN]
  /\ oracleRuns \in [Campaign -> Nat]
  /\ materialized \in [Campaign -> Nat]
  /\ reports \in [Campaign -> Seq(CaseReport)]
  /\ stopped \in [Campaign -> {"completed", "cancelled", "wall_time", "oracle_budget"}]
  /\ merged \in [Campaign -> NoveltyIndex]
  /\ index \in NoveltyIndex
  /\ flock \subseteq Campaign
  /\ samples \subseteq Sample
  /\ request \in [Campaign -> BOOLEAN]
  /\ expired \in [Campaign -> BOOLEAN]
  /\ base \in [Campaign -> NoveltyIndex]
  /\ panicked \in [Campaign -> SUBSET Sample]
  /\ saved \subseteq Campaign

Init ==
  /\ pc = [c \in Campaign |-> "start"]
  /\ spec \in [Campaign -> Specs]
  /\ cases \in [Campaign -> 0..MaxCases]
  /\ at = [c \in Campaign |-> 0]
  /\ novelty = [c \in Campaign |-> EmptyIndex]
  /\ current = [c \in Campaign |-> NoPlan]
  /\ results = [c \in Campaign |-> {}]
  /\ killed = [c \in Campaign |-> FALSE]
  /\ oracleRuns = [c \in Campaign |-> 0]
  /\ materialized = [c \in Campaign |-> 0]
  /\ reports = [c \in Campaign |-> <<>>]
  /\ stopped = [c \in Campaign |-> "completed"]
  /\ merged = [c \in Campaign |-> EmptyIndex]
  /\ index = EmptyIndex
  /\ flock = {}
  /\ samples = {}
  /\ request = [c \in Campaign |-> FALSE]
  /\ expired = [c \in Campaign |-> FALSE]
  /\ base = [c \in Campaign |-> EmptyIndex]
  /\ panicked = [c \in Campaign |-> {}]
  /\ saved = {}

Goto(c, from, to) == pc[c] = from /\ pc' = [pc EXCEPT ![c] = to]

(* load_novelty, before the first case and without the lock.               *)
Load(c) ==
  /\ Goto(c, "start", "case")
  /\ novelty' = [novelty EXCEPT ![c] = index]
  /\ base' = [base EXCEPT ![c] = index]
  /\ UNCHANGED <<spec, cases, at, stopped, merged, panicked>>
  /\ UNCHANGED <<caseVars, countVars, diskVars, envVars>>

-----------------------------------------------------------------------------
(* The case loop: planning and deduplication.                              *)

Report(c, sample, duplicate, found) ==
  reports' = [reports EXCEPT ![c] =
    Append(@, [sample |-> sample, duplicate |-> duplicate, results |-> found])]

(* The recipe is exhausted: the loop ends with reason "completed".         *)
Exhaust(c) ==
  /\ at[c] = cases[c]
  /\ Goto(c, "case", "lock")
  /\ UNCHANGED <<setup, at, novelty, stopped, merged, panicked>>
  /\ UNCHANGED <<caseVars, countVars, diskVars, envVars>>

(* The checks at the head of the loop, cancellation first.                 *)
StopBeforeCase(c) ==
  /\ at[c] < cases[c]
  /\ request[c] \/ expired[c]
  /\ Goto(c, "case", "lock")
  /\ stopped' = [stopped EXCEPT ![c] = IF request[c] THEN "cancelled" ELSE "wall_time"]
  /\ UNCHANGED <<setup, at, novelty, merged, panicked>>
  /\ UNCHANGED <<caseVars, countVars, diskVars, envVars>>

BeginCase(c) ==
  /\ pc[c] = "case"
  /\ at[c] < cases[c]
  /\ ~request[c] /\ ~expired[c]
  /\ at' = [at EXCEPT ![c] = @ + 1]

(* plan or apply_resolved_plan returns an error or panics: the case is     *)
(* reported and the loop goes on, with no further budget check.            *)
PlanFails(c) ==
  /\ BeginCase(c)
  /\ Report(c, NoSample, FALSE, {})
  /\ UNCHANGED <<pc, setup, novelty, stopped, merged, panicked>>
  /\ UNCHANGED <<caseVars, oracleRuns, materialized, diskVars, envVars>>

(* The index x with another plan and image, with another oracle result.    *)
WithPlan(x, p, image) == [x EXCEPT !.plans = @ \cup {p}, !.bytes = @ \cup {image}]

WithResult(x, identity) == [x EXCEPT !.results = @ \cup {identity}]

(* Mutant: only the plan is remembered.                                    *)
RememberPlanOnly(c, p) ==
  novelty' = [novelty EXCEPT ![c] = [novelty[c] EXCEPT !.plans = @ \cup {p}]]

(* Both identities enter the in-memory index as soon as the plan is known. *)
Remember(c, p) == novelty' = [novelty EXCEPT ![c] = WithPlan(novelty[c], p, Output[p])]

(* The bytes are known: reported with their hash, never judged again.      *)
PlanDuplicate(c) ==
  \E p \in Plan :
    /\ BeginCase(c)
    /\ Output[p] \in novelty[c].bytes
    /\ Remember(c, p)
    /\ Report(c, Output[p], TRUE, {})
    /\ UNCHANGED <<pc, setup, stopped, merged, panicked>>
    /\ UNCHANGED <<caseVars, oracleRuns, materialized, diskVars, envVars>>

PlanFresh(c) ==
  \E p \in Plan :
    /\ BeginCase(c)
    /\ Output[p] \notin novelty[c].bytes
    /\ Remember(c, p)
    /\ current' = [current EXCEPT ![c] = p]
    /\ results' = [results EXCEPT ![c] = {}]
    /\ pc' = [pc EXCEPT ![c] = "materialize"]
    /\ UNCHANGED <<setup, stopped, merged, panicked, killed>>
    /\ UNCHANGED <<countVars, diskVars, envVars>>

-----------------------------------------------------------------------------
(* Materialization and the oracle funnel.                                  *)

(* The gate in front of every oracle launch.                               *)
MayLaunch(c, used) == used < spec[c].maxOracleRuns /\ ~expired[c]

(* materialize publishes the sample (module Publish models how).           *)
Materialize(c) ==
  LET launch == spec[c].funnel # "MaterializeOnly" /\ MayLaunch(c, oracleRuns[c])
  IN  /\ Goto(c, "materialize", IF launch THEN "rust" ELSE "push")
      /\ samples' = samples \cup {Output[current[c]]}
      /\ materialized' = [materialized EXCEPT ![c] = @ + 1]
      /\ UNCHANGED <<setup, at, novelty, stopped, merged, panicked, caseVars>>
      /\ UNCHANGED <<oracleRuns, reports, index, flock, saved, envVars>>

(* A panic while materializing becomes a planning error of the case.  The  *)
(* hash inserted by PlanFresh stays in the in-memory index.                *)
MaterializePanics(c) ==
  /\ Goto(c, "materialize", "case")
  /\ Report(c, NoSample, FALSE, {})
  /\ panicked' = [panicked EXCEPT ![c] = @ \cup {Output[current[c]]}]
  /\ UNCHANGED <<setup, at, novelty, stopped, merged, caseVars>>
  /\ UNCHANGED <<oracleRuns, materialized, diskVars, envVars>>

(* What run_profile returns: a verdict, or Cancelled when the sandbox saw  *)
(* the request and killed the program.                                     *)
Outcome(c) == Verdict \cup (IF request[c] THEN {Cancelled} ELSE {})

(* Mutant: the guard on Cancelled is dropped.                              *)
RecordAny(c, profile, v) ==
  /\ novelty' = [novelty EXCEPT ![c] = WithResult(novelty[c], <<profile, v>>)]
  /\ results' = [results EXCEPT ![c] = @ \cup {<<profile, v>>}]

(* record_result: a cancelled run leaves no trace.                         *)
Record(c, profile, v) ==
  IF v.status = "cancelled"
  THEN UNCHANGED <<novelty, results>>
  ELSE /\ novelty' = [novelty EXCEPT ![c] = WithResult(novelty[c], <<profile, v>>)]
       /\ results' = [results EXCEPT ![c] = @ \cup {<<profile, v>>}]

Novel(c, profile, v) == <<profile, v>> \notin novelty[c].results

(* Mutant: escalation does not look at the budgets.                        *)
OracleRunUngated(c, profile, v, escalate, next) ==
  /\ pc[c] = profile
  /\ oracleRuns' = [oracleRuns EXCEPT ![c] = @ + 1]
  /\ killed' = [killed EXCEPT ![c] = v.status = "cancelled"]
  /\ Record(c, profile, v)
  /\ pc' = [pc EXCEPT ![c] =
       IF v.status # "cancelled" /\ escalate THEN next ELSE "push"]
  /\ UNCHANGED <<setup, at, current, stopped, merged, panicked>>
  /\ UNCHANGED <<materialized, reports, diskVars, envVars>>

(* One oracle run with outcome v, after which the campaign goes to next if *)
(* it escalates and the budgets allow another launch.                      *)
OracleRun(c, profile, v, escalate, next) ==
  /\ pc[c] = profile
  /\ oracleRuns' = [oracleRuns EXCEPT ![c] = @ + 1]
  /\ killed' = [killed EXCEPT ![c] = v.status = "cancelled"]
  /\ Record(c, profile, v)
  /\ pc' = [pc EXCEPT ![c] =
       IF v.status # "cancelled" /\ escalate /\ MayLaunch(c, oracleRuns[c] + 1)
       THEN next ELSE "push"]
  /\ UNCHANGED <<setup, at, current, stopped, merged, panicked>>
  /\ UNCHANGED <<materialized, reports, diskVars, envVars>>

(* Mutant: only new signatures escalate, a known crash does not.           *)
RustOracleNovelOnly(c) ==
  \E v \in Outcome(c), retained \in BOOLEAN :
    OracleRun(c, "rust", v,
      \/ spec[c].funnel = "All"
      \/ Novel(c, "rust", v)
      \/ v.status = "rejected" /\ retained, "fsck")

(* seeded_retention picks one rejected case in eight by its identifier.    *)
RustOracle(c) ==
  \E v \in Outcome(c), retained \in BOOLEAN :
    OracleRun(c, "rust", v,
      \/ spec[c].funnel = "All"
      \/ Novel(c, "rust", v)
      \/ v.status \in Abnormal
      \/ v.status = "rejected" /\ retained, "fsck")

Disagrees(c, v) == \E r \in results[c] : r[1] = "rust" /\ r[2].status # v.status

FsckOracle(c) ==
  \E v \in Outcome(c) :
    OracleRun(c, "fsck", v,
      \/ spec[c].funnel = "All"
      \/ Novel(c, "fsck", v)
      \/ Disagrees(c, v)
      \/ v.status \in Abnormal, "linux")

LinuxOracle(c) ==
  \E v \in Outcome(c) : OracleRun(c, "linux", v, FALSE, "push")

(* Mutant: the budget also ends a campaign that runs no oracle.            *)
OutOfRunsAnyFunnel(c) == oracleRuns[c] >= spec[c].maxOracleRuns

(* A materialized case is always reported; then the budgets are checked.   *)
OutOfRuns(c) ==
  oracleRuns[c] >= spec[c].maxOracleRuns /\ spec[c].funnel # "MaterializeOnly"

StopAfterCase(c) == killed[c] \/ request[c] \/ expired[c] \/ OutOfRuns(c)

(* Mutant: the loop is left before a case cut short is reported.           *)
FinishCaseUnreported(c) ==
  /\ Goto(c, "push", IF StopAfterCase(c) THEN "lock" ELSE "case")
  /\ IF killed[c] THEN UNCHANGED reports
                  ELSE Report(c, Output[current[c]], FALSE, results[c])
  /\ stopped' = [stopped EXCEPT ![c] =
       CASE killed[c] \/ request[c] -> "cancelled"
         [] ~(killed[c] \/ request[c]) /\ expired[c] -> "wall_time"
         [] ~(killed[c] \/ request[c] \/ expired[c]) /\ OutOfRuns(c) -> "oracle_budget"
         [] OTHER -> @]
  /\ UNCHANGED <<setup, at, novelty, merged, panicked, caseVars>>
  /\ UNCHANGED <<oracleRuns, materialized, diskVars, envVars>>

FinishCase(c) ==
  /\ Goto(c, "push", IF StopAfterCase(c) THEN "lock" ELSE "case")
  /\ Report(c, Output[current[c]], FALSE, results[c])
  /\ stopped' = [stopped EXCEPT ![c] =
       CASE killed[c] \/ request[c] -> "cancelled"
         [] ~(killed[c] \/ request[c]) /\ expired[c] -> "wall_time"
         [] ~(killed[c] \/ request[c] \/ expired[c]) /\ OutOfRuns(c) -> "oracle_budget"
         [] OTHER -> @]
  /\ UNCHANGED <<setup, at, novelty, merged, panicked, caseVars>>
  /\ UNCHANGED <<oracleRuns, materialized, diskVars, envVars>>

-----------------------------------------------------------------------------
(* save_novelty: exclusive flock, read, merge, replace by rename, unlock.  *)

Saving(c) ==
  /\ UNCHANGED <<setup, at, novelty, stopped, panicked, samples>>
  /\ UNCHANGED <<caseVars, countVars, envVars>>

(* Mutant: the lock is shared, not exclusive.                              *)
AcquireLockShared(c) ==
  /\ Goto(c, "lock", "merge")
  /\ flock' = flock \cup {c}
  /\ Saving(c)
  /\ UNCHANGED <<merged, index, saved>>

AcquireLock(c) ==
  /\ Goto(c, "lock", "merge")
  /\ flock = {}
  /\ flock' = {c}
  /\ Saving(c)
  /\ UNCHANGED <<merged, index, saved>>

(* Mutant: the index is not read again under the lock.                     *)
MergeIndexUnread(c) ==
  /\ Goto(c, "merge", "replace")
  /\ merged' = [merged EXCEPT ![c] = novelty[c]]
  /\ Saving(c)
  /\ UNCHANGED <<flock, index, saved>>

MergeIndex(c) ==
  /\ Goto(c, "merge", "replace")
  /\ merged' = [merged EXCEPT ![c] = Merge(index, novelty[c])]
  /\ Saving(c)
  /\ UNCHANGED <<flock, index, saved>>

ReplaceIndex(c) ==
  /\ Goto(c, "replace", "unlock")
  /\ index' = merged[c]
  /\ saved' = saved \cup {c}
  /\ Saving(c)
  /\ UNCHANGED <<merged, flock>>

(* Mutant: the guard that unlocks on drop is missing.                      *)
ReleaseLockNever(c) ==
  /\ Goto(c, "unlock", "report")
  /\ Saving(c)
  /\ UNCHANGED <<merged, index, flock, saved>>

ReleaseLock(c) ==
  /\ Goto(c, "unlock", "report")
  /\ flock' = flock \ {c}
  /\ Saving(c)
  /\ UNCHANGED <<merged, index, saved>>

(* report.json is replaced last.                                           *)
WriteReport(c) ==
  /\ Goto(c, "report", "done")
  /\ Saving(c)
  /\ UNCHANGED <<merged, index, flock, saved>>

-----------------------------------------------------------------------------
(* The environment.                                                        *)

(* An I/O error is returned with `?`, or the process is killed: nothing    *)
(* more is written, and the kernel drops the flock with the descriptor.    *)
Fail(c) ==
  /\ Running(pc[c])
  /\ pc' = [pc EXCEPT ![c] = "failed"]
  /\ flock' = flock \ {c}
  /\ UNCHANGED <<setup, at, novelty, stopped, merged, panicked, index, samples, saved>>
  /\ UNCHANGED <<caseVars, countVars, envVars>>

(* CampaignControl::cancel, from the dashboard's listener thread.          *)
Cancel(c) ==
  /\ Running(pc[c])
  /\ ~request[c]
  /\ request' = [request EXCEPT ![c] = TRUE]
  /\ UNCHANGED <<pc, setup, at, novelty, stopped, merged, panicked, expired>>
  /\ UNCHANGED <<caseVars, countVars, diskVars>>

(* The wall clock passes wall_time_ms (never, when it is 0).               *)
Expire(c) ==
  /\ Running(pc[c])
  /\ ~expired[c]
  /\ expired' = [expired EXCEPT ![c] = TRUE]
  /\ UNCHANGED <<pc, setup, at, novelty, stopped, merged, panicked, request>>
  /\ UNCHANGED <<caseVars, countVars, diskVars>>

Case(c) ==
  \/ Exhaust(c) \/ StopBeforeCase(c)
  \/ PlanFails(c) \/ PlanDuplicate(c) \/ PlanFresh(c)
  \/ Materialize(c) \/ MaterializePanics(c)
  \/ RustOracle(c) \/ FsckOracle(c) \/ LinuxOracle(c)
  \/ FinishCase(c)

Save(c) ==
  \/ AcquireLock(c) \/ MergeIndex(c) \/ ReplaceIndex(c) \/ ReleaseLock(c)
  \/ WriteReport(c)

Step(c) == Load(c) \/ Case(c) \/ Save(c)

(* All campaigns have ended.                                               *)
Finished == \A c \in Campaign : pc[c] \in {"done", "failed"}

Terminated == Finished /\ UNCHANGED vars

Next ==
  \/ \E c \in Campaign : Step(c) \/ Fail(c) \/ Cancel(c) \/ Expire(c)
  \/ Terminated

Spec == Init /\ [][Next]_vars

(* A started process keeps running: its own steps are weakly fair.  flock  *)
(* needs no more, since each campaign takes the lock once.                 *)
FairSpec ==
  Spec /\ \A c \in Campaign : WF_vars(Case(c)) /\ WF_vars(Save(c))

-----------------------------------------------------------------------------
(* Properties.                                                             *)

Fresh(r) == r.sample # NoSample /\ ~r.duplicate

ByProfile(r, profile) == {i[2] : i \in {j \in r.results : j[1] = profile}}

FreshReports(c) == {i \in DOMAIN reports[c] : Fresh(reports[c][i])}

AfterLoop(c) == pc[c] \in {"lock", "merge", "replace", "unlock", "report", "done"}

(* "Hard campaign budgets. Every execution path checks these values."      *)
(* (campaign.rs:64): no path through the funnel launches one run too many. *)
OracleBudgetRespected ==
  \A c \in Campaign : oracleRuns[c] <= spec[c].maxOracleRuns

(* The report and the samples agree.  A materialized case is recorded,     *)
(* whether budgets, cancellation or nothing cut its oracles short, nothing *)
(* else counts as materialized (CampaignSummary::from_report), and a       *)
(* sample_sha256 in a report, duplicates included, names a published       *)
(* sample: the only hashes in circulation without one are those of images  *)
(* whose materialization panicked.                                         *)
ReportsMatchSamples ==
  \A c \in Campaign :
    /\ pc[c] # "failed" =>
         materialized[c] = Cardinality(FreshReports(c))
                           + (IF pc[c] \in {"rust", "fsck", "linux", "push"} THEN 1 ELSE 0)
    /\ \A i \in DOMAIN reports[c] :
         reports[c][i].sample
           \in samples \cup {NoSample} \cup UNION {panicked[d] : d \in Campaign}

(* The reason a campaign gives for stopping is true: it completed only if  *)
(* every case was reported, and the oracle budget never applies under      *)
(* MaterializeOnly.                                                        *)
StopReasonIsTrue ==
  \A c \in Campaign : AfterLoop(c) =>
    CASE stopped[c] = "completed"     -> Len(reports[c]) = cases[c]
      [] stopped[c] = "cancelled"     -> request[c]
      [] stopped[c] = "wall_time"     -> expired[c]
      [] stopped[c] = "oracle_budget" -> /\ oracleRuns[c] = spec[c].maxOracleRuns
                                         /\ spec[c].funnel # "MaterializeOnly"

(* An image is judged at most once by a campaign, and never if the index   *)
(* it loaded knew the image: two fresh reports never name the same sample. *)
JudgedAtMostOnce ==
  \A c \in Campaign : \A i, j \in FreshReports(c) :
    /\ reports[c][i].sample \notin base[c].bytes
    /\ i # j => reports[c][i].sample # reports[c][j].sample

(* A plan enters an index together with the bytes it produces, and stays   *)
(* together with them through concurrent merges: duplicate_plan in a       *)
(* report always comes with duplicate_bytes.                               *)
PlansComeWithBytes ==
  \A x \in {index} \cup {novelty[c] : c \in Campaign} :
    \A p \in x.plans : Output[p] \in x.bytes

(* Under a judging funnel only the last case of a campaign that stopped    *)
(* early can go unjudged: a budget never silently skips a case in the      *)
(* middle of the recipe.                                                   *)
OnlyTheLastGoesUnjudged ==
  \A c \in Campaign : \A i \in FreshReports(c) :
    spec[c].funnel # "MaterializeOnly" /\ reports[c][i].results = {} =>
      i = Len(reports[c]) /\ stopped[c] # "completed"

(* A crash, timeout or exhaustion seen by one level, or a disagreement     *)
(* between two, is always taken to the next level, known signature or not, *)
(* unless the campaign stopped at that very case.                          *)
NeedsNextLevel(r) ==
  LET rust == ByProfile(r, "rust")
      fsck == ByProfile(r, "fsck")
  IN  \/ /\ fsck = {}
         /\ \E v \in rust : v.status \in Abnormal
      \/ /\ ByProfile(r, "linux") = {}
         /\ \E v \in fsck : v.status \in Abnormal \/ \E w \in rust : w.status # v.status

AbnormalEscalates ==
  \A c \in Campaign : \A i \in DOMAIN reports[c] :
    NeedsNextLevel(reports[c][i]) => i = Len(reports[c]) /\ stopped[c] # "completed"

(* No case in the middle of a recipe is passed over, by a budget or by the *)
(* index: what was not judged as far as the funnel goes is the end.        *)
NoCaseIsSkipped == OnlyTheLastGoesUnjudged /\ AbnormalEscalates

IsVerdict(i) == i[2].status # "cancelled"

(* A run killed by cancellation leaves no verdict anywhere: not in the     *)
(* shared index, not in memory, not in a report (campaign.rs:1314).        *)
CancelledLeavesNoVerdict ==
  /\ \A i \in index.results : IsVerdict(i)
  /\ \A c \in Campaign : \A i \in novelty[c].results : IsVerdict(i)
  /\ \A c \in Campaign : \A k \in DOMAIN reports[c] :
       \A i \in reports[c][k].results : IsVerdict(i)

(* What a campaign knew when it saved is in novelty.json ever after,       *)
(* whatever concurrent campaigns and crashes do: no lost update.           *)
Included(a, b) ==
  a.bytes \subseteq b.bytes /\ a.plans \subseteq b.plans /\ a.results \subseteq b.results

DiscoveriesSurvive == \A c \in saved : Included(novelty[c], index)

(* Every campaign that has started ends, by itself or by failing: budgets, *)
(* cancellation and the flock leave no campaign running or waiting for     *)
(* ever.                                                                   *)
EveryCampaignEnds ==
  \A c \in Campaign : pc[c] = "case" ~> pc[c] \in {"done", "failed"}

-----------------------------------------------------------------------------
(* The abstract index: facts are the entries tagged with their kind.       *)

Facts(x) == ({"bytes"} \X x.bytes) \cup ({"plans"} \X x.plans) \cup ({"results"} \X x.results)

Abstract == INSTANCE SharedIndex WITH
  Knowledge    <- Facts([bytes |-> Sample, plans |-> Plan, results |-> Identity]),
  facts        <- Facts(index),
  contribution <- [c \in Campaign |-> IF c \in saved THEN Facts(novelty[c]) ELSE {}]

(* The load / merge / replace protocol implements the shared index: every  *)
(* replacement of novelty.json is one commit, everything else a stutter.   *)
ImplementsSharedIndex == Abstract!Spec
=============================================================================
