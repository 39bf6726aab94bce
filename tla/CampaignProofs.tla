---------------------------- MODULE CampaignProofs ----------------------------
(***************************************************************************)
(* Theorems about campaigns that share a corpus (module Campaign), for any *)
(* number of campaigns, plans, images, verdicts and budgets.               *)
(***************************************************************************)
EXTENDS Campaign, FiniteSetTheorems, TLAPS

-----------------------------------------------------------------------------
(* Type correctness.                                                       *)

Holding == {"materialize", "rust", "fsck", "linux", "push"}

(* While a case is in hand there is a plan in hand.                        *)
PlanInHand == \A c \in Campaign : pc[c] \in Holding => current[c] \in Plan

TypeInv == TypeOK /\ PlanInHand

(* The empty index is an index.                                            *)
LEMMA EmptyIndexType == EmptyIndex \in NoveltyIndex
  BY DEF EmptyIndex, NoveltyIndex

(* Merging two indices gives an index (the union loop of save_novelty).    *)
LEMMA MergeType ==
  ASSUME NEW a \in NoveltyIndex, NEW b \in NoveltyIndex
  PROVE  Merge(a, b) \in NoveltyIndex
  BY DEF Merge, NoveltyIndex

(* Every outcome of an oracle run makes an identity (ResultIdentity).      *)
LEMMA OutcomeType ==
  ASSUME NEW c \in Campaign, NEW v \in Outcome(c), NEW profile \in Profile
  PROVE  <<profile, v>> \in Identity
  BY DEF Outcome, Identity

(* A report entry keeps the list of reports well typed.                    *)
LEMMA ReportType ==
  ASSUME TypeOK, NEW c \in Campaign, NEW sample \in Sample \cup {NoSample},
         NEW duplicate \in BOOLEAN, NEW found \in SUBSET Identity,
         Report(c, sample, duplicate, found)
  PROVE  reports' \in [Campaign -> Seq(CaseReport)]
  <1>1. [sample |-> sample, duplicate |-> duplicate, results |-> found] \in CaseReport
    BY DEF CaseReport
  <1>2. reports[c] \in Seq(CaseReport)
    BY DEF TypeOK
  <1>3. Append(reports[c], [sample |-> sample, duplicate |-> duplicate, results |-> found])
          \in Seq(CaseReport)
    BY <1>1, <1>2
  <1>4. QED
    BY <1>3 DEF Report, TypeOK

(* Remember enters a plan and its image, both of the right type.           *)
LEMMA RememberType ==
  ASSUME TypeOK, NEW c \in Campaign, NEW p \in Plan, Remember(c, p)
  PROVE  novelty' \in [Campaign -> NoveltyIndex]
  <1>1. Output[p] \in Sample
    BY CampaignAssumption
  <1>2. novelty[c] \in NoveltyIndex
    BY DEF TypeOK
  <1>3. WithPlan(novelty[c], p, Output[p]) \in NoveltyIndex
    BY <1>1, <1>2 DEF WithPlan, NoveltyIndex
  <1>4. QED
    BY <1>3 DEF Remember, TypeOK

(* record_result keeps the index and the results of the case well typed.   *)
LEMMA RecordType ==
  ASSUME TypeOK, NEW c \in Campaign, NEW profile \in Profile, NEW v \in Outcome(c),
         Record(c, profile, v)
  PROVE  /\ novelty' \in [Campaign -> NoveltyIndex]
         /\ results' \in [Campaign -> SUBSET Identity]
  <1>1. <<profile, v>> \in Identity
    BY OutcomeType
  <1>2. novelty[c] \in NoveltyIndex /\ results[c] \in SUBSET Identity
    BY DEF TypeOK
  <1>3. WithResult(novelty[c], <<profile, v>>) \in NoveltyIndex
    BY <1>1, <1>2 DEF WithResult, NoveltyIndex
  <1>4. results[c] \cup {<<profile, v>>} \in SUBSET Identity
    BY <1>1, <1>2
  <1>5. CASE v.status = "cancelled"
    BY <1>5 DEF Record, TypeOK
  <1>6. CASE v.status # "cancelled"
    <2>1. novelty' = [novelty EXCEPT ![c] = WithResult(novelty[c], <<profile, v>>)]
      BY <1>6 DEF Record
    <2>2. results' = [results EXCEPT ![c] = @ \cup {<<profile, v>>}]
      BY <1>6 DEF Record
    <2>3. QED
      BY <1>3, <1>4, <2>1, <2>2 DEF TypeOK
  <1>7. QED
    BY <1>5, <1>6

(* One oracle run is type correct, whatever follows it.                    *)
LEMMA OracleRunType ==
  ASSUME TypeInv, NEW c \in Campaign, NEW profile \in Profile, NEW v \in Outcome(c),
         NEW escalate \in BOOLEAN, NEW next \in Holding,
         OracleRun(c, profile, v, escalate, next)
  PROVE  TypeInv'
  <1> USE DEF TypeInv
  <1>1. /\ novelty' \in [Campaign -> NoveltyIndex]
        /\ results' \in [Campaign -> SUBSET Identity]
    BY RecordType DEF OracleRun
  <1>2. \E to \in Holding : pc' = [pc EXCEPT ![c] = to]
    BY DEF OracleRun, Holding
  <1>3. pc' \in [Campaign -> Control]
    BY <1>2 DEF TypeOK, Holding, Control
  <1>4. oracleRuns' \in [Campaign -> Nat]
    BY DEF OracleRun, TypeOK
  <1>5. killed' \in [Campaign -> BOOLEAN]
    BY DEF OracleRun, TypeOK
  <1>6. UNCHANGED <<spec, cases, base, at, current, stopped, merged, panicked,
                    materialized, reports, index, flock, samples, saved, request, expired>>
    BY DEF OracleRun, setup, diskVars, envVars
  <1>7. TypeOK'
    BY <1>1, <1>3, <1>4, <1>5, <1>6 DEF TypeOK
  <1>8. pc[c] \in Holding
    BY DEF OracleRun, Profile, Holding
  <1>9. PlanInHand'
    BY <1>2, <1>6, <1>8 DEF PlanInHand, TypeOK
  <1>10. QED
    BY <1>7, <1>9

LEMMA TypeInit == Init => TypeInv
  <1> SUFFICES ASSUME Init PROVE TypeInv
    OBVIOUS
  <1>1. reports \in [Campaign -> Seq(CaseReport)]
    BY DEF Init
  <1>2. /\ novelty \in [Campaign -> NoveltyIndex]
        /\ merged \in [Campaign -> NoveltyIndex]
        /\ base \in [Campaign -> NoveltyIndex]
        /\ index \in NoveltyIndex
    BY EmptyIndexType DEF Init
  <1>3. at \in [Campaign -> 0..MaxCases]
    BY CampaignAssumption DEF Init
  <1>4. /\ pc \in [Campaign -> Control]
        /\ oracleRuns \in [Campaign -> Nat]
        /\ materialized \in [Campaign -> Nat]
    BY DEF Init, Control
  <1>5. TypeOK
    BY <1>1, <1>2, <1>3, <1>4 DEF Init, TypeOK
  <1>6. PlanInHand
    BY DEF Init, PlanInHand, Holding
  <1>7. QED
    BY <1>5, <1>6 DEF TypeInv

LEMMA TypeCase ==
  ASSUME TypeInv, NEW c \in Campaign, Load(c) \/ Case(c)
  PROVE  TypeInv'
  <1> USE DEF TypeInv
  <1>1. CASE Load(c)
    BY <1>1 DEF Load, Goto, TypeOK, PlanInHand, Control, Holding,
                caseVars, countVars, diskVars, envVars
  <1>2. CASE Exhaust(c)
    BY <1>2 DEF Exhaust, Goto, TypeOK, PlanInHand, Control, Holding,
                setup, caseVars, countVars, diskVars, envVars
  <1>3. CASE StopBeforeCase(c)
    BY <1>3 DEF StopBeforeCase, Goto, TypeOK, PlanInHand, Control, Holding,
                setup, caseVars, countVars, diskVars, envVars
  <1>4. BeginCase(c) => at' \in [Campaign -> 0..MaxCases]
    BY CampaignAssumption DEF BeginCase, TypeOK
  <1>5. CASE PlanFails(c)
    <2>1. reports' \in [Campaign -> Seq(CaseReport)]
      <3>1. Report(c, NoSample, FALSE, {}) /\ {} \in SUBSET Identity
        BY <1>5 DEF PlanFails
      <3>2. QED
        BY <3>1, ReportType
    <2>2. QED
      BY <1>4, <1>5, <2>1 DEF PlanFails, TypeOK, PlanInHand,
                              setup, caseVars, diskVars, envVars
  <1>6. CASE PlanDuplicate(c)
    <2> PICK p \in Plan : /\ BeginCase(c)
                          /\ Remember(c, p)
                          /\ Report(c, Output[p], TRUE, {})
                          /\ UNCHANGED <<pc, setup, stopped, merged, panicked>>
                          /\ UNCHANGED <<caseVars, oracleRuns, materialized, diskVars, envVars>>
      BY <1>6 DEF PlanDuplicate
    <2>1. reports' \in [Campaign -> Seq(CaseReport)]
      <3>1. Output[p] \in Sample /\ {} \in SUBSET Identity
        BY CampaignAssumption
      <3>2. QED
        BY <3>1, ReportType
    <2>2. novelty' \in [Campaign -> NoveltyIndex]
      BY RememberType
    <2>3. QED
      BY <1>4, <2>1, <2>2 DEF TypeOK, PlanInHand, setup, caseVars, diskVars, envVars
  <1>7. CASE PlanFresh(c)
    <2> PICK p \in Plan : /\ BeginCase(c)
                          /\ Remember(c, p)
                          /\ current' = [current EXCEPT ![c] = p]
                          /\ results' = [results EXCEPT ![c] = {}]
                          /\ pc' = [pc EXCEPT ![c] = "materialize"]
                          /\ UNCHANGED <<setup, stopped, merged, panicked, killed>>
                          /\ UNCHANGED <<countVars, diskVars, envVars>>
      BY <1>7 DEF PlanFresh
    <2>1. novelty' \in [Campaign -> NoveltyIndex]
      BY RememberType
    <2>2. QED
      BY <1>4, <2>1 DEF TypeOK, PlanInHand, Control, setup, countVars, diskVars, envVars
  <1>8. pc[c] \in Holding => Output[current[c]] \in Sample
    BY CampaignAssumption DEF PlanInHand
  <1>9. CASE Materialize(c)
    <2>1. \E to \in {"rust", "push"} : Goto(c, "materialize", to)
      BY <1>9 DEF Materialize
    <2>2. pc[c] \in Holding /\ \E to \in {"rust", "push"} : pc' = [pc EXCEPT ![c] = to]
      BY <2>1 DEF Goto, Holding
    <2>3. samples' \subseteq Sample
      BY <1>8, <1>9, <2>2 DEF Materialize, TypeOK
    <2>4. materialized' \in [Campaign -> Nat]
      BY <1>9 DEF Materialize, TypeOK
    <2>5. UNCHANGED <<setup, at, novelty, stopped, merged, panicked, caseVars,
                      oracleRuns, reports, index, flock, saved, envVars>>
      BY <1>9 DEF Materialize
    <2>6. TypeOK'
      BY <2>2, <2>3, <2>4, <2>5 DEF TypeOK, Control, setup, caseVars, envVars
    <2>7. PlanInHand'
      BY <2>2, <2>5 DEF TypeOK, PlanInHand, Holding, caseVars
    <2>8. QED
      BY <2>6, <2>7
  <1>10. CASE MaterializePanics(c)
    <2>1. pc[c] \in Holding
      BY <1>10 DEF MaterializePanics, Goto, Holding
    <2>2. reports' \in [Campaign -> Seq(CaseReport)]
      <3>1. Report(c, NoSample, FALSE, {}) /\ {} \in SUBSET Identity
        BY <1>10 DEF MaterializePanics
      <3>2. QED
        BY <3>1, ReportType
    <2>3. panicked' \in [Campaign -> SUBSET Sample]
      BY <1>8, <1>10, <2>1 DEF MaterializePanics, TypeOK
    <2>4. QED
      BY <1>10, <2>2, <2>3 DEF MaterializePanics, Goto, TypeOK, PlanInHand, Control, Holding,
                               setup, caseVars, diskVars, envVars
  <1>11. CASE RustOracle(c)
    BY <1>11, OracleRunType DEF RustOracle, Profile, Holding
  <1>12. CASE FsckOracle(c)
    BY <1>12, OracleRunType DEF FsckOracle, Profile, Holding
  <1>13. CASE LinuxOracle(c)
    BY <1>13, OracleRunType DEF LinuxOracle, Profile, Holding
  <1>14. CASE FinishCase(c)
    <2>1. pc[c] \in Holding
      BY <1>14 DEF FinishCase, Goto, Holding
    <2>2. reports' \in [Campaign -> Seq(CaseReport)]
      <3>1. Output[current[c]] \in Sample /\ results[c] \in SUBSET Identity
        BY <1>8, <2>1 DEF TypeOK
      <3>2. Report(c, Output[current[c]], FALSE, results[c])
        BY <1>14 DEF FinishCase
      <3>3. QED
        BY <3>1, <3>2, ReportType
    <2>3. stopped' \in [Campaign -> {"completed", "cancelled", "wall_time", "oracle_budget"}]
      <3>1. \E reason \in {"completed", "cancelled", "wall_time", "oracle_budget"} :
              stopped' = [stopped EXCEPT ![c] = reason]
        BY <1>14 DEF FinishCase, TypeOK
      <3>2. QED
        BY <3>1 DEF TypeOK
    <2>4. \E to \in {"lock", "case"} : pc' = [pc EXCEPT ![c] = to]
      BY <1>14 DEF FinishCase, Goto
    <2>5. UNCHANGED <<setup, at, novelty, merged, panicked, caseVars,
                      oracleRuns, materialized, diskVars, envVars>>
      BY <1>14 DEF FinishCase
    <2>6. TypeOK'
      BY <2>2, <2>3, <2>4, <2>5 DEF TypeOK, Control, setup, caseVars, diskVars, envVars
    <2>7. PlanInHand'
      BY <2>1, <2>4, <2>5 DEF TypeOK, PlanInHand, Holding, caseVars
    <2>8. QED
      BY <2>6, <2>7
  <1>15. QED
    BY <1>1, <1>2, <1>3, <1>5, <1>6, <1>7, <1>9, <1>10, <1>11, <1>12, <1>13, <1>14 DEF Case

LEMMA TypeSave ==
  ASSUME TypeInv, NEW c \in Campaign, Save(c)
  PROVE  TypeInv'
  <1> USE DEF TypeInv, Goto, Saving, TypeOK, PlanInHand, Control, Holding,
              setup, caseVars, countVars, envVars
  <1>1. CASE AcquireLock(c)
    BY <1>1 DEF AcquireLock
  <1>2. CASE MergeIndex(c)
    <2>1. Merge(index, novelty[c]) \in NoveltyIndex
      BY MergeType
    <2>2. QED
      BY <1>2, <2>1 DEF MergeIndex
  <1>3. CASE ReplaceIndex(c)
    BY <1>3 DEF ReplaceIndex
  <1>4. CASE ReleaseLock(c)
    BY <1>4 DEF ReleaseLock
  <1>5. CASE WriteReport(c)
    BY <1>5 DEF WriteReport
  <1>6. QED
    BY <1>1, <1>2, <1>3, <1>4, <1>5 DEF Save

LEMMA TypeEnvironment ==
  ASSUME TypeInv, NEW c \in Campaign, Fail(c) \/ Cancel(c) \/ Expire(c)
  PROVE  TypeInv'
  <1> USE DEF TypeInv, TypeOK, PlanInHand, Control, Holding,
              setup, caseVars, countVars, diskVars
  <1>1. CASE Fail(c)
    BY <1>1 DEF Fail, envVars
  <1>2. CASE Cancel(c)
    BY <1>2 DEF Cancel
  <1>3. CASE Expire(c)
    BY <1>3 DEF Expire
  <1>4. QED
    BY <1>1, <1>2, <1>3

LEMMA TypeStutter == TypeInv /\ UNCHANGED vars => TypeInv'
  BY DEF TypeInv, TypeOK, PlanInHand, vars

(* Whatever campaigns, cancellations, failures and expiries do, in any     *)
(* order, every variable keeps its type, and the oracles are launched with *)
(* a plan in hand.                                                         *)
THEOREM TypeCorrect == Spec => []TypeInv
  <1>1. TypeInv /\ [Next]_vars => TypeInv'
    BY TypeCase, TypeSave, TypeEnvironment, TypeStutter DEF Next, Step, Terminated
  <1>2. QED
    BY <1>1, TypeInit, PTL DEF Spec

(* Every variable of the campaigns has its type, always.                   *)
THEOREM TypeOKHolds == Spec => []TypeOK
  <1>1. TypeInv => TypeOK
    BY DEF TypeInv
  <1>2. QED
    BY <1>1, TypeCorrect, PTL

-----------------------------------------------------------------------------
(* The shared index.                                                       *)

HoldsLock(c) == pc[c] \in {"merge", "replace", "unlock"}

AfterSave == {"unlock", "report", "done", "failed"}

(* The strengthening: whoever is between load and rename holds the lock    *)
(* alone, so what it is about to write is the present index merged with    *)
(* its own; whoever has saved learns nothing more.                         *)
LockIsExclusive == \A c \in Campaign : HoldsLock(c) => flock = {c}

MergedIsCurrent ==
  \A c \in Campaign : pc[c] = "replace" => merged[c] = Merge(index, novelty[c])

SavedIsOver == \A c \in saved : pc[c] \in AfterSave

SaveInv == LockIsExclusive /\ MergedIsCurrent /\ SavedIsOver /\ DiscoveriesSurvive

(* A merge holds both indices.                                             *)
LEMMA MergeIncludes ==
  ASSUME NEW a \in NoveltyIndex, NEW b \in NoveltyIndex
  PROVE  Included(a, Merge(a, b)) /\ Included(b, Merge(a, b))
  BY DEF Included, Merge

LEMMA IncludedTransitive ==
  ASSUME NEW x, NEW y, NEW z, Included(x, y), Included(y, z)
  PROVE  Included(x, z)
  BY DEF Included

LEMMA SaveInit == Init => SaveInv
  BY DEF Init, SaveInv, LockIsExclusive, HoldsLock, MergedIsCurrent, SavedIsOver,
         DiscoveriesSurvive

(* Until a campaign reaches the lock it disturbs neither the index, nor    *)
(* the lock, nor what another campaign knows or is about to write.         *)
LEMMA CaseFrame ==
  ASSUME TypeInv, NEW c \in Campaign, Load(c) \/ Case(c)
  PROVE  /\ pc[c] \in Control \ ({"lock", "merge", "replace"} \cup AfterSave)
         /\ \E to \in Control \ ({"merge", "replace"} \cup AfterSave) :
              pc' = [pc EXCEPT ![c] = to]
         /\ \E x : novelty' = [novelty EXCEPT ![c] = x]
         /\ UNCHANGED <<index, flock, saved, merged>>
  <1> USE DEF Goto, Control, AfterSave, diskVars
  <1> USE DEF TypeInv, TypeOK
  <1>1. ASSUME NEW profile \in Profile, NEW v, NEW escalate, NEW next \in Profile \cup {"push"},
               OracleRun(c, profile, v, escalate, next)
        PROVE  /\ pc[c] \in Profile
               /\ \E to \in Profile \cup {"push"} : pc' = [pc EXCEPT ![c] = to]
               /\ \E x : novelty' = [novelty EXCEPT ![c] = x]
               /\ UNCHANGED <<index, flock, saved, merged>>
    <2>1. \E to \in Profile \cup {"push"} : pc' = [pc EXCEPT ![c] = to]
      BY <1>1 DEF OracleRun
    <2>2. novelty' = novelty \/ novelty' = [novelty EXCEPT ![c] = WithResult(novelty[c], <<profile, v>>)]
      BY <1>1 DEF OracleRun, Record
    <2>3. novelty = [novelty EXCEPT ![c] = novelty[c]]
      OBVIOUS
    <2>4. QED
      BY <1>1, <2>1, <2>2, <2>3 DEF OracleRun
  <1>2. novelty = [novelty EXCEPT ![c] = novelty[c]] /\ pc = [pc EXCEPT ![c] = pc[c]]
    OBVIOUS
  <1>3. CASE Load(c)
    BY <1>3 DEF Load
  <1>4. CASE Exhaust(c) \/ StopBeforeCase(c)
    BY <1>2, <1>4 DEF Exhaust, StopBeforeCase
  <1>5. CASE PlanFails(c)
    BY <1>2, <1>5 DEF PlanFails, BeginCase
  <1>6. CASE PlanDuplicate(c)
    BY <1>2, <1>6 DEF PlanDuplicate, BeginCase, Remember
  <1>7. CASE PlanFresh(c)
    BY <1>7 DEF PlanFresh, BeginCase, Remember
  <1>8. CASE Materialize(c)
    BY <1>2, <1>8 DEF Materialize
  <1>9. CASE MaterializePanics(c)
    BY <1>2, <1>9 DEF MaterializePanics
  <1>10. CASE RustOracle(c)
    <2>1. PICK v, escalate : OracleRun(c, "rust", v, escalate, "fsck")
      BY <1>10 DEF RustOracle
    <2>2. QED
      BY <1>1, <2>1 DEF Profile
  <1>11. CASE FsckOracle(c)
    <2>1. PICK v, escalate : OracleRun(c, "fsck", v, escalate, "linux")
      BY <1>11 DEF FsckOracle
    <2>2. QED
      BY <1>1, <2>1 DEF Profile
  <1>12. CASE LinuxOracle(c)
    <2>1. PICK v, escalate : OracleRun(c, "linux", v, escalate, "push")
      BY <1>12 DEF LinuxOracle
    <2>2. QED
      BY <1>1, <2>1 DEF Profile
  <1>13. CASE FinishCase(c)
    <2>1. \E to \in {"lock", "case"} : pc' = [pc EXCEPT ![c] = to]
      BY <1>13 DEF FinishCase
    <2>2. QED
      BY <1>2, <1>13, <2>1 DEF FinishCase
  <1>14. QED
    BY <1>3, <1>4, <1>5, <1>6, <1>7, <1>8, <1>9, <1>10, <1>11, <1>12, <1>13 DEF Case

LEMMA SaveInvCase ==
  ASSUME TypeInv, SaveInv, NEW c \in Campaign, Load(c) \/ Case(c)
  PROVE  SaveInv'
  <1>1. pc[c] \in Control \ ({"lock", "merge", "replace"} \cup AfterSave)
    BY CaseFrame
  <1>2. PICK to \in Control \ ({"merge", "replace"} \cup AfterSave) :
          pc' = [pc EXCEPT ![c] = to]
    BY CaseFrame
  <1>3. PICK x : novelty' = [novelty EXCEPT ![c] = x]
    BY CaseFrame
  <1>4. UNCHANGED <<index, flock, saved, merged>>
    BY CaseFrame
  <1>5. c \notin saved
    BY <1>1 DEF SaveInv, SavedIsOver
  <1>6. LockIsExclusive'
    BY <1>2, <1>4 DEF SaveInv, LockIsExclusive, HoldsLock, AfterSave, TypeInv, TypeOK
  <1>7. MergedIsCurrent'
    BY <1>2, <1>3, <1>4 DEF SaveInv, MergedIsCurrent, TypeInv, TypeOK
  <1>8. SavedIsOver'
    BY <1>2, <1>4, <1>5 DEF SaveInv, SavedIsOver, TypeInv, TypeOK
  <1>9. DiscoveriesSurvive'
    BY <1>3, <1>4, <1>5 DEF SaveInv, DiscoveriesSurvive, TypeInv, TypeOK
  <1>10. QED
    BY <1>6, <1>7, <1>8, <1>9 DEF SaveInv

LEMMA SaveInvSave ==
  ASSUME TypeInv, SaveInv, NEW c \in Campaign, Save(c)
  PROVE  SaveInv'
  <1> USE DEF TypeInv, TypeOK, Goto, Saving, setup, AfterSave, HoldsLock
  <1>1. CASE AcquireLock(c)
    <2>1. LockIsExclusive' /\ MergedIsCurrent' /\ SavedIsOver' /\ DiscoveriesSurvive'
      BY <1>1 DEF AcquireLock, SaveInv, LockIsExclusive, MergedIsCurrent, SavedIsOver,
                  DiscoveriesSurvive
    <2>2. QED
      BY <2>1 DEF SaveInv
  <1>2. CASE MergeIndex(c)
    <2>1. LockIsExclusive' /\ MergedIsCurrent' /\ SavedIsOver' /\ DiscoveriesSurvive'
      BY <1>2 DEF MergeIndex, SaveInv, LockIsExclusive, MergedIsCurrent, SavedIsOver,
                  DiscoveriesSurvive
    <2>2. QED
      BY <2>1 DEF SaveInv
  <1>3. CASE ReplaceIndex(c)
    <2>1. index' = Merge(index, novelty[c]) /\ novelty' = novelty /\ saved' = saved \cup {c}
      BY <1>3 DEF ReplaceIndex, SaveInv, MergedIsCurrent
    <2>2. Included(index, index') /\ Included(novelty[c], index')
      BY <2>1, MergeIncludes
    <2>3. DiscoveriesSurvive'
      <3> SUFFICES ASSUME NEW d \in saved' PROVE Included(novelty[d], index')
        BY <2>1 DEF DiscoveriesSurvive
      <3>1. CASE d = c
        BY <2>2, <3>1
      <3>2. CASE d \in saved
        BY <2>2, <3>2, IncludedTransitive DEF SaveInv, DiscoveriesSurvive
      <3>3. QED
        BY <2>1, <3>1, <3>2
    <2>4. LockIsExclusive' /\ SavedIsOver'
      BY <1>3 DEF ReplaceIndex, SaveInv, LockIsExclusive, SavedIsOver
    <2>5. MergedIsCurrent'
      <3> SUFFICES ASSUME NEW d \in Campaign, pc'[d] = "replace" PROVE FALSE
        BY DEF MergedIsCurrent
      <3>1. d # c /\ pc[d] = "replace" /\ pc[c] = "replace"
        BY <1>3 DEF ReplaceIndex
      <3>2. QED
        BY <3>1 DEF SaveInv, LockIsExclusive
    <2>6. QED
      BY <2>3, <2>4, <2>5 DEF SaveInv
  <1>4. CASE ReleaseLock(c)
    <2>1. \A d \in Campaign : HoldsLock(d) => d = c
      BY <1>4 DEF ReleaseLock, SaveInv, LockIsExclusive
    <2>2. LockIsExclusive' /\ MergedIsCurrent' /\ SavedIsOver' /\ DiscoveriesSurvive'
      BY <1>4, <2>1 DEF ReleaseLock, SaveInv, LockIsExclusive, MergedIsCurrent, SavedIsOver,
                        DiscoveriesSurvive
    <2>3. QED
      BY <2>2 DEF SaveInv
  <1>5. CASE WriteReport(c)
    <2>1. LockIsExclusive' /\ MergedIsCurrent' /\ SavedIsOver' /\ DiscoveriesSurvive'
      BY <1>5 DEF WriteReport, SaveInv, LockIsExclusive, MergedIsCurrent, SavedIsOver,
                  DiscoveriesSurvive
    <2>2. QED
      BY <2>1 DEF SaveInv
  <1>6. QED
    BY <1>1, <1>2, <1>3, <1>4, <1>5 DEF Save

LEMMA SaveInvEnvironment ==
  ASSUME TypeInv, SaveInv, NEW c \in Campaign, Fail(c) \/ Cancel(c) \/ Expire(c)
  PROVE  SaveInv'
  <1> USE DEF TypeInv, TypeOK, setup, AfterSave, HoldsLock
  <1>1. CASE Fail(c)
    <2>1. /\ pc' = [pc EXCEPT ![c] = "failed"]
          /\ flock' = flock \ {c}
          /\ UNCHANGED <<novelty, merged, index, saved>>
      BY <1>1 DEF Fail
    <2>2. LockIsExclusive'
      BY <2>1 DEF SaveInv, LockIsExclusive
    <2>3. MergedIsCurrent' /\ SavedIsOver' /\ DiscoveriesSurvive'
      BY <2>1 DEF SaveInv, MergedIsCurrent, SavedIsOver, DiscoveriesSurvive
    <2>4. QED
      BY <2>2, <2>3 DEF SaveInv
  <1>2. CASE Cancel(c) \/ Expire(c)
    <2>1. UNCHANGED <<pc, novelty, merged, index, flock, saved>>
      BY <1>2 DEF Cancel, Expire, diskVars
    <2>2. QED
      BY <2>1 DEF SaveInv, LockIsExclusive, MergedIsCurrent, SavedIsOver, DiscoveriesSurvive
  <1>3. QED
    BY <1>1, <1>2

LEMMA SaveInvStutter == SaveInv /\ UNCHANGED vars => SaveInv'
  BY DEF SaveInv, LockIsExclusive, HoldsLock, MergedIsCurrent, SavedIsOver,
         DiscoveriesSurvive, vars

(* The lock makes load-merge-rename one step: the strengthened invariant.  *)
THEOREM SaveCorrect == Spec => []SaveInv
  <1>1. TypeInv /\ SaveInv /\ [Next]_vars => SaveInv'
    BY SaveInvCase, SaveInvSave, SaveInvEnvironment, SaveInvStutter DEF Next, Step, Terminated
  <1>2. QED
    BY <1>1, SaveInit, TypeCorrect, PTL DEF Spec

(* No lost update: what a campaign knew when it saved stays in novelty.json *)
(* whatever concurrent campaigns, errors and kills do (save_novelty).       *)
THEOREM NoLostUpdate == Spec => []DiscoveriesSurvive
  <1>1. SaveInv => DiscoveriesSurvive
    BY DEF SaveInv
  <1>2. QED
    BY <1>1, SaveCorrect, PTL

-----------------------------------------------------------------------------
(* The protocol implements the shared index.                               *)

AllKnowledge == Facts([bytes |-> Sample, plans |-> Plan, results |-> Identity])

Contribution == [c \in Campaign |-> IF c \in saved THEN Facts(novelty[c]) ELSE {}]

(* Tagging the entries of an index with their kind commutes with merging.  *)
LEMMA FactsOfMerge ==
  ASSUME NEW a, NEW b
  PROVE  Facts(Merge(a, b)) = Facts(a) \cup Facts(b)
  BY DEF Facts, Merge

LEMMA FactsType ==
  ASSUME NEW x \in NoveltyIndex
  PROVE  Facts(x) \subseteq AllKnowledge
  BY DEF Facts, AllKnowledge, NoveltyIndex

LEMMA FactsInit == Init => Facts(index) = {} /\ Contribution = [c \in Campaign |-> {}]
  BY DEF Init, Facts, EmptyIndex, Contribution

(* Replacing novelty.json is the commit of the abstract index.             *)
LEMMA ReplaceCommits ==
  ASSUME TypeInv, SaveInv, NEW c \in Campaign, ReplaceIndex(c)
  PROVE  /\ Contribution[c] = {}
         /\ Contribution'[c] \subseteq AllKnowledge
         /\ Contribution' = [Contribution EXCEPT ![c] = Contribution'[c]]
         /\ Facts(index)' = Facts(index) \cup Contribution'[c]
  <1> USE DEF TypeInv, TypeOK
  <1>1. pc[c] = "replace" /\ saved' = saved \cup {c} /\ novelty' = novelty /\ index' = merged[c]
    BY DEF ReplaceIndex, Goto, Saving
  <1>2. c \notin saved /\ merged[c] = Merge(index, novelty[c])
    BY <1>1 DEF SaveInv, SavedIsOver, MergedIsCurrent, AfterSave
  <1>3. Contribution[c] = {}
    BY <1>2 DEF Contribution
  <1>4. Contribution'[c] = Facts(novelty[c])
    BY <1>1 DEF Contribution
  <1>5. Contribution'[c] \subseteq AllKnowledge
    BY <1>4, FactsType
  <1>6. Contribution' = [Contribution EXCEPT ![c] = Contribution'[c]]
    BY <1>1, <1>4 DEF Contribution
  <1>7. Facts(index)' = Facts(index) \cup Contribution'[c]
    <2>1. Facts(index)' = Facts(index')
      BY DEF Facts
    <2>2. QED
      BY <1>1, <1>2, <1>4, <2>1, FactsOfMerge
  <1>8. QED
    BY <1>3, <1>5, <1>6, <1>7

(* Every other step leaves the abstract index and the contributions alone: *)
(* who has saved learns nothing more.                                      *)
LEMMA OthersStutter ==
  ASSUME TypeInv, SaveInv, [Next]_vars, \A c \in Campaign : ~ReplaceIndex(c)
  PROVE  Facts(index)' = Facts(index) /\ Contribution' = Contribution
  <1>1. SUFFICES /\ index' = index /\ saved' = saved
                 /\ \A d \in saved : novelty'[d] = novelty[d]
    BY DEF Facts, Contribution
  <1>2. ASSUME NEW c \in Campaign, Load(c) \/ Case(c)
        PROVE  index' = index /\ saved' = saved /\ \A d \in saved : novelty'[d] = novelty[d]
    <2>1. c \notin saved
      BY <1>2, CaseFrame DEF SaveInv, SavedIsOver
    <2>2. PICK x : novelty' = [novelty EXCEPT ![c] = x]
      BY <1>2, CaseFrame
    <2>3. UNCHANGED <<index, saved>>
      BY <1>2, CaseFrame
    <2>4. QED
      BY <2>1, <2>2, <2>3 DEF TypeInv, TypeOK
  <1>3. ASSUME NEW c \in Campaign, Save(c)
        PROVE  UNCHANGED <<index, saved, novelty>>
    BY <1>3 DEF Save, AcquireLock, MergeIndex, ReleaseLock, WriteReport, Saving
  <1>4. ASSUME NEW c \in Campaign, Fail(c) \/ Cancel(c) \/ Expire(c)
        PROVE  UNCHANGED <<index, saved, novelty>>
    BY <1>4 DEF Fail, Cancel, Expire, diskVars
  <1>5. CASE UNCHANGED vars
    BY <1>5 DEF vars
  <1>6. QED
    BY <1>2, <1>3, <1>4, <1>5 DEF Next, Step, Terminated

(* The load / merge / replace protocol implements SharedIndex: each        *)
(* replacement of novelty.json under the lock is one atomic commit of all  *)
(* that the campaign knows, and nothing else touches the index.            *)
THEOREM Refinement == Spec => ImplementsSharedIndex
  <1>1. Init => Abstract!Init
    BY FactsInit DEF Abstract!Init, Contribution
  <1>2. TypeInv /\ SaveInv /\ [Next]_vars => [Abstract!Next]_(Abstract!vars)
    <2> SUFFICES ASSUME TypeInv, SaveInv, [Next]_vars
                 PROVE  [Abstract!Next]_(Abstract!vars)
      OBVIOUS
    <2>1. CASE \E c \in Campaign : ReplaceIndex(c)
      <3>1. PICK c \in Campaign : ReplaceIndex(c)
        BY <2>1
      <3>2. Abstract!Commit(c)
        BY <3>1, ReplaceCommits DEF Abstract!Commit, Contribution, AllKnowledge
      <3>3. QED
        BY <3>2 DEF Abstract!Next
    <2>2. CASE \A c \in Campaign : ~ReplaceIndex(c)
      BY <2>2, OthersStutter DEF Abstract!vars, Contribution
    <2>3. QED
      BY <2>1, <2>2
  <1>3. QED
    BY <1>1, <1>2, TypeCorrect, SaveCorrect, PTL DEF Spec, ImplementsSharedIndex, Abstract!Spec

-----------------------------------------------------------------------------
(***************************************************************************)
(* The funnel of a campaign: budgets, deduplication, escalation, reports   *)
(* and cancellation.                                                       *)
(***************************************************************************)

-----------------------------------------------------------------------------
(* What the steps of the case loop do, seen by what they write.            *)

(* The three oracle actions are oracle runs.                               *)
LEMMA OracleSteps ==
  ASSUME NEW c \in Campaign, RustOracle(c) \/ FsckOracle(c) \/ LinuxOracle(c)
  PROVE  \E profile \in Profile, v \in Outcome(c), escalate \in BOOLEAN,
            next \in {"fsck", "linux", "push"} : OracleRun(c, profile, v, escalate, next)
  <1>1. CASE RustOracle(c)
    BY <1>1 DEF RustOracle, Profile
  <1>2. CASE FsckOracle(c)
    BY <1>2 DEF FsckOracle, Profile
  <1>3. CASE LinuxOracle(c)
    BY <1>3 DEF LinuxOracle, Profile
  <1>4. QED
    BY <1>1, <1>2, <1>3

(* A campaign learns the stored index, a plan with its image, or a result  *)
(* that is not Cancelled, and nothing else.                                *)
LEMMA Learning ==
  ASSUME NEW c \in Campaign, Load(c) \/ Case(c)
  PROVE  \/ novelty' = novelty
         \/ novelty' = [novelty EXCEPT ![c] = index]
         \/ \E p \in Plan : Remember(c, p)
         \/ \E profile \in Profile, v \in Outcome(c) :
              /\ v.status # "cancelled"
              /\ novelty' = [novelty EXCEPT ![c] = WithResult(novelty[c], <<profile, v>>)]
  <1>1. CASE Load(c)
    BY <1>1 DEF Load
  <1>2. CASE PlanDuplicate(c) \/ PlanFresh(c)
    BY <1>2 DEF PlanDuplicate, PlanFresh
  <1>3. CASE RustOracle(c) \/ FsckOracle(c) \/ LinuxOracle(c)
    <2>1. PICK profile \in Profile, v \in Outcome(c), escalate \in BOOLEAN,
               next \in {"fsck", "linux", "push"} : OracleRun(c, profile, v, escalate, next)
      BY <1>3, OracleSteps
    <2>2. Record(c, profile, v)
      BY <2>1 DEF OracleRun
    <2>3. CASE v.status = "cancelled"
      BY <2>2, <2>3 DEF Record
    <2>4. CASE v.status # "cancelled"
      BY <2>2, <2>4 DEF Record
    <2>5. QED
      BY <2>3, <2>4
  <1>4. CASE \/ Exhaust(c) \/ StopBeforeCase(c) \/ PlanFails(c)
             \/ Materialize(c) \/ MaterializePanics(c) \/ FinishCase(c)
    BY <1>4 DEF Exhaust, StopBeforeCase, PlanFails, Materialize, MaterializePanics, FinishCase
  <1>5. QED
    BY <1>1, <1>2, <1>3, <1>4 DEF Case

(* Outside the case loop nothing is learnt.                                *)
LEMMA SaveFrame ==
  ASSUME NEW c \in Campaign, Save(c)
  PROVE  UNCHANGED <<spec, base, novelty, current, results, oracleRuns, reports>>
  BY DEF Save, AcquireLock, MergeIndex, ReplaceIndex, ReleaseLock, WriteReport, Saving,
         setup, caseVars, countVars

LEMMA EnvironmentFrame ==
  ASSUME NEW c \in Campaign, Fail(c) \/ Cancel(c) \/ Expire(c)
  PROVE  /\ UNCHANGED <<spec, base, novelty, current, results, oracleRuns, reports, merged, index>>
         /\ pc' = pc \/ pc' = [pc EXCEPT ![c] = "failed"]
  BY DEF Fail, Cancel, Expire, setup, caseVars, countVars, diskVars

-----------------------------------------------------------------------------
(* The oracle budget.                                                      *)

BudgetInv ==
  \A c \in Campaign :
    /\ oracleRuns[c] <= spec[c].maxOracleRuns
    /\ pc[c] \in Profile => oracleRuns[c] < spec[c].maxOracleRuns

LEMMA BudgetType ==
  ASSUME TypeInv, NEW c \in Campaign
  PROVE  oracleRuns[c] \in Nat /\ spec[c].maxOracleRuns \in Nat
  BY CampaignAssumption DEF TypeInv, TypeOK

LEMMA BudgetInit == Init => BudgetInv
  BY CampaignAssumption DEF Init, BudgetInv, Profile

LEMMA BudgetCase ==
  ASSUME TypeInv, BudgetInv, NEW c \in Campaign, Load(c) \/ Case(c)
  PROVE  BudgetInv'
  <1> USE DEF TypeInv, TypeOK, BudgetInv, Profile, Goto
  <1>1. CASE Load(c)
    BY <1>1 DEF Load, countVars
  <1>2. CASE RustOracle(c) \/ FsckOracle(c) \/ LinuxOracle(c)
    <2>1. PICK profile \in Profile, v \in Outcome(c), escalate \in BOOLEAN,
               next \in {"fsck", "linux", "push"} : OracleRun(c, profile, v, escalate, next)
      BY <1>2, OracleSteps
    <2>2. /\ pc[c] \in Profile
          /\ oracleRuns' = [oracleRuns EXCEPT ![c] = @ + 1]
          /\ spec' = spec
      BY <2>1 DEF OracleRun, setup
    <2>3. \E to \in {"fsck", "linux", "push"} :
            /\ pc' = [pc EXCEPT ![c] = to]
            /\ to # "push" => oracleRuns[c] + 1 < spec[c].maxOracleRuns
      BY <2>1 DEF OracleRun, MayLaunch
    <2>4. oracleRuns'[c] = oracleRuns[c] + 1 /\ oracleRuns[c] < spec[c].maxOracleRuns
      BY <2>2
    <2>5. /\ oracleRuns'[c] <= spec[c].maxOracleRuns
          /\ pc'[c] \in Profile => oracleRuns'[c] < spec[c].maxOracleRuns
      BY <2>3, <2>4, BudgetType
    <2>6. ASSUME NEW d \in Campaign, d # c
          PROVE  oracleRuns'[d] = oracleRuns[d] /\ pc'[d] = pc[d]
      BY <2>2, <2>3, <2>6
    <2>7. QED
      BY <2>2, <2>5, <2>6
  <1>3. CASE Materialize(c)
    <2>1. \E to \in {"rust", "push"} :
            /\ pc' = [pc EXCEPT ![c] = to]
            /\ to # "push" => oracleRuns[c] < spec[c].maxOracleRuns
      BY <1>3 DEF Materialize, MayLaunch
    <2>2. spec' = spec /\ oracleRuns' = oracleRuns
      BY <1>3 DEF Materialize, setup
    <2>3. QED
      BY <2>1, <2>2
  <1>4. CASE \/ Exhaust(c) \/ StopBeforeCase(c) \/ PlanFails(c) \/ PlanDuplicate(c)
             \/ PlanFresh(c) \/ MaterializePanics(c)
    BY <1>4 DEF Exhaust, StopBeforeCase, PlanFails, PlanDuplicate, PlanFresh, BeginCase,
                MaterializePanics, setup, countVars
  <1>5. CASE FinishCase(c)
    <2>1. \E to \in {"lock", "case"} : pc' = [pc EXCEPT ![c] = to]
      BY <1>5 DEF FinishCase
    <2>2. spec' = spec /\ oracleRuns' = oracleRuns
      BY <1>5 DEF FinishCase, setup
    <2>3. QED
      BY <2>1, <2>2
  <1>6. QED
    BY <1>1, <1>2, <1>3, <1>4, <1>5 DEF Case

LEMMA BudgetElsewhere ==
  ASSUME TypeInv, BudgetInv, NEW c \in Campaign,
         Save(c) \/ Fail(c) \/ Cancel(c) \/ Expire(c)
  PROVE  BudgetInv'
  <1> USE DEF TypeInv, TypeOK, BudgetInv, Profile
  <1>1. CASE Save(c)
    <2>1. \E to \in {"merge", "replace", "unlock", "report", "done"} :
            pc' = [pc EXCEPT ![c] = to]
      BY <1>1 DEF Save, AcquireLock, MergeIndex, ReplaceIndex, ReleaseLock, WriteReport, Goto
    <2>2. QED
      BY <1>1, <2>1, SaveFrame
  <1>2. CASE Fail(c) \/ Cancel(c) \/ Expire(c)
    BY <1>2, EnvironmentFrame
  <1>3. QED
    BY <1>1, <1>2

LEMMA BudgetStep == TypeInv /\ BudgetInv /\ [Next]_vars => BudgetInv'
  <1>1. BudgetInv /\ UNCHANGED vars => BudgetInv'
    BY DEF BudgetInv, vars
  <1>2. QED
    BY <1>1, BudgetCase, BudgetElsewhere DEF Next, Step, Terminated

(* "Every execution path checks these values": no interleaving of          *)
(* escalation, cancellation and expiry launches one oracle run too many.   *)
THEOREM BudgetHolds == Spec => []OracleBudgetRespected
  <1>1. BudgetInv => OracleBudgetRespected
    BY DEF BudgetInv, OracleBudgetRespected
  <1>2. QED
    BY <1>1, BudgetInit, BudgetStep, TypeCorrect, PTL DEF Spec

-----------------------------------------------------------------------------
(* Plans come with their bytes.                                            *)

Closed(x) == \A p \in x.plans : Output[p] \in x.bytes

PlansInv == Closed(index) /\ \A c \in Campaign : Closed(novelty[c]) /\ Closed(merged[c])

(* Merging indices in which plans come with their bytes gives another.     *)
LEMMA MergeClosed ==
  ASSUME NEW a, NEW b, Closed(a), Closed(b)
  PROVE  Closed(Merge(a, b))
  BY DEF Closed, Merge

(* So does entering a plan together with its image, or a result.           *)
LEMMA LearnClosed ==
  ASSUME NEW x \in NoveltyIndex, Closed(x)
  PROVE  /\ \A p \in Plan : Closed(WithPlan(x, p, Output[p]))
         /\ \A i : Closed(WithResult(x, i))
  BY DEF Closed, WithPlan, WithResult, NoveltyIndex

LEMMA PlansInit == Init => PlansInv
  BY DEF Init, PlansInv, Closed, EmptyIndex

LEMMA PlansCase ==
  ASSUME TypeInv, PlansInv, NEW c \in Campaign, Load(c) \/ Case(c)
  PROVE  PlansInv'
  <1>1. UNCHANGED <<index, merged>>
    BY CaseFrame
  <1>2. novelty[c] \in NoveltyIndex /\ Closed(novelty[c]) /\ Closed(index)
    BY DEF TypeInv, TypeOK, PlansInv
  <1>3. \E x : novelty' = [novelty EXCEPT ![c] = x] /\ Closed(x)
    <2>1. CASE novelty' = novelty
      <3>1. novelty = [novelty EXCEPT ![c] = novelty[c]]
        BY DEF TypeInv, TypeOK
      <3>2. QED
        BY <1>2, <2>1, <3>1
    <2>2. CASE novelty' = [novelty EXCEPT ![c] = index]
      BY <1>2, <2>2
    <2>3. CASE \E p \in Plan : Remember(c, p)
      BY <1>2, <2>3, LearnClosed DEF Remember
    <2>4. CASE \E i : novelty' = [novelty EXCEPT ![c] = WithResult(novelty[c], i)]
      BY <1>2, <2>4, LearnClosed
    <2>5. QED
      BY <2>1, <2>2, <2>3, <2>4, Learning
  <1>4. PICK x : novelty' = [novelty EXCEPT ![c] = x] /\ Closed(x)
    BY <1>3
  <1>5. ASSUME NEW d \in Campaign PROVE Closed(novelty'[d])
    BY <1>4 DEF TypeInv, TypeOK, PlansInv
  <1>6. QED
    BY <1>1, <1>5 DEF PlansInv, Closed

LEMMA PlansSave ==
  ASSUME TypeInv, PlansInv, NEW c \in Campaign, Save(c)
  PROVE  PlansInv'
  <1>1. novelty' = novelty
    BY SaveFrame
  <1>2. CASE MergeIndex(c)
    <2>1. merged' = [merged EXCEPT ![c] = Merge(index, novelty[c])] /\ index' = index
      BY <1>2 DEF MergeIndex
    <2>2. \A d \in Campaign : Closed(merged'[d])
      BY <2>1, MergeClosed DEF PlansInv, TypeInv, TypeOK
    <2>3. QED
      BY <1>1, <2>1, <2>2 DEF PlansInv, Closed
  <1>3. CASE ReplaceIndex(c)
    BY <1>1, <1>3 DEF ReplaceIndex, PlansInv, Closed
  <1>4. CASE AcquireLock(c) \/ ReleaseLock(c) \/ WriteReport(c)
    BY <1>1, <1>4 DEF AcquireLock, ReleaseLock, WriteReport, PlansInv, Closed
  <1>5. QED
    BY <1>2, <1>3, <1>4 DEF Save

(* A plan that is known anywhere is known with its image, through every    *)
(* merge: a duplicate plan is always a case of duplicate bytes.            *)
THEOREM PlansKeepBytes == Spec => []PlansComeWithBytes
  <1>1. PlansInv => PlansComeWithBytes
    BY DEF PlansInv, PlansComeWithBytes, Closed
  <1>2. ASSUME TypeInv, PlansInv, [Next]_vars PROVE PlansInv'
    <2>1. CASE UNCHANGED vars
      BY <1>2, <2>1 DEF PlansInv, Closed, vars
    <2>2. ASSUME NEW c \in Campaign, Fail(c) \/ Cancel(c) \/ Expire(c) PROVE PlansInv'
      BY <1>2, <2>2, EnvironmentFrame DEF PlansInv, Closed
    <2>3. QED
      BY <1>2, <2>1, <2>2, PlansCase, PlansSave DEF Next, Step, Terminated
  <1>3. QED
    BY <1>1, <1>2, PlansInit, TypeCorrect, PTL DEF Spec

-----------------------------------------------------------------------------
(* An image is judged at most once.                                        *)

FreshOf(s) == {i \in DOMAIN s : Fresh(s[i])}

Judged(s) == {s[i].sample : i \in FreshOf(s)}

Once(s) == \A i, j \in FreshOf(s) : i # j => s[i].sample # s[j].sample

(* The images a campaign has judged and the one in hand are known to it,   *)
(* were not known to the index it loaded, and all differ.                  *)
JudgeInv(c) ==
  /\ pc[c] = "start" => reports[c] = <<>>
  /\ base[c].bytes \subseteq novelty[c].bytes
  /\ Judged(reports[c]) \subseteq novelty[c].bytes \ base[c].bytes
  /\ Once(reports[c])
  /\ pc[c] \in Holding =>
       Output[current[c]] \in novelty[c].bytes \ (base[c].bytes \cup Judged(reports[c]))

(* A duplicate or a planning error judges nothing.                         *)
LEMMA AppendStale ==
  ASSUME NEW s \in Seq(CaseReport), NEW r \in CaseReport, ~Fresh(r)
  PROVE  /\ Judged(Append(s, r)) = Judged(s)
         /\ Once(s) => Once(Append(s, r))
  <1>1. /\ DOMAIN Append(s, r) = 1..(Len(s) + 1) /\ DOMAIN s = 1..Len(s)
        /\ \A i \in DOMAIN s : Append(s, r)[i] = s[i]
        /\ Append(s, r)[Len(s) + 1] = r
        /\ Len(s) \in Nat
    OBVIOUS
  <1>2. FreshOf(Append(s, r)) = FreshOf(s)
    BY <1>1 DEF FreshOf
  <1>3. \A i \in FreshOf(s) : Append(s, r)[i] = s[i]
    BY <1>1 DEF FreshOf
  <1>4. QED
    BY <1>2, <1>3 DEF Judged, Once

(* A fresh report judges one image more.                                   *)
LEMMA AppendFresh ==
  ASSUME NEW s \in Seq(CaseReport), NEW r \in CaseReport, Fresh(r), r.sample \notin Judged(s)
  PROVE  /\ Judged(Append(s, r)) = Judged(s) \cup {r.sample}
         /\ Once(s) => Once(Append(s, r))
  <1>1. /\ DOMAIN Append(s, r) = 1..(Len(s) + 1) /\ DOMAIN s = 1..Len(s)
        /\ \A i \in DOMAIN s : Append(s, r)[i] = s[i]
        /\ Append(s, r)[Len(s) + 1] = r
        /\ Len(s) \in Nat
    OBVIOUS
  <1>2. FreshOf(Append(s, r)) = FreshOf(s) \cup {Len(s) + 1}
    BY <1>1 DEF FreshOf
  <1>3. \A i \in FreshOf(s) : Append(s, r)[i] = s[i]
    BY <1>1 DEF FreshOf
  <1>4. Judged(Append(s, r)) = Judged(s) \cup {r.sample}
    <2> DEFINE t == Append(s, r)
    <2>1. /\ FreshOf(t) = FreshOf(s) \cup {Len(s) + 1}
          /\ \A i \in FreshOf(s) : t[i] = s[i]
          /\ t[Len(s) + 1] = r
      BY <1>1, <1>2, <1>3
    <2> HIDE DEF t
    <2>2. Judged(t) = {t[i].sample : i \in FreshOf(s)} \cup {t[Len(s) + 1].sample}
      BY <2>1 DEF Judged
    <2>3. {t[i].sample : i \in FreshOf(s)} = Judged(s)
      BY <2>1 DEF Judged
    <2>4. Judged(t) = Judged(s) \cup {r.sample}
      BY <2>1, <2>2, <2>3
    <2>5. QED
      BY <2>4 DEF t
  <1>5. ASSUME Once(s) PROVE Once(Append(s, r))
    <2>1. \A i \in FreshOf(s) : s[i].sample # r.sample
      BY DEF Judged
    <2>2. QED
      BY <1>1, <1>2, <1>3, <1>5, <2>1 DEF Once
  <1>6. QED
    BY <1>4, <1>5

(* A step of the case loop of c leaves the other campaigns alone.          *)
LEMMA OthersAlone ==
  ASSUME TypeInv, NEW c \in Campaign, Load(c) \/ Case(c), NEW d \in Campaign, d # c
  PROVE  /\ pc'[d] = pc[d] /\ novelty'[d] = novelty[d] /\ base'[d] = base[d]
         /\ reports'[d] = reports[d] /\ current'[d] = current[d]
  <1>0. /\ \E to \in Control : pc' = [pc EXCEPT ![c] = to]
        /\ \E x : novelty' = [novelty EXCEPT ![c] = x]
    BY CaseFrame
  <1> USE DEF TypeInv, TypeOK
  <1>1. pc'[d] = pc[d] /\ novelty'[d] = novelty[d]
    BY <1>0
  <1>2. CASE Load(c)
    BY <1>1, <1>2 DEF Load, caseVars, countVars
  <1>3. CASE RustOracle(c) \/ FsckOracle(c) \/ LinuxOracle(c)
    BY <1>1, <1>3, OracleSteps DEF OracleRun, setup
  <1>4. CASE \/ Exhaust(c) \/ StopBeforeCase(c) \/ PlanFails(c) \/ PlanDuplicate(c)
             \/ PlanFresh(c) \/ Materialize(c) \/ MaterializePanics(c) \/ FinishCase(c)
    BY <1>1, <1>4 DEF Exhaust, StopBeforeCase, PlanFails, PlanDuplicate, PlanFresh, Materialize,
                      MaterializePanics, FinishCase, Report, setup, caseVars, countVars
  <1>5. QED
    BY <1>2, <1>3, <1>4 DEF Case

LEMMA JudgeOwnStep ==
  ASSUME TypeInv, NEW c \in Campaign, JudgeInv(c), Load(c) \/ Case(c)
  PROVE  JudgeInv(c)'
  <1> USE DEF TypeInv, TypeOK, Goto
  <1>1. reports[c] \in Seq(CaseReport)
    OBVIOUS
  <1>2. ASSUME NEW r \in CaseReport, ~Fresh(r), pc'[c] \notin Holding \cup {"start"},
               reports' = [reports EXCEPT ![c] = Append(@, r)],
               novelty[c].bytes \subseteq novelty'[c].bytes, base' = base
        PROVE  JudgeInv(c)'
    BY <1>1, <1>2, AppendStale DEF JudgeInv
  <1>3. CASE Load(c)
    <2>1. Judged(<<>>) = {} /\ Once(<<>>)
      BY DEF Judged, Once, FreshOf
    <2>2. QED
      BY <1>3, <2>1 DEF Load, JudgeInv, Holding, countVars
  <1>4. CASE Exhaust(c) \/ StopBeforeCase(c)
    BY <1>4 DEF Exhaust, StopBeforeCase, JudgeInv, Holding, setup, countVars
  <1>5. CASE PlanFails(c)
    <2>1. [sample |-> NoSample, duplicate |-> FALSE, results |-> {}] \in CaseReport
      BY DEF CaseReport
    <2>2. QED
      BY <1>2, <1>5, <2>1 DEF PlanFails, BeginCase, Report, Fresh, Holding, setup
  <1>6. CASE PlanDuplicate(c)
    <2>1. PICK p \in Plan : /\ BeginCase(c) /\ Remember(c, p)
                            /\ Report(c, Output[p], TRUE, {})
                            /\ UNCHANGED <<pc, setup, stopped, merged, panicked>>
      BY <1>6 DEF PlanDuplicate
    <2>2. [sample |-> Output[p], duplicate |-> TRUE, results |-> {}] \in CaseReport
      BY CampaignAssumption DEF CaseReport
    <2>3. novelty[c].bytes \subseteq novelty'[c].bytes
      BY <2>1 DEF Remember, WithPlan, NoveltyIndex
    <2>4. QED
      BY <1>2, <2>1, <2>2, <2>3 DEF BeginCase, Report, Fresh, Holding, setup
  <1>7. CASE PlanFresh(c)
    <2>1. PICK p \in Plan : /\ BeginCase(c) /\ Remember(c, p)
                            /\ Output[p] \notin novelty[c].bytes
                            /\ current' = [current EXCEPT ![c] = p]
                            /\ pc' = [pc EXCEPT ![c] = "materialize"]
                            /\ UNCHANGED <<setup, countVars>>
      BY <1>7 DEF PlanFresh
    <2>2. novelty'[c].bytes = novelty[c].bytes \cup {Output[p]}
      BY <2>1 DEF Remember, WithPlan, NoveltyIndex
    <2>3. QED
      BY <2>1, <2>2 DEF JudgeInv, Holding, setup, countVars
  <1>8. CASE Materialize(c)
    <2>1. \E to \in {"rust", "push"} : pc' = [pc EXCEPT ![c] = to]
      BY <1>8 DEF Materialize
    <2>2. QED
      BY <1>8, <2>1 DEF Materialize, JudgeInv, Holding, setup, caseVars
  <1>9. CASE MaterializePanics(c)
    <2>1. [sample |-> NoSample, duplicate |-> FALSE, results |-> {}] \in CaseReport
      BY DEF CaseReport
    <2>2. QED
      BY <1>2, <1>9, <2>1 DEF MaterializePanics, Report, Fresh, Holding, setup
  <1>10. CASE RustOracle(c) \/ FsckOracle(c) \/ LinuxOracle(c)
    <2>1. PICK profile \in Profile, v \in Outcome(c), escalate \in BOOLEAN,
               next \in {"fsck", "linux", "push"} : OracleRun(c, profile, v, escalate, next)
      BY <1>10, OracleSteps
    <2>2. /\ pc[c] \in Holding
          /\ \E to \in {"fsck", "linux", "push"} : pc' = [pc EXCEPT ![c] = to]
          /\ UNCHANGED <<base, current, reports>>
      BY <2>1 DEF OracleRun, Profile, Holding, setup
    <2>3. novelty'[c].bytes = novelty[c].bytes
      BY <2>1 DEF OracleRun, Record, WithResult, NoveltyIndex
    <2>4. QED
      BY <2>2, <2>3 DEF JudgeInv, Holding
  <1>11. CASE FinishCase(c)
    <2> DEFINE r == [sample |-> Output[current[c]], duplicate |-> FALSE, results |-> results[c]]
    <2>1. pc[c] \in Holding /\ \E to \in {"lock", "case"} : pc' = [pc EXCEPT ![c] = to]
      BY <1>11 DEF FinishCase, Holding
    <2>2. r \in CaseReport /\ Fresh(r)
      BY <2>1, CampaignAssumption DEF PlanInHand, CaseReport, Fresh
    <2>3. reports' = [reports EXCEPT ![c] = Append(@, r)] /\ UNCHANGED <<novelty, base>>
      BY <1>11 DEF FinishCase, Report, setup
    <2>4. r.sample \notin Judged(reports[c]) /\ r.sample \in novelty[c].bytes \ base[c].bytes
      BY <2>1 DEF JudgeInv
    <2>5. /\ Judged(Append(reports[c], r)) = Judged(reports[c]) \cup {r.sample}
          /\ Once(reports[c]) => Once(Append(reports[c], r))
      BY <1>1, <2>2, <2>4, AppendFresh
    <2>6. pc'[c] \notin Holding \cup {"start"}
      BY <2>1 DEF Holding
    <2>7. reports'[c] = Append(reports[c], r)
      BY <2>3
    <2>8. QED
      BY <2>3, <2>4, <2>5, <2>6, <2>7 DEF JudgeInv
  <1>12. QED
    BY <1>3, <1>4, <1>5, <1>6, <1>7, <1>8, <1>9, <1>10, <1>11 DEF Case

LEMMA JudgeInit == Init => \A c \in Campaign : JudgeInv(c)
  BY DEF Init, JudgeInv, Judged, Once, FreshOf, EmptyIndex, Holding

LEMMA JudgeStep ==
  ASSUME TypeInv, \A d \in Campaign : JudgeInv(d), [Next]_vars
  PROVE  \A d \in Campaign : JudgeInv(d)'
  <1>1. ASSUME NEW c \in Campaign, Load(c) \/ Case(c), NEW d \in Campaign
        PROVE  JudgeInv(d)'
    <2>1. CASE d = c
      BY <1>1, <2>1, JudgeOwnStep
    <2>2. CASE d # c
      BY <1>1, <2>2, OthersAlone DEF JudgeInv
    <2>3. QED
      BY <2>1, <2>2
  <1>2. ASSUME NEW c \in Campaign, Save(c), NEW d \in Campaign
        PROVE  JudgeInv(d)'
    <2>1. UNCHANGED <<base, novelty, current, reports>>
      BY <1>2, SaveFrame
    <2>2. \E to \in {"merge", "replace", "unlock", "report", "done"} :
            pc' = [pc EXCEPT ![c] = to]
      BY <1>2 DEF Save, AcquireLock, MergeIndex, ReplaceIndex, ReleaseLock, WriteReport, Goto
    <2>3. pc'[d] \in Holding \cup {"start"} => pc'[d] = pc[d]
      BY <2>2 DEF Holding, TypeInv, TypeOK
    <2>4. QED
      BY <2>1, <2>3 DEF JudgeInv
  <1>3. ASSUME NEW c \in Campaign, Fail(c) \/ Cancel(c) \/ Expire(c), NEW d \in Campaign
        PROVE  JudgeInv(d)'
    <2>1. pc'[d] \in Holding \cup {"start"} => pc'[d] = pc[d]
      BY <1>3, EnvironmentFrame DEF Holding, TypeInv, TypeOK
    <2>2. QED
      BY <1>3, <2>1, EnvironmentFrame DEF JudgeInv
  <1>4. CASE UNCHANGED vars
    BY <1>4 DEF vars, JudgeInv
  <1>5. QED
    BY <1>1, <1>2, <1>3, <1>4 DEF Next, Step, Terminated

(* No image is judged twice by a campaign, nor one that the index it       *)
(* loaded already knew.                                                    *)
THEOREM JudgedOnce == Spec => []JudgedAtMostOnce
  <1>1. (\A c \in Campaign : JudgeInv(c)) => JudgedAtMostOnce
    BY DEF JudgeInv, JudgedAtMostOnce, Judged, Once, FreshOf, FreshReports
  <1>2. TypeInv /\ (\A c \in Campaign : JudgeInv(c)) /\ [Next]_vars
          => (\A c \in Campaign : JudgeInv(c))'
    BY JudgeStep
  <1>3. QED
    BY <1>1, <1>2, JudgeInit, TypeCorrect, PTL DEF Spec

-----------------------------------------------------------------------------
(* A run killed by cancellation leaves no verdict.                         *)

Clean(s) == \A i \in s : IsVerdict(i)

CleanReports(s) == \A k \in DOMAIN s : Clean(s[k].results)

(* Beside the property: the results of the case in hand, and the index     *)
(* about to be written.                                                    *)
CleanInv ==
  /\ Clean(index.results)
  /\ \A c \in Campaign : /\ Clean(novelty[c].results)
                         /\ Clean(results[c])
                         /\ Clean(merged[c].results)
                         /\ CleanReports(reports[c])

(* A report of a clean case keeps a list of reports clean.                 *)
LEMMA AppendClean ==
  ASSUME NEW s \in Seq(CaseReport), CleanReports(s), NEW r, Clean(r.results)
  PROVE  CleanReports(Append(s, r))
  <1>1. /\ DOMAIN Append(s, r) = DOMAIN s \cup {Len(s) + 1}
        /\ \A k \in DOMAIN s : Append(s, r)[k] = s[k]
        /\ Append(s, r)[Len(s) + 1] = r
    OBVIOUS
  <1>2. QED
    BY <1>1 DEF CleanReports

(* Merging clean indices, entering a plan or a verdict keeps them clean.   *)
LEMMA LearnClean ==
  ASSUME NEW x \in NoveltyIndex, NEW y \in NoveltyIndex, Clean(x.results), Clean(y.results)
  PROVE  /\ Clean(Merge(x, y).results)
         /\ \A p, image : Clean(WithPlan(x, p, image).results)
         /\ \A i : IsVerdict(i) => Clean(WithResult(x, i).results)
  BY DEF Clean, Merge, WithPlan, WithResult, NoveltyIndex

LEMMA CleanInit == Init => CleanInv
  BY DEF Init, CleanInv, Clean, CleanReports, EmptyIndex

(* The three ways of reporting a case report no cancelled run.             *)
LEMMA CleanReporting ==
  ASSUME TypeInv, CleanInv, NEW c \in Campaign, NEW sample, NEW duplicate, NEW found,
         Clean(found), Report(c, sample, duplicate, found)
  PROVE  \A d \in Campaign : CleanReports(reports'[d])
  <1> DEFINE r == [sample |-> sample, duplicate |-> duplicate, results |-> found]
  <1>1. reports' = [reports EXCEPT ![c] = Append(reports[c], r)]
    BY DEF Report
  <1>2. reports[c] \in Seq(CaseReport) /\ CleanReports(reports[c])
    BY DEF TypeInv, TypeOK, CleanInv
  <1>3. r.results = found
    OBVIOUS
  <1> HIDE DEF r
  <1>4. CleanReports(Append(reports[c], r))
    BY <1>2, <1>3, AppendClean
  <1>5. QED
    BY <1>1, <1>4 DEF TypeInv, TypeOK, CleanInv

LEMMA CleanCase ==
  ASSUME TypeInv, CleanInv, NEW c \in Campaign, Load(c) \/ Case(c)
  PROVE  CleanInv'
  <1>1. UNCHANGED <<index, merged>>
    BY CaseFrame
  <1>2. \A d \in Campaign : Clean(novelty'[d].results)
    <2>1. /\ novelty[c] \in NoveltyIndex /\ Clean(novelty[c].results) /\ Clean(index.results)
          /\ novelty \in [Campaign -> NoveltyIndex]
      BY DEF TypeInv, TypeOK, CleanInv
    <2>2. CASE novelty' = novelty
      BY <2>2 DEF CleanInv
    <2>3. ASSUME NEW x, novelty' = [novelty EXCEPT ![c] = x], Clean(x.results)
          PROVE  \A d \in Campaign : Clean(novelty'[d].results)
      BY <2>1, <2>3 DEF CleanInv
    <2>4. CASE novelty' = [novelty EXCEPT ![c] = index]
      BY <2>1, <2>3, <2>4
    <2>5. ASSUME NEW p \in Plan, Remember(c, p)
          PROVE  \A d \in Campaign : Clean(novelty'[d].results)
      BY <2>1, <2>3, <2>5, LearnClean DEF Remember
    <2>6. ASSUME NEW profile \in Profile, NEW v \in Outcome(c), v.status # "cancelled",
                 novelty' = [novelty EXCEPT ![c] = WithResult(novelty[c], <<profile, v>>)]
          PROVE  \A d \in Campaign : Clean(novelty'[d].results)
      <3>1. IsVerdict(<<profile, v>>)
        BY <2>6 DEF IsVerdict
      <3>2. QED
        BY <2>1, <2>3, <2>6, <3>1, LearnClean
    <2>7. QED
      BY <2>2, <2>4, <2>5, <2>6, Learning
  <1>3. /\ \A d \in Campaign : Clean(results'[d])
        /\ \A d \in Campaign : CleanReports(reports'[d])
    <2>1. Clean({}) /\ Clean(results[c]) /\ results \in [Campaign -> SUBSET Identity]
      BY DEF Clean, CleanInv, TypeInv, TypeOK
    <2>2. CASE Load(c) \/ Exhaust(c) \/ StopBeforeCase(c) \/ Materialize(c)
      BY <2>2 DEF Load, Exhaust, StopBeforeCase, Materialize, caseVars, countVars, CleanInv
    <2>3. CASE PlanFails(c) \/ MaterializePanics(c)
      <3>1. results' = results /\ Report(c, NoSample, FALSE, {})
        BY <2>3 DEF PlanFails, MaterializePanics, caseVars
      <3>2. QED
        BY <2>1, <3>1, CleanReporting DEF CleanInv
    <2>4. CASE PlanDuplicate(c)
      <3>1. results' = results /\ \E p \in Plan : Report(c, Output[p], TRUE, {})
        BY <2>4 DEF PlanDuplicate, caseVars
      <3>2. QED
        BY <2>1, <3>1, CleanReporting DEF CleanInv
    <2>5. CASE PlanFresh(c)
      <3>1. results' = [results EXCEPT ![c] = {}] /\ reports' = reports
        BY <2>5 DEF PlanFresh, countVars
      <3>2. QED
        BY <2>1, <3>1 DEF CleanInv
    <2>6. CASE RustOracle(c) \/ FsckOracle(c) \/ LinuxOracle(c)
      <3>1. PICK profile \in Profile, v \in Outcome(c), escalate \in BOOLEAN,
                 next \in {"fsck", "linux", "push"} : OracleRun(c, profile, v, escalate, next)
        BY <2>6, OracleSteps
      <3>2. Record(c, profile, v) /\ reports' = reports
        BY <3>1 DEF OracleRun
      <3>3. CASE v.status = "cancelled"
        BY <3>2, <3>3 DEF Record, CleanInv
      <3>4. CASE v.status # "cancelled"
        <4>1. results' = [results EXCEPT ![c] = results[c] \cup {<<profile, v>>}]
          BY <3>2, <3>4 DEF Record
        <4>2. Clean(results[c] \cup {<<profile, v>>})
          BY <2>1, <3>4 DEF Clean, IsVerdict
        <4>3. QED
          BY <2>1, <3>2, <4>1, <4>2 DEF CleanInv
      <3>5. QED
        BY <3>3, <3>4
    <2>7. CASE FinishCase(c)
      <3>1. results' = results /\ Report(c, Output[current[c]], FALSE, results[c])
        BY <2>7 DEF FinishCase, caseVars
      <3>2. QED
        BY <2>1, <3>1, CleanReporting DEF CleanInv
    <2>8. QED
      BY <2>2, <2>3, <2>4, <2>5, <2>6, <2>7 DEF Case
  <1>4. QED
    BY <1>1, <1>2, <1>3 DEF CleanInv

LEMMA CleanSave ==
  ASSUME TypeInv, CleanInv, NEW c \in Campaign, Save(c)
  PROVE  CleanInv'
  <1>1. UNCHANGED <<novelty, results, reports>>
    BY SaveFrame DEF Save, AcquireLock, MergeIndex, ReplaceIndex, ReleaseLock, WriteReport,
                     Saving, caseVars
  <1>2. CASE MergeIndex(c)
    <2>1. merged' = [merged EXCEPT ![c] = Merge(index, novelty[c])] /\ index' = index
      BY <1>2 DEF MergeIndex
    <2>2. Clean(Merge(index, novelty[c]).results)
      BY LearnClean DEF CleanInv, TypeInv, TypeOK
    <2>3. \A d \in Campaign : Clean(merged'[d].results)
      BY <2>1, <2>2 DEF CleanInv, TypeInv, TypeOK
    <2>4. QED
      BY <1>1, <2>1, <2>3 DEF CleanInv
  <1>3. CASE ReplaceIndex(c)
    BY <1>1, <1>3 DEF ReplaceIndex, CleanInv
  <1>4. CASE AcquireLock(c) \/ ReleaseLock(c) \/ WriteReport(c)
    BY <1>1, <1>4 DEF AcquireLock, ReleaseLock, WriteReport, CleanInv
  <1>5. QED
    BY <1>2, <1>3, <1>4 DEF Save

(* An oracle run killed by cancellation leaves nothing in the shared       *)
(* index, in memory or in a report, whoever merges with whom.              *)
THEOREM CancelledIsSilent == Spec => []CancelledLeavesNoVerdict
  <1>1. CleanInv => CancelledLeavesNoVerdict
    BY DEF CleanInv, CancelledLeavesNoVerdict, Clean, CleanReports
  <1>2. ASSUME TypeInv, CleanInv, [Next]_vars PROVE CleanInv'
    <2>1. CASE UNCHANGED vars
      BY <1>2, <2>1 DEF CleanInv, vars
    <2>2. ASSUME NEW c \in Campaign, Fail(c) \/ Cancel(c) \/ Expire(c) PROVE CleanInv'
      <3>1. results' = results
        BY <2>2 DEF Fail, Cancel, Expire, caseVars
      <3>2. QED
        BY <1>2, <2>2, <3>1, EnvironmentFrame DEF CleanInv
    <2>3. QED
      BY <1>2, <2>1, <2>2, CleanCase, CleanSave DEF Next, Step, Terminated
  <1>3. QED
    BY <1>1, <1>2, CleanInit, TypeCorrect, PTL DEF Spec

-----------------------------------------------------------------------------
(* The reason for stopping is true.                                        *)

InLoop(c) == pc[c] \in {"start", "case"} \cup Holding

Reason(c) ==
  /\ stopped[c] = "completed" => Len(reports[c]) = cases[c]
  /\ stopped[c] = "cancelled" => request[c]
  /\ stopped[c] = "wall_time" => expired[c]
  /\ stopped[c] = "oracle_budget" =>
       oracleRuns[c] = spec[c].maxOracleRuns /\ spec[c].funnel # "MaterializeOnly"

(* In the loop no reason has been given yet, and the cases begun are the   *)
(* cases reported and the one in hand.                                     *)
StopInv(c) ==
  /\ killed[c] => request[c]
  /\ InLoop(c) => stopped[c] = "completed"
  /\ pc[c] \in {"start", "case"} => Len(reports[c]) = at[c]
  /\ pc[c] \in Holding => Len(reports[c]) + 1 = at[c]
  /\ AfterLoop(c) => Reason(c)

LEMMA StopInit == Init => \A c \in Campaign : StopInv(c)
  BY DEF Init, StopInv, InLoop, Holding, AfterLoop

(* A report makes the list one longer.                                     *)
LEMMA ReportCounts ==
  ASSUME TypeInv, NEW c \in Campaign, NEW sample, NEW duplicate, NEW found,
         Report(c, sample, duplicate, found)
  PROVE  Len(reports'[c]) = Len(reports[c]) + 1
  <1> DEFINE r == [sample |-> sample, duplicate |-> duplicate, results |-> found]
  <1>1. reports'[c] = Append(reports[c], r)
    BY DEF Report, TypeInv, TypeOK
  <1>2. reports[c] \in Seq(CaseReport)
    BY DEF TypeInv, TypeOK
  <1> HIDE DEF r
  <1>3. QED
    BY <1>1, <1>2

(* No step of a campaign touches what another one counts or decides.       *)
LEMMA StopFrame ==
  ASSUME TypeInv, NEW c \in Campaign, Step(c) \/ Fail(c) \/ Cancel(c) \/ Expire(c),
         NEW d \in Campaign, d # c
  PROVE  /\ pc'[d] = pc[d] /\ at'[d] = at[d] /\ killed'[d] = killed[d]
         /\ reports'[d] = reports[d] /\ stopped'[d] = stopped[d]
         /\ oracleRuns'[d] = oracleRuns[d] /\ UNCHANGED <<spec, cases>>
         /\ request'[d] = request[d] /\ expired'[d] = expired[d]
  <1> USE DEF TypeInv, TypeOK, Goto
  <1>1. CASE Load(c)
    BY <1>1 DEF Load, caseVars, countVars, envVars
  <1>2. CASE RustOracle(c) \/ FsckOracle(c) \/ LinuxOracle(c)
    <2>1. PICK profile \in Profile, v \in Outcome(c), escalate \in BOOLEAN,
               next \in {"fsck", "linux", "push"} : OracleRun(c, profile, v, escalate, next)
      BY <1>2, OracleSteps
    <2>2. /\ oracleRuns' = [oracleRuns EXCEPT ![c] = @ + 1]
          /\ \E k \in BOOLEAN : killed' = [killed EXCEPT ![c] = k]
          /\ \E to \in Control : pc' = [pc EXCEPT ![c] = to]
          /\ UNCHANGED <<at, reports, stopped, spec, cases, request, expired>>
      BY <2>1 DEF OracleRun, setup, envVars, Control
    <2>3. QED
      BY <2>2
  <1>3. CASE \/ Exhaust(c) \/ StopBeforeCase(c) \/ PlanFails(c) \/ PlanDuplicate(c)
             \/ PlanFresh(c) \/ Materialize(c) \/ MaterializePanics(c)
    <2>1. CASE Exhaust(c)
      BY <2>1 DEF Exhaust, setup, caseVars, countVars, envVars
    <2>2. CASE StopBeforeCase(c)
      BY <2>2 DEF StopBeforeCase, setup, caseVars, countVars, envVars
    <2>3. CASE PlanFails(c) \/ PlanDuplicate(c)
      <3>1. /\ \E x : reports' = [reports EXCEPT ![c] = x]
            /\ at' = [at EXCEPT ![c] = @ + 1]
            /\ UNCHANGED <<pc, killed, stopped, oracleRuns, spec, cases, request, expired>>
        BY <2>3 DEF PlanFails, PlanDuplicate, BeginCase, Report, setup, caseVars, envVars
      <3> QED
        BY <3>1
    <2>4. CASE PlanFresh(c)
      BY <2>4 DEF PlanFresh, BeginCase, setup, caseVars, countVars, envVars
    <2>5. CASE Materialize(c) \/ MaterializePanics(c)
      BY <2>5 DEF Materialize, MaterializePanics, Report, setup, caseVars, countVars, envVars
    <2> QED
      BY <1>3, <2>1, <2>2, <2>3, <2>4, <2>5
  <1>4. CASE FinishCase(c)
    <2>1. /\ \E to \in Control : pc' = [pc EXCEPT ![c] = to]
          /\ \E x : reports' = [reports EXCEPT ![c] = x]
          /\ \E x : stopped' = [stopped EXCEPT ![c] = x]
          /\ UNCHANGED <<at, killed, oracleRuns, spec, cases, request, expired>>
      BY <1>4 DEF FinishCase, Report, setup, caseVars, envVars, Control
    <2>2. QED
      BY <2>1
  <1>5. CASE Save(c)
    BY <1>5 DEF Save, AcquireLock, MergeIndex, ReplaceIndex, ReleaseLock, WriteReport, Saving,
                setup, caseVars, countVars, envVars
  <1>6. CASE Fail(c) \/ Cancel(c) \/ Expire(c)
    BY <1>6 DEF Fail, Cancel, Expire, setup, caseVars, countVars, envVars
  <1>7. QED
    BY <1>1, <1>2, <1>3, <1>4, <1>5, <1>6 DEF Step, Case

LEMMA StopOwnStep ==
  ASSUME TypeInv, BudgetInv, NEW c \in Campaign, StopInv(c),
         Step(c) \/ Fail(c) \/ Cancel(c) \/ Expire(c)
  PROVE  StopInv(c)'
  <1> USE DEF TypeInv, TypeOK, Goto, StopInv, InLoop, Holding, AfterLoop
  <1>1. Len(reports[c]) \in Nat /\ at[c] \in Nat /\ cases[c] \in Nat
    <2>1. reports[c] \in Seq(CaseReport)
      OBVIOUS
    <2>2. QED
      BY <2>1, CampaignAssumption
  <1>2. CASE Load(c)
    BY <1>2 DEF Load, caseVars, countVars, envVars
  <1>3. CASE Exhaust(c)
    BY <1>3 DEF Exhaust, Reason, setup, caseVars, countVars, envVars
  <1>4. CASE StopBeforeCase(c)
    BY <1>4 DEF StopBeforeCase, Reason, setup, caseVars, countVars, envVars
  <1>5. CASE PlanFails(c) \/ PlanDuplicate(c)
    <2>1. /\ BeginCase(c) /\ Len(reports'[c]) = Len(reports[c]) + 1
          /\ UNCHANGED <<pc, stopped, killed, request>>
      BY <1>5, ReportCounts DEF PlanFails, PlanDuplicate, caseVars, envVars
    <2>2. QED
      BY <1>1, <2>1 DEF BeginCase
  <1>6. CASE PlanFresh(c)
    <2>1. /\ BeginCase(c) /\ pc' = [pc EXCEPT ![c] = "materialize"]
          /\ UNCHANGED <<reports, stopped, killed, request>>
      BY <1>6 DEF PlanFresh, countVars, envVars
    <2>2. QED
      BY <1>1, <2>1 DEF BeginCase
  <1>7. CASE Materialize(c)
    <2>1. /\ pc[c] \in Holding /\ pc'[c] \in Holding
          /\ UNCHANGED <<at, reports, stopped, killed, request>>
      BY <1>7 DEF Materialize, caseVars, envVars
    <2>2. QED
      BY <2>1
  <1>8. CASE MaterializePanics(c)
    <2>1. /\ pc[c] \in Holding /\ pc'[c] = "case" /\ Len(reports'[c]) = Len(reports[c]) + 1
          /\ UNCHANGED <<at, stopped, killed, request>>
      BY <1>8, ReportCounts DEF MaterializePanics, caseVars, envVars
    <2>2. QED
      BY <1>1, <2>1
  <1>9. CASE RustOracle(c) \/ FsckOracle(c) \/ LinuxOracle(c)
    <2>1. PICK profile \in Profile, v \in Outcome(c), escalate \in BOOLEAN,
               next \in {"fsck", "linux", "push"} : OracleRun(c, profile, v, escalate, next)
      BY <1>9, OracleSteps
    <2>2. pc[c] \in Holding /\ pc'[c] \in Holding
      BY <2>1 DEF OracleRun, Profile
    <2>3. UNCHANGED <<at, reports, stopped, request>>
      BY <2>1 DEF OracleRun, envVars
    <2>4. killed'[c] => request[c]
      <3>1. killed'[c] = (v.status = "cancelled")
        BY <2>1 DEF OracleRun
      <3>2. v \in Verdict => v.status # "cancelled"
        BY CampaignAssumption
      <3>3. QED
        BY <3>1, <3>2 DEF Outcome
    <2>5. QED
      BY <2>2, <2>3, <2>4
  <1>10. CASE FinishCase(c)
    <2>1. /\ pc[c] = "push" /\ Len(reports'[c]) = Len(reports[c]) + 1
          /\ UNCHANGED <<at, killed, request, expired, oracleRuns, spec, cases>>
      BY <1>10, ReportCounts DEF FinishCase, setup, caseVars, envVars
    <2>2. CASE ~StopAfterCase(c)
      <3>1. pc'[c] = "case" /\ stopped'[c] = stopped[c]
        BY <1>10, <2>2 DEF FinishCase, StopAfterCase
      <3>2. QED
        BY <1>1, <2>1, <3>1
    <2>3. CASE StopAfterCase(c)
      <3>1. pc'[c] = "lock"
        BY <1>10, <2>3 DEF FinishCase
      <3>2. CASE killed[c] \/ request[c]
        <4>1. stopped'[c] = "cancelled"
          BY <1>10, <3>2 DEF FinishCase
        <4>2. QED
          BY <2>1, <3>1, <3>2, <4>1 DEF Reason
      <3>3. CASE ~(killed[c] \/ request[c]) /\ expired[c]
        <4>1. stopped'[c] = "wall_time"
          BY <1>10, <3>3 DEF FinishCase
        <4>2. QED
          BY <2>1, <3>1, <3>3, <4>1 DEF Reason
      <3>4. CASE ~(killed[c] \/ request[c] \/ expired[c]) /\ OutOfRuns(c)
        <4>1. stopped'[c] = "oracle_budget"
          BY <1>10, <3>4 DEF FinishCase
        <4>2. oracleRuns[c] = spec[c].maxOracleRuns /\ spec[c].funnel # "MaterializeOnly"
          BY <3>4, BudgetType DEF OutOfRuns, BudgetInv
        <4>3. QED
          BY <2>1, <3>1, <3>4, <4>1, <4>2 DEF Reason
      <3>5. QED
        BY <2>3, <3>2, <3>3, <3>4 DEF StopAfterCase
    <2>4. QED
      BY <2>2, <2>3
  <1>11. CASE Save(c)
    <2>1. /\ AfterLoop(c)
          /\ \E to \in {"merge", "replace", "unlock", "report", "done"} :
               pc' = [pc EXCEPT ![c] = to]
          /\ UNCHANGED <<at, stopped, killed, request, expired, oracleRuns, spec, cases, reports>>
      BY <1>11 DEF Save, AcquireLock, MergeIndex, ReplaceIndex, ReleaseLock, WriteReport, Saving,
                   setup, caseVars, countVars, envVars
    <2>2. QED
      BY <2>1 DEF Reason
  <1>12. CASE Fail(c)
    BY <1>12 DEF Fail, caseVars, envVars
  <1>13. CASE Cancel(c) \/ Expire(c)
    <2>1. /\ UNCHANGED <<pc, at, stopped, killed, oracleRuns, spec, cases, reports>>
          /\ request[c] => request'[c]
          /\ expired[c] => expired'[c]
      BY <1>13 DEF Cancel, Expire, setup, caseVars, countVars
    <2>2. QED
      BY <2>1 DEF Reason
  <1>14. QED
    BY <1>2, <1>3, <1>4, <1>5, <1>6, <1>7, <1>8, <1>9, <1>10, <1>11, <1>12, <1>13
    DEF Step, Case

(* A campaign that says it completed has reported every case, one that     *)
(* says it was cancelled, late or out of runs was.                         *)
THEOREM ReasonsAreTrue == Spec => []StopReasonIsTrue
  <1>1. TypeInv /\ (\A c \in Campaign : StopInv(c)) => StopReasonIsTrue
    BY DEF StopInv, Reason, StopReasonIsTrue, TypeInv, TypeOK
  <1>2. ASSUME TypeInv, BudgetInv, \A c \in Campaign : StopInv(c), [Next]_vars
        PROVE  (\A c \in Campaign : StopInv(c))'
    <2>1. CASE UNCHANGED vars
      BY <1>2, <2>1 DEF vars, StopInv, InLoop, AfterLoop, Reason
    <2>2. ASSUME NEW c \in Campaign, Step(c) \/ Fail(c) \/ Cancel(c) \/ Expire(c),
                 NEW d \in Campaign
          PROVE  StopInv(d)'
      <3>1. CASE d = c
        BY <1>2, <2>2, <3>1, StopOwnStep
      <3>2. CASE d # c
        BY <1>2, <2>2, <3>2, StopFrame DEF StopInv, InLoop, AfterLoop, Reason
      <3>3. QED
        BY <3>1, <3>2
    <2>3. QED
      BY <1>2, <2>1, <2>2 DEF Next, Terminated
  <1>3. QED
    BY <1>1, <1>2, StopInit, BudgetInit, BudgetStep, TypeCorrect, PTL DEF Spec

-----------------------------------------------------------------------------
(* No case is skipped.                                                     *)

(* A report that was not taken as far as the funnel goes.                  *)
Unfinished(c, r) ==
  \/ spec[c].funnel # "MaterializeOnly" /\ Fresh(r) /\ r.results = {}
  \/ NeedsNextLevel(r)

InHand(c) == [sample |-> Output[current[c]], duplicate |-> FALSE, results |-> results[c]]

(* What the case in hand has been through, by the place of the campaign:   *)
(* when it comes to its report unfinished, there is a reason to stop.      *)
HandInv(c) ==
  /\ pc[c] \in Profile => spec[c].funnel # "MaterializeOnly"
  /\ pc[c] \in {"materialize", "rust"} => results[c] = {}
  /\ pc[c] = "fsck" => results[c] # {} /\ \A i \in results[c] : i[1] = "rust"
  /\ pc[c] = "linux" => \E i \in results[c] : i[1] = "fsck"
  /\ pc[c] = "push" => (Unfinished(c, InHand(c)) => StopAfterCase(c))

LeftAtTheEnd(c) ==
  \A i \in DOMAIN reports[c] :
    Unfinished(c, reports[c][i]) => i = Len(reports[c]) /\ stopped[c] # "completed"

SkipInv(c) == HandInv(c) /\ LeftAtTheEnd(c)

LEMMA SkipInit == Init => \A c \in Campaign : SkipInv(c)
  BY DEF Init, SkipInv, HandInv, LeftAtTheEnd, Profile

(* A case that reached no oracle needs no other; with a result of every    *)
(* level nothing is left to ask.                                           *)
LEMMA Needs ==
  ASSUME NEW r
  PROVE  /\ r.results = {} => ~NeedsNextLevel(r)
         /\ (\E i \in r.results : i[1] = "fsck") /\ (\E i \in r.results : i[1] = "linux")
              => ~NeedsNextLevel(r)
  <1>1. ASSUME r.results = {} PROVE ~NeedsNextLevel(r)
    BY <1>1 DEF NeedsNextLevel, ByProfile
  <1>2. ASSUME NEW i \in r.results, NEW j \in r.results, i[1] = "fsck", j[1] = "linux"
        PROVE  ~NeedsNextLevel(r)
    <2>1. i[2] \in ByProfile(r, "fsck") /\ j[2] \in ByProfile(r, "linux")
      BY <1>2 DEF ByProfile
    <2>2. QED
      BY <2>1 DEF NeedsNextLevel
  <1>3. QED
    BY <1>1, <1>2

(* The Rust oracle escalates whatever needs fsck, unless it may not.       *)
LEMMA HandRust ==
  ASSUME TypeInv, NEW c \in Campaign, HandInv(c), NEW v \in Outcome(c), NEW escalate \in BOOLEAN,
         v.status \in Abnormal => escalate, OracleRun(c, "rust", v, escalate, "fsck")
  PROVE  HandInv(c)'
  <1> USE DEF TypeInv, TypeOK
  <1>1. /\ pc[c] = "rust" /\ results[c] = {} /\ spec[c].funnel # "MaterializeOnly"
        /\ oracleRuns'[c] = oracleRuns[c] + 1 /\ UNCHANGED <<spec, current, request, expired>>
        /\ killed'[c] = (v.status = "cancelled")
    BY DEF OracleRun, HandInv, Profile, setup, envVars
  <1>2. CASE v.status = "cancelled"
    <2>1. pc'[c] = "push" /\ killed'[c]
      BY <1>1, <1>2 DEF OracleRun
    <2>2. QED
      BY <2>1 DEF HandInv, Profile, StopAfterCase
  <1>3. CASE v.status # "cancelled"
    <2> DEFINE t == <<"rust", v>>
    <2>0. t[1] = "rust" /\ t[2] = v
      OBVIOUS
    <2>1. results'[c] = {t}
      BY <1>1, <1>3 DEF OracleRun, Record
    <2> HIDE DEF t
    <2>2. CASE escalate /\ MayLaunch(c, oracleRuns[c] + 1)
      <3>1. pc'[c] = "fsck"
        BY <1>1, <1>3, <2>2 DEF OracleRun
      <3>2. QED
        BY <1>1, <2>0, <2>1, <3>1 DEF HandInv, Profile
    <2>3. CASE ~(escalate /\ MayLaunch(c, oracleRuns[c] + 1))
      <3>1. pc'[c] = "push"
        BY <1>1, <1>3, <2>3 DEF OracleRun
      <3>2. CASE escalate
        <4>1. expired'[c] \/ oracleRuns'[c] >= spec'[c].maxOracleRuns
          BY <1>1, <2>3, <3>2, BudgetType DEF MayLaunch
        <4>2. StopAfterCase(c)'
          BY <1>1, <4>1 DEF StopAfterCase, OutOfRuns
        <4>3. QED
          BY <3>1, <4>2 DEF HandInv, Profile
      <3>3. CASE ~escalate
        <4> DEFINE r == InHand(c)'
        <4>1. r.results = {t}
          BY <2>1 DEF InHand
        <4> HIDE DEF r
        <4>2. ByProfile(r, "rust") = {v} /\ ByProfile(r, "fsck") = {} /\ r.results # {}
          BY <2>0, <4>1 DEF ByProfile
        <4>3. ~NeedsNextLevel(r) /\ r.results # {}
          BY <3>3, <4>2 DEF NeedsNextLevel
        <4>4. ~Unfinished(c, InHand(c))'
          BY <4>3 DEF Unfinished, r
        <4>5. QED
          BY <3>1, <4>4 DEF HandInv, Profile
      <3>4. QED
        BY <3>2, <3>3
    <2>4. QED
      BY <2>2, <2>3
  <1>4. QED
    BY <1>2, <1>3

(* So does fsck, of what is abnormal or disagrees.                         *)
LEMMA HandFsck ==
  ASSUME TypeInv, NEW c \in Campaign, HandInv(c), NEW v \in Outcome(c), NEW escalate \in BOOLEAN,
         Disagrees(c, v) \/ v.status \in Abnormal => escalate,
         OracleRun(c, "fsck", v, escalate, "linux")
  PROVE  HandInv(c)'
  <1> USE DEF TypeInv, TypeOK
  <1>1. /\ pc[c] = "fsck" /\ spec[c].funnel # "MaterializeOnly"
        /\ \A i \in results[c] : i[1] = "rust"
        /\ oracleRuns'[c] = oracleRuns[c] + 1 /\ UNCHANGED <<spec, current, request, expired>>
        /\ killed'[c] = (v.status = "cancelled")
    BY DEF OracleRun, HandInv, Profile, setup, envVars
  <1>2. CASE v.status = "cancelled"
    <2>1. pc'[c] = "push" /\ killed'[c]
      BY <1>1, <1>2 DEF OracleRun
    <2>2. QED
      BY <2>1 DEF HandInv, Profile, StopAfterCase
  <1>3. CASE v.status # "cancelled"
    <2> DEFINE t == <<"fsck", v>>
    <2>0. t[1] = "fsck" /\ t[2] = v
      OBVIOUS
    <2>1. results'[c] = results[c] \cup {t}
      BY <1>1, <1>3 DEF OracleRun, Record
    <2> HIDE DEF t
    <2>2. CASE escalate /\ MayLaunch(c, oracleRuns[c] + 1)
      <3>1. pc'[c] = "linux"
        BY <1>1, <1>3, <2>2 DEF OracleRun
      <3>2. \E i \in results'[c] : i[1] = "fsck"
        BY <2>0, <2>1
      <3>3. QED
        BY <1>1, <3>1, <3>2 DEF HandInv, Profile
    <2>3. CASE ~(escalate /\ MayLaunch(c, oracleRuns[c] + 1))
      <3>1. pc'[c] = "push"
        BY <1>1, <1>3, <2>3 DEF OracleRun
      <3>2. CASE escalate
        <4>1. expired'[c] \/ oracleRuns'[c] >= spec'[c].maxOracleRuns
          BY <1>1, <2>3, <3>2, BudgetType DEF MayLaunch
        <4>2. StopAfterCase(c)'
          BY <1>1, <4>1 DEF StopAfterCase, OutOfRuns
        <4>3. QED
          BY <3>1, <4>2 DEF HandInv, Profile
      <3>3. CASE ~escalate
        <4> DEFINE r == InHand(c)'
        <4>1. r.results = results[c] \cup {t}
          BY <2>1 DEF InHand
        <4> HIDE DEF r
        <4>2. ByProfile(r, "fsck") = {v}
          BY <1>1, <2>0, <4>1 DEF ByProfile
        <4>3. \A w \in ByProfile(r, "rust") : w.status = v.status
          BY <2>0, <3>3, <4>1 DEF ByProfile, Disagrees
        <4>4. ~NeedsNextLevel(r) /\ r.results # {}
          BY <3>3, <4>1, <4>2, <4>3 DEF NeedsNextLevel
        <4>5. ~Unfinished(c, InHand(c))'
          BY <4>4 DEF Unfinished, r
        <4>6. QED
          BY <3>1, <4>5 DEF HandInv, Profile
      <3>4. QED
        BY <3>2, <3>3
    <2>4. QED
      BY <2>2, <2>3
  <1>4. QED
    BY <1>2, <1>3

(* Linux is the last level.                                                *)
LEMMA HandLinux ==
  ASSUME TypeInv, NEW c \in Campaign, HandInv(c), NEW v \in Outcome(c),
         OracleRun(c, "linux", v, FALSE, "push")
  PROVE  HandInv(c)'
  <1> USE DEF TypeInv, TypeOK
  <1>1. /\ pc[c] = "linux" /\ pc'[c] = "push"
        /\ \E i \in results[c] : i[1] = "fsck"
        /\ killed'[c] = (v.status = "cancelled")
    BY DEF OracleRun, HandInv, Profile
  <1>2. CASE v.status = "cancelled"
    BY <1>1, <1>2 DEF HandInv, Profile, StopAfterCase
  <1>3. CASE v.status # "cancelled"
    <2> DEFINE t == <<"linux", v>>
               r == InHand(c)'
    <2>0. t[1] = "linux" /\ t[2] = v
      OBVIOUS
    <2>1. r.results = results[c] \cup {t}
      BY <1>1, <1>3 DEF OracleRun, Record, InHand
    <2> HIDE DEF r, t
    <2>2. /\ \E i \in r.results : i[1] = "fsck"
          /\ \E i \in r.results : i[1] = "linux"
      BY <1>1, <2>0, <2>1
    <2>3. ~NeedsNextLevel(r) /\ r.results # {}
      BY <2>2, Needs
    <2>4. ~Unfinished(c, InHand(c))'
      BY <2>3 DEF Unfinished, r
    <2>5. QED
      BY <1>1, <2>4 DEF HandInv, Profile
  <1>4. QED
    BY <1>2, <1>3

LEMMA HandMaterialize ==
  ASSUME TypeInv, NEW c \in Campaign, HandInv(c), Materialize(c)
  PROVE  HandInv(c)'
  <1> USE DEF TypeInv, TypeOK
  <1>1. /\ pc[c] = "materialize" /\ results[c] = {}
        /\ UNCHANGED <<spec, current, results, killed, oracleRuns, request, expired>>
    BY DEF Materialize, Goto, HandInv, setup, caseVars, envVars
  <1>2. CASE spec[c].funnel # "MaterializeOnly" /\ MayLaunch(c, oracleRuns[c])
    <2>1. pc'[c] = "rust"
      BY <1>2 DEF Materialize, Goto
    <2>2. QED
      BY <1>1, <1>2, <2>1 DEF HandInv, Profile
  <1>3. CASE ~(spec[c].funnel # "MaterializeOnly" /\ MayLaunch(c, oracleRuns[c]))
    <2>1. pc'[c] = "push"
      BY <1>3 DEF Materialize, Goto
    <2>2. CASE spec[c].funnel # "MaterializeOnly"
      <3>1. expired[c] \/ oracleRuns[c] >= spec[c].maxOracleRuns
        BY <1>3, <2>2, BudgetType DEF MayLaunch
      <3>2. StopAfterCase(c)'
        BY <1>1, <2>2, <3>1 DEF StopAfterCase, OutOfRuns
      <3>3. QED
        BY <2>1, <3>2 DEF HandInv, Profile
    <2>3. CASE spec[c].funnel = "MaterializeOnly"
      <3>1. InHand(c)'.results = {}
        BY <1>1 DEF InHand
      <3>2. ~Unfinished(c, InHand(c))'
        BY <1>1, <2>3, <3>1, Needs DEF Unfinished
      <3>3. QED
        BY <2>1, <3>2 DEF HandInv, Profile
    <2>4. QED
      BY <2>2, <2>3
  <1>4. QED
    BY <1>2, <1>3

(* Outside the funnel there is no case in hand, and a case in hand is not  *)
(* touched by the environment.                                             *)
LEMMA HandElsewhere ==
  ASSUME TypeInv, NEW c \in Campaign, HandInv(c),
         \/ Load(c) \/ Exhaust(c) \/ StopBeforeCase(c) \/ PlanFails(c) \/ PlanDuplicate(c)
         \/ PlanFresh(c) \/ MaterializePanics(c) \/ FinishCase(c) \/ Save(c) \/ Fail(c)
  PROVE  HandInv(c)'
  <1> USE DEF TypeInv, TypeOK, Goto
  <1>1. CASE PlanFresh(c)
    <2>1. pc'[c] = "materialize" /\ results'[c] = {}
      BY <1>1 DEF PlanFresh
    <2>2. QED
      BY <2>1 DEF HandInv, Profile
  <1>2. ASSUME ~PlanFresh(c)
        PROVE  pc'[c] \notin Holding
    <2>1. CASE FinishCase(c)
      <3>1. \E to \in {"lock", "case"} : pc' = [pc EXCEPT ![c] = to]
        BY <2>1 DEF FinishCase
      <3>2. QED
        BY <3>1 DEF Holding
    <2>2. CASE Save(c)
      BY <2>2 DEF Save, AcquireLock, MergeIndex, ReplaceIndex, ReleaseLock, WriteReport, Holding
    <2>3. CASE \/ Load(c) \/ Exhaust(c) \/ StopBeforeCase(c) \/ PlanFails(c)
               \/ PlanDuplicate(c) \/ MaterializePanics(c) \/ Fail(c)
      BY <2>3 DEF Load, Exhaust, StopBeforeCase, PlanFails, PlanDuplicate, BeginCase,
                  MaterializePanics, Fail, Holding
    <2>4. QED
      BY <1>2, <2>1, <2>2, <2>3
  <1>3. QED
    BY <1>1, <1>2 DEF HandInv, Profile, Holding

LEMMA HandOwnStep ==
  ASSUME TypeInv, NEW c \in Campaign, HandInv(c),
         Step(c) \/ Fail(c) \/ Cancel(c) \/ Expire(c)
  PROVE  HandInv(c)'
  <1>1. CASE RustOracle(c)
    <2>1. PICK v \in Outcome(c), escalate \in BOOLEAN :
            /\ v.status \in Abnormal => escalate
            /\ OracleRun(c, "rust", v, escalate, "fsck")
      BY <1>1 DEF RustOracle
    <2>2. QED
      BY <2>1, HandRust
  <1>2. CASE FsckOracle(c)
    <2>1. PICK v \in Outcome(c), escalate \in BOOLEAN :
            /\ Disagrees(c, v) \/ v.status \in Abnormal => escalate
            /\ OracleRun(c, "fsck", v, escalate, "linux")
      BY <1>2 DEF FsckOracle
    <2>2. QED
      BY <2>1, HandFsck
  <1>3. CASE LinuxOracle(c)
    BY <1>3, HandLinux DEF LinuxOracle
  <1>4. CASE Materialize(c)
    BY <1>4, HandMaterialize
  <1>5. CASE Cancel(c) \/ Expire(c)
    <2>1. /\ UNCHANGED <<pc, spec, current, results, killed, oracleRuns>>
          /\ request[c] => request'[c]
          /\ expired[c] => expired'[c]
      BY <1>5 DEF Cancel, Expire, setup, caseVars, countVars, TypeInv, TypeOK
    <2>2. StopAfterCase(c) => StopAfterCase(c)'
      BY <2>1 DEF StopAfterCase, OutOfRuns
    <2>3. Unfinished(c, InHand(c))' => Unfinished(c, InHand(c))
      BY <2>1 DEF Unfinished, InHand
    <2>4. QED
      BY <2>1, <2>2, <2>3 DEF HandInv
  <1>6. QED
    BY <1>1, <1>2, <1>3, <1>4, <1>5, HandElsewhere DEF Step, Case, Save

(* No campaign touches the case that another one has in hand.              *)
LEMMA HandFrame ==
  ASSUME TypeInv, NEW c \in Campaign, Step(c) \/ Fail(c) \/ Cancel(c) \/ Expire(c),
         NEW d \in Campaign, d # c
  PROVE  current'[d] = current[d] /\ results'[d] = results[d]
  <1> USE DEF TypeInv, TypeOK
  <1>1. CASE PlanFresh(c)
    BY <1>1 DEF PlanFresh
  <1>2. CASE RustOracle(c) \/ FsckOracle(c) \/ LinuxOracle(c)
    <2>1. PICK profile \in Profile, v \in Outcome(c), escalate \in BOOLEAN,
               next \in {"fsck", "linux", "push"} : OracleRun(c, profile, v, escalate, next)
      BY <1>2, OracleSteps
    <2>2. /\ current' = current
          /\ results' = results \/ \E x : results' = [results EXCEPT ![c] = x]
      BY <2>1 DEF OracleRun, Record
    <2>3. QED
      BY <2>2
  <1>3. CASE \/ Load(c) \/ Exhaust(c) \/ StopBeforeCase(c) \/ PlanFails(c) \/ PlanDuplicate(c)
             \/ Materialize(c) \/ MaterializePanics(c) \/ FinishCase(c)
             \/ Fail(c) \/ Cancel(c) \/ Expire(c)
    BY <1>3 DEF Load, Exhaust, StopBeforeCase, PlanFails, PlanDuplicate, Materialize,
                MaterializePanics, FinishCase, Fail, Cancel, Expire, caseVars
  <1>4. CASE Save(c)
    BY <1>4 DEF Save, AcquireLock, MergeIndex, ReplaceIndex, ReleaseLock, WriteReport, Saving,
                caseVars
  <1>5. QED
    BY <1>1, <1>2, <1>3, <1>4 DEF Step, Case

(* A case reported in the loop is finished, or the loop ends with it.      *)
LEMMA SkipReport ==
  ASSUME TypeInv, NEW c \in Campaign, SkipInv(c), StopInv(c), InLoop(c), NEW r, spec' = spec,
         reports' = [reports EXCEPT ![c] = Append(@, r)],
         Unfinished(c, r) => stopped'[c] # "completed"
  PROVE  LeftAtTheEnd(c)'
  <1>1. reports[c] \in Seq(CaseReport) /\ reports'[c] = Append(reports[c], r)
    BY DEF TypeInv, TypeOK
  <1>2. /\ DOMAIN reports'[c] = DOMAIN reports[c] \cup {Len(reports[c]) + 1}
        /\ \A i \in DOMAIN reports[c] : reports'[c][i] = reports[c][i]
        /\ reports'[c][Len(reports[c]) + 1] = r
        /\ Len(reports'[c]) = Len(reports[c]) + 1
    BY <1>1
  <1>3. \A i \in DOMAIN reports[c] : ~Unfinished(c, reports[c][i])
    BY DEF SkipInv, LeftAtTheEnd, StopInv
  <1>4. ASSUME NEW i \in DOMAIN reports'[c], Unfinished(c, reports[c][i])'
        PROVE  i = Len(reports'[c]) /\ stopped'[c] # "completed"
    <2>1. Unfinished(c, reports'[c][i])
      BY <1>4 DEF Unfinished
    <2>2. QED
      BY <1>2, <1>3, <2>1
  <1>5. QED
    BY <1>4 DEF LeftAtTheEnd

LEMMA SkipOwnStep ==
  ASSUME TypeInv, NEW c \in Campaign, SkipInv(c), StopInv(c),
         Step(c) \/ Fail(c) \/ Cancel(c) \/ Expire(c)
  PROVE  SkipInv(c)'
  <1>1. HandInv(c)'
    BY HandOwnStep DEF SkipInv
  <1>2. CASE PlanFails(c) \/ PlanDuplicate(c) \/ MaterializePanics(c)
    <2>1. /\ InLoop(c) /\ spec' = spec
          /\ \E sample \in Sample \cup {NoSample}, duplicate \in BOOLEAN :
               /\ sample # NoSample => duplicate
               /\ Report(c, sample, duplicate, {})
      BY <1>2, CampaignAssumption
      DEF PlanFails, PlanDuplicate, MaterializePanics, BeginCase, Goto, InLoop, Holding, setup
    <2>2. PICK sample \in Sample \cup {NoSample}, duplicate \in BOOLEAN :
            /\ sample # NoSample => duplicate
            /\ Report(c, sample, duplicate, {})
      BY <2>1
    <2> DEFINE r == [sample |-> sample, duplicate |-> duplicate, results |-> {}]
    <2>3. r.results = {} /\ ~Fresh(r)
      BY <2>2 DEF Fresh
    <2>4. reports' = [reports EXCEPT ![c] = Append(@, r)]
      BY <2>2 DEF Report
    <2> HIDE DEF r
    <2>5. ~Unfinished(c, r)
      BY <2>3, Needs DEF Unfinished
    <2>6. QED
      BY <1>1, <2>1, <2>4, <2>5, SkipReport DEF SkipInv
  <1>3. CASE FinishCase(c)
    <2> DEFINE r == InHand(c)
    <2>1. /\ InLoop(c) /\ spec' = spec /\ pc[c] = "push"
          /\ reports' = [reports EXCEPT ![c] = Append(@, r)]
      BY <1>3 DEF FinishCase, Report, InHand, Goto, InLoop, Holding, setup
    <2> HIDE DEF r
    <2>2. ASSUME StopAfterCase(c) PROVE stopped'[c] # "completed"
      <3>1. \E x \in {"cancelled", "wall_time", "oracle_budget"} :
              stopped' = [stopped EXCEPT ![c] = x]
        <4>1. CASE killed[c] \/ request[c]
          BY <1>3, <4>1 DEF FinishCase
        <4>2. CASE ~(killed[c] \/ request[c]) /\ expired[c]
          BY <1>3, <4>2 DEF FinishCase
        <4>3. CASE ~(killed[c] \/ request[c] \/ expired[c]) /\ OutOfRuns(c)
          BY <1>3, <4>3 DEF FinishCase
        <4>4. QED
          BY <2>2, <4>1, <4>2, <4>3 DEF StopAfterCase
      <3>2. QED
        BY <3>1 DEF TypeInv, TypeOK
    <2>3. Unfinished(c, r) => stopped'[c] # "completed"
      BY <2>1, <2>2 DEF r, SkipInv, HandInv
    <2>4. QED
      BY <1>1, <2>1, <2>3, SkipReport DEF SkipInv
  <1>4. CASE \/ Load(c) \/ Exhaust(c) \/ StopBeforeCase(c) \/ PlanFresh(c) \/ Materialize(c)
             \/ RustOracle(c) \/ FsckOracle(c) \/ LinuxOracle(c)
             \/ Save(c) \/ Fail(c) \/ Cancel(c) \/ Expire(c)
    <2>1. /\ UNCHANGED <<spec, reports>>
          /\ stopped'[c] # stopped[c] => stopped'[c] # "completed"
      <3>1. CASE StopBeforeCase(c)
        BY <3>1 DEF StopBeforeCase, setup, countVars, TypeInv, TypeOK
      <3>2. CASE RustOracle(c) \/ FsckOracle(c) \/ LinuxOracle(c)
        BY <3>2, OracleSteps DEF OracleRun, setup
      <3>3. CASE \/ Load(c) \/ Exhaust(c) \/ PlanFresh(c) \/ Materialize(c)
                 \/ Fail(c) \/ Cancel(c) \/ Expire(c)
        BY <3>3 DEF Load, Exhaust, PlanFresh, BeginCase, Materialize, Fail, Cancel, Expire,
                    setup, countVars
      <3>4. CASE Save(c)
        BY <3>4 DEF Save, AcquireLock, MergeIndex, ReplaceIndex, ReleaseLock, WriteReport,
                    Saving, setup, countVars
      <3>5. QED
        BY <1>4, <3>1, <3>2, <3>3, <3>4
    <2>2. LeftAtTheEnd(c)'
      BY <2>1 DEF SkipInv, LeftAtTheEnd, Unfinished
    <2>3. QED
      BY <1>1, <2>2 DEF SkipInv
  <1>5. QED
    BY <1>2, <1>3, <1>4 DEF Step, Case

(* Whatever the budgets, the operator and the index do, every case before  *)
(* the last was taken as far as the funnel goes.                           *)
THEOREM NothingIsSkipped == Spec => []NoCaseIsSkipped
  <1> DEFINE Inv == \A c \in Campaign : StopInv(c) /\ SkipInv(c)
  <1>1. ASSUME Inv PROVE NoCaseIsSkipped
    <2>1. ASSUME NEW c \in Campaign, NEW i \in FreshReports(c),
                 spec[c].funnel # "MaterializeOnly", reports[c][i].results = {}
          PROVE  i = Len(reports[c]) /\ stopped[c] # "completed"
      BY <1>1, <2>1 DEF SkipInv, LeftAtTheEnd, Unfinished, FreshReports
    <2>2. ASSUME NEW c \in Campaign, NEW i \in DOMAIN reports[c], NeedsNextLevel(reports[c][i])
          PROVE  i = Len(reports[c]) /\ stopped[c] # "completed"
      BY <1>1, <2>2 DEF SkipInv, LeftAtTheEnd, Unfinished
    <2>3. QED
      BY <2>1, <2>2 DEF NoCaseIsSkipped, OnlyTheLastGoesUnjudged, AbnormalEscalates
  <1>2. ASSUME TypeInv, BudgetInv, Inv, [Next]_vars PROVE Inv'
    <2>1. CASE UNCHANGED vars
      BY <1>2, <2>1 DEF vars, StopInv, InLoop, AfterLoop, Reason, SkipInv, HandInv, InHand,
                        LeftAtTheEnd, Unfinished, StopAfterCase, OutOfRuns
    <2>2. ASSUME NEW c \in Campaign, Step(c) \/ Fail(c) \/ Cancel(c) \/ Expire(c),
                 NEW d \in Campaign
          PROVE  (StopInv(d) /\ SkipInv(d))'
      <3>1. CASE d = c
        BY <1>2, <2>2, <3>1, StopOwnStep, SkipOwnStep
      <3>2. CASE d # c
        <4>1. StopInv(d)'
          BY <1>2, <2>2, <3>2, StopFrame DEF StopInv, InLoop, AfterLoop, Reason
        <4>2. current'[d] = current[d] /\ results'[d] = results[d]
          BY <1>2, <2>2, <3>2, HandFrame
        <4>3. InHand(d)' = InHand(d)
          BY <4>2 DEF InHand
        <4>4. HandInv(d)'
          BY <1>2, <2>2, <3>2, <4>2, <4>3, StopFrame
          DEF SkipInv, HandInv, Unfinished, StopAfterCase, OutOfRuns
        <4>5. LeftAtTheEnd(d)'
          BY <1>2, <2>2, <3>2, StopFrame DEF SkipInv, LeftAtTheEnd, Unfinished
        <4>6. QED
          BY <4>1, <4>4, <4>5 DEF SkipInv
      <3>3. QED
        BY <3>1, <3>2
    <2>3. QED
      BY <1>2, <2>1, <2>2 DEF Next, Terminated
  <1>3. Init => Inv
    BY StopInit, SkipInit
  <1> HIDE DEF Inv
  <1>4. QED
    BY <1>1, <1>2, <1>3, BudgetInit, BudgetStep, TypeCorrect, PTL DEF Spec

-----------------------------------------------------------------------------
(* Reports and samples agree.                                              *)

Judging == {"rust", "fsck", "linux", "push"}

(* What was materialized is what was reported and the case in hand.        *)
CountInv(c) ==
  pc[c] # "failed" =>
    materialized[c] = Cardinality(FreshOf(reports[c])) + (IF pc[c] \in Judging THEN 1 ELSE 0)

(* A report adds one to the fresh ones, or nothing.                        *)
LEMMA FreshCount ==
  ASSUME NEW s \in Seq(CaseReport), NEW r
  PROVE  /\ Cardinality(FreshOf(s)) \in Nat
         /\ Fresh(r) => Cardinality(FreshOf(Append(s, r))) = Cardinality(FreshOf(s)) + 1
         /\ ~Fresh(r) => Cardinality(FreshOf(Append(s, r))) = Cardinality(FreshOf(s))
  <1>1. /\ DOMAIN Append(s, r) = 1..(Len(s) + 1) /\ DOMAIN s = 1..Len(s)
        /\ \A i \in DOMAIN s : Append(s, r)[i] = s[i]
        /\ Append(s, r)[Len(s) + 1] = r
        /\ Len(s) \in Nat
    OBVIOUS
  <1>2. IsFiniteSet(FreshOf(s)) /\ Len(s) + 1 \notin FreshOf(s)
    <2>1. FreshOf(s) \subseteq 1..Len(s)
      BY <1>1 DEF FreshOf
    <2>2. IsFiniteSet(1..Len(s))
      BY <1>1, FS_Interval
    <2>3. QED
      BY <1>1, <2>1, <2>2, FS_Subset
  <1>3. Cardinality(FreshOf(s)) \in Nat
    BY <1>2, FS_CardinalityType
  <1>4. ASSUME ~Fresh(r)
        PROVE  Cardinality(FreshOf(Append(s, r))) = Cardinality(FreshOf(s))
    <2>1. FreshOf(Append(s, r)) = FreshOf(s)
      BY <1>1, <1>4 DEF FreshOf
    <2>2. QED
      BY <2>1
  <1>5. ASSUME Fresh(r)
        PROVE  Cardinality(FreshOf(Append(s, r))) = Cardinality(FreshOf(s)) + 1
    <2>1. FreshOf(Append(s, r)) = FreshOf(s) \cup {Len(s) + 1}
      BY <1>1, <1>5 DEF FreshOf
    <2>2. QED
      BY <1>2, <2>1, FS_AddElement
  <1>6. QED
    BY <1>3, <1>4, <1>5

LEMMA CountInit == Init => \A c \in Campaign : CountInv(c)
  <1>1. FreshOf(<<>>) = {}
    BY DEF FreshOf
  <1>2. Cardinality({}) = 0
    BY FS_EmptySet
  <1>3. ASSUME Init, NEW c \in Campaign PROVE CountInv(c)
    <2>1. reports[c] = <<>> /\ materialized[c] = 0 /\ pc[c] = "start"
      BY <1>3 DEF Init
    <2>2. FreshOf(reports[c]) = {}
      BY <1>1, <2>1
    <2>3. Cardinality(FreshOf(reports[c])) = 0
      BY <1>2, <2>2
    <2>4. QED
      BY <2>1, <2>3 DEF CountInv, Judging
  <1>4. QED
    BY <1>3

LEMMA CountOwnStep ==
  ASSUME TypeInv, NEW c \in Campaign, CountInv(c),
         Step(c) \/ Fail(c) \/ Cancel(c) \/ Expire(c)
  PROVE  CountInv(c)'
  <1> USE DEF TypeInv, TypeOK, Goto
  <1>1. reports[c] \in Seq(CaseReport) /\ materialized[c] \in Nat
    OBVIOUS
  <1>2. Cardinality(FreshOf(reports[c])) \in Nat
    BY <1>1, FreshCount
  <1>3. ASSUME NEW r, ~Fresh(r), reports' = [reports EXCEPT ![c] = Append(@, r)],
               pc[c] \notin Judging \cup {"failed"}, pc'[c] \notin Judging,
               materialized' = materialized
        PROVE  CountInv(c)'
    <2>1. Cardinality(FreshOf(reports'[c])) = Cardinality(FreshOf(reports[c]))
      BY <1>1, <1>3, FreshCount
    <2>2. QED
      BY <1>3, <2>1 DEF CountInv
  <1>4. CASE PlanFails(c) \/ MaterializePanics(c)
    BY <1>3, <1>4 DEF PlanFails, MaterializePanics, BeginCase, Report, Fresh, Judging
  <1>5. CASE PlanDuplicate(c)
    BY <1>3, <1>5 DEF PlanDuplicate, BeginCase, Report, Fresh, Judging
  <1>6. CASE Materialize(c)
    <2>1. /\ pc[c] = "materialize" /\ pc'[c] \in Judging
          /\ materialized'[c] = materialized[c] + 1 /\ reports' = reports
      BY <1>6 DEF Materialize, Judging
    <2>2. QED
      BY <1>2, <2>1 DEF CountInv, Judging
  <1>7. CASE FinishCase(c)
    <2> DEFINE r == InHand(c)
    <2>1. /\ pc[c] = "push" /\ pc'[c] \notin Judging \cup {"failed"}
          /\ materialized' = materialized
          /\ reports' = [reports EXCEPT ![c] = Append(@, r)]
      BY <1>7 DEF FinishCase, Report, InHand, Judging
    <2>2. Fresh(r)
      BY <2>1, CampaignAssumption DEF InHand, Fresh, PlanInHand, Holding
    <2> HIDE DEF r
    <2>3. Cardinality(FreshOf(reports'[c])) = Cardinality(FreshOf(reports[c])) + 1
      BY <1>1, <2>1, <2>2, FreshCount
    <2>4. QED
      BY <1>1, <1>2, <2>1, <2>3 DEF CountInv, Judging
  <1>8. CASE RustOracle(c) \/ FsckOracle(c) \/ LinuxOracle(c)
    <2>1. PICK profile \in Profile, v \in Outcome(c), escalate \in BOOLEAN,
               next \in {"fsck", "linux", "push"} : OracleRun(c, profile, v, escalate, next)
      BY <1>8, OracleSteps
    <2>2. pc[c] \in Judging /\ pc'[c] \in Judging /\ UNCHANGED <<materialized, reports>>
      BY <2>1 DEF OracleRun, Profile, Judging
    <2>3. QED
      BY <2>2 DEF CountInv, Judging
  <1>9. CASE Load(c) \/ Exhaust(c) \/ StopBeforeCase(c) \/ PlanFresh(c)
    BY <1>9 DEF Load, Exhaust, StopBeforeCase, PlanFresh, BeginCase, CountInv, Judging, countVars
  <1>10. CASE Save(c)
    BY <1>10 DEF Save, AcquireLock, MergeIndex, ReplaceIndex, ReleaseLock, WriteReport, Saving,
                 CountInv, Judging, countVars
  <1>11. CASE Fail(c) \/ Cancel(c) \/ Expire(c)
    BY <1>11 DEF Fail, Cancel, Expire, CountInv, countVars
  <1>12. QED
    BY <1>4, <1>5, <1>6, <1>7, <1>8, <1>9, <1>10, <1>11 DEF Step, Case

(* The hashes that may be in circulation.                                  *)
Accounted == samples \cup {NoSample} \cup UNION {panicked[d] : d \in Campaign}

(* A campaign knows accounted hashes, and that of the image it is about to *)
(* materialize; the latter dies with it if it fails.                       *)
KnownInv(c) ==
  /\ pc[c] \notin {"materialize", "failed"} => novelty[c].bytes \subseteq Accounted
  /\ pc[c] = "materialize" => novelty[c].bytes \subseteq Accounted \cup {Output[current[c]]}
  /\ pc[c] \in Judging => Output[current[c]] \in Accounted
  /\ merged[c].bytes \subseteq Accounted
  /\ \A i \in DOMAIN reports[c] : reports[c][i].sample \in Accounted

SampleInv == index.bytes \subseteq Accounted /\ \A c \in Campaign : KnownInv(c)

LEMMA SampleInit == Init => SampleInv
  BY DEF Init, SampleInv, KnownInv, EmptyIndex, Judging

(* Hashes stay accounted for.                                              *)
LEMMA AccountedGrows ==
  ASSUME TypeInv, NEW c \in Campaign, Step(c) \/ Fail(c) \/ Cancel(c) \/ Expire(c)
  PROVE  Accounted \subseteq Accounted'
  <1>1. samples \subseteq samples' /\ \A d \in Campaign : panicked[d] \subseteq panicked'[d]
    <2>1. CASE Materialize(c)
      BY <2>1 DEF Materialize
    <2>2. CASE MaterializePanics(c)
      BY <2>2 DEF MaterializePanics, diskVars, TypeInv, TypeOK
    <2>3. CASE RustOracle(c) \/ FsckOracle(c) \/ LinuxOracle(c)
      BY <2>3, OracleSteps DEF OracleRun, diskVars
    <2>4. CASE \/ Load(c) \/ Exhaust(c) \/ StopBeforeCase(c) \/ PlanFails(c) \/ PlanDuplicate(c)
               \/ PlanFresh(c) \/ FinishCase(c) \/ Fail(c) \/ Cancel(c) \/ Expire(c)
      BY <2>4 DEF Load, Exhaust, StopBeforeCase, PlanFails, PlanDuplicate, PlanFresh, FinishCase,
                  Fail, Cancel, Expire, diskVars
    <2>5. CASE Save(c)
      BY <2>5 DEF Save, AcquireLock, MergeIndex, ReplaceIndex, ReleaseLock, WriteReport, Saving
    <2>6. QED
      BY <2>1, <2>2, <2>3, <2>4, <2>5 DEF Step, Case
  <1>2. ASSUME NEW x \in UNION {panicked[d] : d \in Campaign}
        PROVE  x \in UNION {panicked'[d] : d \in Campaign}
    BY <1>1, <1>2
  <1>3. QED
    BY <1>1, <1>2 DEF Accounted

(* A report names an accounted hash if the new entry does.                 *)
LEMMA ReportAccounted ==
  ASSUME TypeInv, NEW c \in Campaign, KnownInv(c), Accounted \subseteq Accounted',
         NEW sample, NEW duplicate, NEW found, Report(c, sample, duplicate, found),
         sample \in Accounted'
  PROVE  \A i \in DOMAIN reports'[c] : reports'[c][i].sample \in Accounted'
  <1> DEFINE r == [sample |-> sample, duplicate |-> duplicate, results |-> found]
  <1>1. reports'[c] = Append(reports[c], r) /\ reports[c] \in Seq(CaseReport)
    BY DEF Report, TypeInv, TypeOK
  <1>2. r.sample = sample
    OBVIOUS
  <1> HIDE DEF r
  <1>3. /\ DOMAIN reports'[c] = DOMAIN reports[c] \cup {Len(reports[c]) + 1}
        /\ \A i \in DOMAIN reports[c] : reports'[c][i] = reports[c][i]
        /\ reports'[c][Len(reports[c]) + 1] = r
    BY <1>1
  <1>4. QED
    BY <1>2, <1>3 DEF KnownInv

LEMMA KnownOwnStep ==
  ASSUME TypeInv, SampleInv, NEW c \in Campaign, Accounted \subseteq Accounted',
         Step(c) \/ Fail(c) \/ Cancel(c) \/ Expire(c)
  PROVE  KnownInv(c)'
  <1> USE DEF TypeInv, TypeOK, Goto
  <1>1. KnownInv(c) /\ index.bytes \subseteq Accounted /\ NoSample \in Accounted'
    BY DEF SampleInv, Accounted
  <1>2. CASE Load(c)
    BY <1>1, <1>2 DEF Load, KnownInv, Judging, countVars
  <1>3. CASE PlanFails(c)
    <2>1. /\ pc[c] = "case" /\ UNCHANGED <<pc, novelty, merged>>
          /\ Report(c, NoSample, FALSE, {})
      BY <1>3 DEF PlanFails, BeginCase
    <2>2. \A i \in DOMAIN reports'[c] : reports'[c][i].sample \in Accounted'
      BY <1>1, <2>1, ReportAccounted
    <2>3. QED
      BY <1>1, <2>1, <2>2 DEF KnownInv, Judging
  <1>4. CASE PlanDuplicate(c)
    <2>1. PICK p \in Plan : /\ pc[c] = "case" /\ UNCHANGED <<pc, merged>>
                            /\ Output[p] \in novelty[c].bytes
                            /\ Remember(c, p) /\ Report(c, Output[p], TRUE, {})
      BY <1>4 DEF PlanDuplicate, BeginCase
    <2>2. novelty'[c].bytes = novelty[c].bytes \cup {Output[p]}
      BY <2>1 DEF Remember, WithPlan, NoveltyIndex
    <2>3. Output[p] \in Accounted'
      BY <1>1, <2>1 DEF KnownInv
    <2>4. \A i \in DOMAIN reports'[c] : reports'[c][i].sample \in Accounted'
      BY <1>1, <2>1, <2>3, ReportAccounted
    <2>5. QED
      BY <1>1, <2>1, <2>2, <2>3, <2>4 DEF KnownInv, Judging
  <1>5. CASE PlanFresh(c)
    <2>1. PICK p \in Plan : /\ pc[c] = "case" /\ UNCHANGED <<reports, merged>>
                            /\ Remember(c, p)
                            /\ current' = [current EXCEPT ![c] = p]
                            /\ pc' = [pc EXCEPT ![c] = "materialize"]
      BY <1>5 DEF PlanFresh, BeginCase, countVars
    <2>2. novelty'[c].bytes = novelty[c].bytes \cup {Output[p]}
      BY <2>1 DEF Remember, WithPlan, NoveltyIndex
    <2>3. QED
      BY <1>1, <2>1, <2>2 DEF KnownInv, Judging
  <1>6. CASE Materialize(c)
    <2>1. /\ pc[c] = "materialize" /\ \E to \in {"rust", "push"} : pc' = [pc EXCEPT ![c] = to]
          /\ samples' = samples \cup {Output[current[c]]}
          /\ UNCHANGED <<novelty, current, merged, reports>>
      BY <1>6 DEF Materialize, caseVars
    <2>2. Output[current[c]] \in Accounted'
      BY <2>1 DEF Accounted
    <2>3. QED
      BY <1>1, <2>1, <2>2 DEF KnownInv, Judging
  <1>7. CASE MaterializePanics(c)
    <2>1. /\ pc[c] = "materialize" /\ pc' = [pc EXCEPT ![c] = "case"]
          /\ panicked' = [panicked EXCEPT ![c] = @ \cup {Output[current[c]]}]
          /\ UNCHANGED <<novelty, merged>>
          /\ Report(c, NoSample, FALSE, {})
      BY <1>7 DEF MaterializePanics
    <2>2. Output[current[c]] \in panicked'[c]
      BY <2>1
    <2>3. Output[current[c]] \in Accounted'
      BY <2>2 DEF Accounted
    <2>4. \A i \in DOMAIN reports'[c] : reports'[c][i].sample \in Accounted'
      BY <1>1, <2>1, ReportAccounted
    <2>5. QED
      BY <1>1, <2>1, <2>3, <2>4 DEF KnownInv, Judging
  <1>8. CASE RustOracle(c) \/ FsckOracle(c) \/ LinuxOracle(c)
    <2>1. PICK profile \in Profile, v \in Outcome(c), escalate \in BOOLEAN,
               next \in {"fsck", "linux", "push"} : OracleRun(c, profile, v, escalate, next)
      BY <1>8, OracleSteps
    <2>2. pc[c] \in Judging /\ pc'[c] \in Judging /\ UNCHANGED <<current, merged, reports>>
      BY <2>1 DEF OracleRun, Profile, Judging
    <2>3. novelty'[c].bytes = novelty[c].bytes
      BY <2>1 DEF OracleRun, Record, WithResult, NoveltyIndex
    <2>4. QED
      BY <1>1, <2>2, <2>3 DEF KnownInv, Judging
  <1>9. CASE FinishCase(c)
    <2>1. /\ pc[c] = "push" /\ \E to \in {"lock", "case"} : pc' = [pc EXCEPT ![c] = to]
          /\ UNCHANGED <<novelty, merged>>
          /\ Report(c, Output[current[c]], FALSE, results[c])
      BY <1>9 DEF FinishCase
    <2>2. Output[current[c]] \in Accounted'
      BY <1>1, <2>1 DEF KnownInv, Judging
    <2>3. \A i \in DOMAIN reports'[c] : reports'[c][i].sample \in Accounted'
      BY <1>1, <2>1, <2>2, ReportAccounted
    <2>4. QED
      BY <1>1, <2>1, <2>3 DEF KnownInv, Judging
  <1>10. CASE MergeIndex(c)
    <2>1. /\ pc[c] = "merge" /\ pc'[c] = "replace" /\ UNCHANGED <<novelty, reports>>
          /\ merged'[c] = Merge(index, novelty[c])
      BY <1>10 DEF MergeIndex, Saving, countVars
    <2>2. Merge(index, novelty[c]).bytes \subseteq Accounted
      BY <1>1, <2>1 DEF Merge, KnownInv
    <2>3. QED
      BY <1>1, <2>1, <2>2 DEF KnownInv, Judging
  <1>11. CASE \/ Exhaust(c) \/ StopBeforeCase(c)
              \/ AcquireLock(c) \/ ReplaceIndex(c) \/ ReleaseLock(c) \/ WriteReport(c)
    <2>1. /\ pc[c] \notin {"materialize", "failed"}
          /\ \E to \in {"lock", "merge", "unlock", "report", "done"} : pc' = [pc EXCEPT ![c] = to]
          /\ UNCHANGED <<novelty, merged, reports>>
      BY <1>11 DEF Exhaust, StopBeforeCase, AcquireLock, ReplaceIndex, ReleaseLock, WriteReport,
                   Saving, countVars
    <2>2. QED
      BY <1>1, <2>1 DEF KnownInv, Judging
  <1>12. CASE Fail(c) \/ Cancel(c) \/ Expire(c)
    BY <1>1, <1>12, EnvironmentFrame DEF KnownInv, Judging
  <1>13. QED
    BY <1>2, <1>3, <1>4, <1>5, <1>6, <1>7, <1>8, <1>9, <1>10, <1>11, <1>12 DEF Step, Case, Save

(* Of the others, a step may only account for more.                        *)
LEMMA KnownFrame ==
  ASSUME TypeInv, SampleInv, NEW c \in Campaign, Accounted \subseteq Accounted',
         Step(c) \/ Fail(c) \/ Cancel(c) \/ Expire(c), NEW d \in Campaign, d # c
  PROVE  KnownInv(d)' /\ materialized'[d] = materialized[d]
  <1> USE DEF TypeInv, TypeOK
  <1>1. merged'[d] = merged[d] /\ novelty'[d] = novelty[d]
    <2>1. CASE Load(c) \/ Case(c)
      BY <2>1, CaseFrame
    <2>2. CASE Save(c)
      BY <2>2, SaveFrame DEF Save, AcquireLock, MergeIndex, ReplaceIndex, ReleaseLock, WriteReport
    <2>3. CASE Fail(c) \/ Cancel(c) \/ Expire(c)
      BY <2>3, EnvironmentFrame
    <2>4. QED
      BY <2>1, <2>2, <2>3 DEF Step
  <1>2. materialized'[d] = materialized[d]
    <2>1. CASE Materialize(c)
      BY <2>1 DEF Materialize
    <2>2. CASE RustOracle(c) \/ FsckOracle(c) \/ LinuxOracle(c)
      BY <2>2, OracleSteps DEF OracleRun
    <2>3. CASE \/ Load(c) \/ Exhaust(c) \/ StopBeforeCase(c) \/ PlanFails(c) \/ PlanDuplicate(c)
               \/ PlanFresh(c) \/ MaterializePanics(c) \/ FinishCase(c)
               \/ Fail(c) \/ Cancel(c) \/ Expire(c)
      BY <2>3 DEF Load, Exhaust, StopBeforeCase, PlanFails, PlanDuplicate, PlanFresh,
                  MaterializePanics, FinishCase, Fail, Cancel, Expire, countVars
    <2>4. CASE Save(c)
      BY <2>4 DEF Save, AcquireLock, MergeIndex, ReplaceIndex, ReleaseLock, WriteReport, Saving,
                  countVars
    <2>5. QED
      BY <2>1, <2>2, <2>3, <2>4 DEF Step, Case
  <1>3. /\ pc'[d] = pc[d] /\ reports'[d] = reports[d]
        /\ current'[d] = current[d]
    BY StopFrame, HandFrame
  <1>4. KnownInv(d)
    BY DEF SampleInv
  <1>5. KnownInv(d)'
    BY <1>1, <1>3, <1>4 DEF KnownInv
  <1>6. QED
    BY <1>2, <1>5

(* The report of a campaign counts what it materialized, and every hash it *)
(* names is that of a published sample or of one whose publishing panicked.*)
THEOREM ReportsAgree == Spec => []ReportsMatchSamples
  <1> DEFINE Inv == SampleInv /\ \A c \in Campaign : CountInv(c)
  <1>1. Inv => ReportsMatchSamples
    BY DEF SampleInv, KnownInv, CountInv, ReportsMatchSamples, Accounted, FreshReports, FreshOf,
           Judging
  <1>2. ASSUME TypeInv, Inv, [Next]_vars PROVE Inv'
    <2>1. CASE UNCHANGED vars
      BY <1>2, <2>1 DEF vars, SampleInv, KnownInv, CountInv, Accounted
    <2>2. ASSUME NEW c \in Campaign, Step(c) \/ Fail(c) \/ Cancel(c) \/ Expire(c) PROVE Inv'
      <3>1. Accounted \subseteq Accounted'
        BY <1>2, <2>2, AccountedGrows
      <3>2. (index.bytes \subseteq Accounted)'
        <4>1. index' = index \/ index' = merged[c]
          <5>1. CASE Load(c) \/ Case(c)
            BY <1>2, <5>1, CaseFrame
          <5>2. CASE Save(c)
            BY <5>2 DEF Save, AcquireLock, MergeIndex, ReplaceIndex, ReleaseLock, WriteReport
          <5>3. CASE Fail(c) \/ Cancel(c) \/ Expire(c)
            BY <5>3, EnvironmentFrame
          <5>4. QED
            BY <2>2, <5>1, <5>2, <5>3 DEF Step
        <4>2. QED
          BY <1>2, <3>1, <4>1 DEF SampleInv, KnownInv
      <3>3. ASSUME NEW d \in Campaign PROVE KnownInv(d)' /\ CountInv(d)'
        <4>1. CASE d = c
          BY <1>2, <2>2, <3>1, <4>1, KnownOwnStep, CountOwnStep
        <4>2. CASE d # c
          BY <1>2, <2>2, <3>1, <4>2, KnownFrame, StopFrame DEF CountInv
        <4>3. QED
          BY <4>1, <4>2
      <3>4. QED
        BY <3>2, <3>3 DEF SampleInv
    <2>3. QED
      BY <1>2, <2>1, <2>2 DEF Next, Terminated
  <1>3. Init => Inv
    BY SampleInit, CountInit
  <1> HIDE DEF Inv
  <1>4. QED
    BY <1>1, <1>2, <1>3, TypeCorrect, PTL DEF Spec
=============================================================================
