---------------------------- MODULE PlannerProofs ----------------------------
(***************************************************************************)
(* Theorems about planning (module Planner), for all images, all sequences *)
(* of intents and any width of a byte.                                     *)
(***************************************************************************)
EXTENDS Planner, FiniteSetTheorems, WellFoundedInduction, TLAPS

(* The inductive invariant: while intents are resolved, the writes stand   *)
(* for them; after the checksum was settled they do but for it; while      *)
(* patches are applied, a byte is the parent's until its patch is applied  *)
(* and the planned one afterwards.                                         *)
ArgumentsInv ==
  /\ parent \in Parents
  /\ policy \in Policy
  /\ todo \in Seq(Intents)
  /\ truncate \subseteq Nat
  /\ DOMAIN asked = DOMAIN parent
  /\ DOMAIN writes \subseteq DOMAIN parent
  /\ \A o \in DOMAIN writes : writes[o].before = parent[o]

PlanningInv ==
  stage \in Planning =>
    /\ status = "none"
    /\ \A o \in DOMAIN parent : Logical(o) = asked[o]

UntouchedInv ==
  stage \in Planning \cup {"collapse"} => output = parent

SettledInv ==
  stage \in {"collapse", "apply", "done"} =>
    \A o \in DOMAIN parent :
      \/ Logical(o) = asked[o]
      \/ o = Checksum /\ status = "applied" /\ policy # "preserve"

RepairInv == status = "applied" => asked[Checksum] = parent[Checksum]

LengthInv ==
  stage \in {"integrity", "collapse", "apply", "done"} =>
    /\ FinalLen \in Nat
    /\ FinalLen <= Length
    /\ \A o \in DOMAIN parent : o >= FinalLen => asked[o] = parent[o]

Pending(o) == \E p \in patches : o \in DOMAIN p.after

ApplyInv ==
  stage = "apply" =>
    /\ patches \subseteq Patches
    /\ DOMAIN output = DOMAIN parent
    /\ \A o \in DOMAIN parent :
         output[o] = IF Pending(o) THEN parent[o] ELSE Logical(o)

DoneInv ==
  stage = "done" =>
    /\ DOMAIN output = 0..(FinalLen - 1)
    /\ \A o \in DOMAIN output : output[o] = Logical(o)

PlannerInv ==
  /\ ArgumentsInv
  /\ PlanningInv
  /\ UntouchedInv
  /\ SettledInv
  /\ RepairInv
  /\ LengthInv
  /\ ApplyInv
  /\ DoneInv
  /\ PlanApplies

-----------------------------------------------------------------------------
(* Facts about numbers and runs.                                           *)

(* Every set of natural numbers that is not empty has a least element.     *)
LEMMA LeastNumber ==
  ASSUME NEW T \in SUBSET Nat, T # {}
  PROVE  \E x \in T : \A y \in T : x <= y
  <1> DEFINE R == OpToRel(<, Nat)
  <1>1. IsWellFoundedOn(R, Nat)
    BY NatLessThanWellFounded
  <1>2. ASSUME NEW x \in T, NEW y \in T, ~ (<<y, x>> \in R) PROVE x <= y
    <2>1. ~ (y < x)
      BY <1>2 DEF OpToRel
    <2>2. QED
      BY <2>1
  <1> HIDE DEF R
  <1>3. \E x \in T : \A y \in T : ~ (<<y, x>> \in R)
    BY <1>1, WFMin
  <1>4. QED
    BY <1>2, <1>3

(* The offsets of a parent are the numbers below its length.               *)
LEMMA Offsets ==
  ASSUME parent \in Parents
  PROVE  /\ Length \in Nat
         /\ DOMAIN parent = 0..(Length - 1)
         /\ DOMAIN parent \subseteq Nat
  <1>1. IsFiniteSet(DOMAIN parent) /\ DOMAIN parent = 0..(Length - 1)
    BY PlannerAssumption DEF Length
  <1>2. Length \in Nat
    BY <1>1, FS_CardinalityType DEF Length
  <1>3. QED
    BY <1>1, <1>2

(* Every planned byte is in the run of some start: going down from it      *)
(* through bytes of the same signature, one comes to a byte that starts.   *)
LEMMA RunsCover ==
  ASSUME DOMAIN writes \subseteq Nat, NEW e \in DOMAIN writes
  PROVE  \E o \in DOMAIN writes : Starts(o) /\ e \in Run(o)
  <1> DEFINE T == {o \in 0..e : \A x \in o..e : x \in DOMAIN writes /\ (x > o => ~Starts(x))}
  <1>1. T \in SUBSET Nat /\ e \in T
    OBVIOUS
  <1>2. PICK m \in T : \A y \in T : m <= y
    BY <1>1, LeastNumber
  <1>3. m \in 0..e /\ \A x \in m..e : x \in DOMAIN writes /\ (x > m => ~Starts(x))
    BY <1>2
  <1>4. m \in DOMAIN writes
    BY <1>3
  <1>5. Starts(m)
    <2> SUFFICES ASSUME ~Starts(m) PROVE FALSE
      OBVIOUS
    <2>1. m - 1 \in DOMAIN writes
      BY <1>4 DEF Starts
    <2>2. m - 1 \in 0..e
      BY <2>1, <1>3
    <2>3. \A x \in (m - 1)..e : x \in DOMAIN writes /\ (x > m - 1 => ~Starts(x))
      <3> SUFFICES ASSUME NEW x \in (m - 1)..e
                   PROVE  x \in DOMAIN writes /\ (x > m - 1 => ~Starts(x))
        OBVIOUS
      <3>1. x = m - 1 \/ x = m \/ (x \in m..e /\ x > m)
        BY <1>3, <2>2
      <3>2. CASE x = m - 1
        BY <3>2, <2>1, <2>2
      <3>3. CASE x = m
        BY <3>3, <1>4
      <3>4. CASE x \in m..e /\ x > m
        BY <3>4, <1>3
      <3>5. QED
        BY <3>1, <3>2, <3>3, <3>4
    <2>4. m - 1 \in T
      BY <2>2, <2>3
    <2>5. m <= m - 1
      BY <2>4, <1>2
    <2>6. QED
      BY <2>5, <1>3
  <1>6. e \in Run(m)
    <2>1. e >= m
      BY <1>3
    <2>2. \A x \in (m + 1)..e : x \in DOMAIN writes /\ ~Starts(x)
      BY <1>3
    <2>3. QED
      BY <2>1, <2>2 DEF Run
  <1>7. QED
    BY <1>4, <1>5, <1>6

(* No byte is in two runs: the later start would lie inside the earlier run.*)
LEMMA RunsDisjoint ==
  ASSUME DOMAIN writes \subseteq Nat,
         NEW o1 \in DOMAIN writes, NEW o2 \in DOMAIN writes, Starts(o1), Starts(o2),
         NEW e \in Run(o1) \cap Run(o2)
  PROVE  o1 = o2
  <1>1. o1 \in Nat /\ o2 \in Nat /\ e \in Nat /\ o1 <= e /\ o2 <= e
    BY DEF Run
  <1>2. ~ (o1 < o2)
    <2> SUFFICES ASSUME o1 < o2 PROVE FALSE
      OBVIOUS
    <2>1. o2 \in (o1 + 1)..e
      BY <1>1
    <2>2. QED
      BY <2>1 DEF Run
  <1>3. ~ (o2 < o1)
    <2> SUFFICES ASSUME o2 < o1 PROVE FALSE
      OBVIOUS
    <2>1. o1 \in (o2 + 1)..e
      BY <1>1
    <2>2. QED
      BY <2>1 DEF Run
  <1>4. QED
    BY <1>1, <1>2, <1>3

-----------------------------------------------------------------------------
(* The steps.                                                              *)

(* An error ends planning and touches nothing that the invariant speaks of.*)
LEMMA FailKeepsInv ==
  ASSUME PlannerInv, NEW error \in Errors \ {"Preimage"}, Fail(error)
  PROVE  PlannerInv'
  <1>1. stage' \in Errors \ {"Preimage"}
    BY DEF Fail
  <1>2. /\ UNCHANGED <<parent, mode, policy, todo, writes, truncate, status, patches,
                       output, asked>>
    BY DEF Fail, args
  <1>3. ArgumentsInv'
    BY <1>2 DEF PlannerInv, ArgumentsInv
  <1>4. RepairInv'
    BY <1>2 DEF PlannerInv, RepairInv
  <1>5. PlanningInv' /\ UntouchedInv' /\ SettledInv' /\ LengthInv' /\ ApplyInv' /\ DoneInv'
          /\ PlanApplies'
    BY <1>1 DEF Errors, Planning, PlanningInv, UntouchedInv, SettledInv, LengthInv, ApplyInv,
                DoneInv, PlanApplies
  <1>6. QED
    BY <1>3, <1>4, <1>5 DEF PlannerInv

(* What AddWrite does to the planned bytes.                                *)
LEMMA AddedBytes ==
  ASSUME DOMAIN writes \subseteq DOMAIN parent,
         \A o \in DOMAIN writes : writes[o].before = parent[o],
         NEW span \in SUBSET DOMAIN parent, NEW bytes, NEW meta,
         writes' = AddWrite(span, bytes, meta), parent' = parent
  PROVE  /\ DOMAIN writes' \subseteq DOMAIN parent
         /\ \A o \in DOMAIN writes' : writes'[o].before = parent[o]
         /\ \A o \in DOMAIN parent :
              Logical(o)' = IF o \in span THEN bytes[o] ELSE Logical(o)
  <1> DEFINE D == DOMAIN writes \cup {p \in span : bytes[p] # parent[p]}
  <1>1. DOMAIN writes' = D
    BY DEF AddWrite
  <1>2. ASSUME NEW o \in D, o \notin DOMAIN writes
        PROVE  writes'[o] = [before |-> parent[o], after |-> bytes[o], meta |-> meta]
    BY <1>2 DEF AddWrite
  <1>3. ASSUME NEW o \in DOMAIN writes, o \in span
        PROVE  writes'[o] = [before |-> writes[o].before, after |-> bytes[o],
                             meta |-> writes[o].meta]
    BY <1>3 DEF AddWrite
  <1>4. ASSUME NEW o \in DOMAIN writes, o \notin span
        PROVE  writes'[o] = writes[o]
    BY <1>4 DEF AddWrite
  <1>5. ASSUME NEW o \in D PROVE writes'[o].before = parent[o]
    <2>1. CASE o \notin DOMAIN writes
      <3>1. writes'[o] = [before |-> parent[o], after |-> bytes[o], meta |-> meta]
        BY <2>1, <1>2
      <3>2. QED
        BY <3>1
    <2>2. CASE o \in DOMAIN writes /\ o \in span
      <3>1. writes'[o] = [before |-> writes[o].before, after |-> bytes[o],
                          meta |-> writes[o].meta]
        BY <2>2, <1>3
      <3>2. QED
        BY <3>1, <2>2
    <2>3. CASE o \in DOMAIN writes /\ o \notin span
      BY <2>3, <1>4
    <2>4. QED
      BY <2>1, <2>2, <2>3
  <1>6. ASSUME NEW o \in DOMAIN parent
        PROVE  Logical(o)' = IF o \in span THEN bytes[o] ELSE Logical(o)
    <2>1. CASE o \notin D
      BY <2>1, <1>1 DEF Logical
    <2>2. CASE o \in D /\ o \notin DOMAIN writes
      <3>1. writes'[o] = [before |-> parent[o], after |-> bytes[o], meta |-> meta]
        BY <2>2, <1>2
      <3>2. o \in span /\ o \in DOMAIN writes'
        BY <2>2, <1>1
      <3>3. QED
        BY <3>1, <3>2 DEF Logical
    <2>3. CASE o \in DOMAIN writes /\ o \in span
      <3>1. writes'[o] = [before |-> writes[o].before, after |-> bytes[o],
                          meta |-> writes[o].meta]
        BY <2>3, <1>3
      <3>2. o \in DOMAIN writes'
        BY <2>3, <1>1
      <3>3. QED
        BY <3>1, <3>2, <2>3 DEF Logical
    <2>4. CASE o \in DOMAIN writes /\ o \notin span
      BY <2>4, <1>1, <1>4 DEF Logical
    <2>5. QED
      BY <2>1, <2>2, <2>3, <2>4
  <1>7. QED
    BY <1>1, <1>5, <1>6

(* A write keeps the invariant if it makes of the planned bytes what the   *)
(* intent makes of the bytes asked for.                                    *)
LEMMA WriteKeepsInv ==
  ASSUME PlannerInv, stage = "resolve", todo # <<>>,
         NEW span, NEW bytes, NEW meta, NEW wanted,
         Write(span, bytes, meta, wanted),
         span \subseteq DOMAIN parent => \A o \in span : bytes[o] = wanted[o]
  PROVE  PlannerInv'
  <1>1. CASE Fail("Bounds") \/ Fail("Conflict")
    BY <1>1, FailKeepsInv DEF Errors
  <1>2. CASE /\ InImage(span)
             /\ writes' = AddWrite(span, bytes, meta)
             /\ asked' = Overwrite(asked, span, wanted)
             /\ todo' = Tail(todo)
             /\ UNCHANGED <<args, truncate, stage, status, patches, output>>
    <2>1. /\ span \subseteq DOMAIN parent
          /\ UNCHANGED <<parent, mode, policy, truncate, stage, status, patches, output>>
      BY <1>2 DEF InImage, args
    <2>2. /\ DOMAIN writes \subseteq DOMAIN parent
          /\ \A o \in DOMAIN writes : writes[o].before = parent[o]
          /\ DOMAIN asked = DOMAIN parent
          /\ todo \in Seq(Intents)
      BY DEF PlannerInv, ArgumentsInv
    <2>3. /\ DOMAIN writes' \subseteq DOMAIN parent
          /\ \A o \in DOMAIN writes' : writes'[o].before = parent[o]
          /\ \A o \in DOMAIN parent :
               Logical(o)' = IF o \in span THEN bytes[o] ELSE Logical(o)
      BY <1>2, <2>1, <2>2, AddedBytes
    <2>4. /\ DOMAIN asked' = DOMAIN parent
          /\ \A o \in DOMAIN parent : asked'[o] = IF o \in span THEN wanted[o] ELSE asked[o]
      BY <1>2, <2>2 DEF Overwrite
    <2>5. todo' \in Seq(Intents)
      BY <1>2, <2>2
    <2>6. ArgumentsInv'
      BY <2>1, <2>3, <2>4, <2>5 DEF PlannerInv, ArgumentsInv
    <2>7. status = "none" /\ output = parent /\ \A o \in DOMAIN parent : Logical(o) = asked[o]
      BY DEF PlannerInv, PlanningInv, UntouchedInv, Planning
    <2>8. \A o \in DOMAIN parent : Logical(o)' = asked'[o]
      BY <2>1, <2>3, <2>4, <2>7
    <2>9. PlanningInv'
      BY <2>1, <2>7, <2>8 DEF PlanningInv
    <2>10. UntouchedInv' /\ SettledInv' /\ RepairInv' /\ LengthInv' /\ ApplyInv' /\ DoneInv'
             /\ PlanApplies'
      BY <2>1, <2>7 DEF UntouchedInv, SettledInv, RepairInv, LengthInv, ApplyInv, DoneInv,
                        PlanApplies
    <2>11. QED
      BY <2>6, <2>9, <2>10 DEF PlannerInv
  <1>3. QED
    BY <1>1, <1>2 DEF Write

(* Each kind of intent keeps the invariant.                                *)
LEMMA ResolveKeepsInv ==
  ASSUME PlannerInv, Resolve
  PROVE  PlannerInv'
  <1>1. CASE Patch
    BY <1>1, WriteKeepsInv DEF Patch, Resolving
  <1>2. CASE SetValue
    <2>1. CASE \E error \in {"Resolve", "Unsupported", "ValueOverflow"} : Fail(error)
      BY <2>1, FailKeepsInv DEF Errors
    <2>2. CASE \E bytes : Write(SpanOf(Intent.field), bytes, Of(Intent.field, "set"), bytes)
      BY <1>2, <2>2, WriteKeepsInv DEF SetValue, Resolving
    <2>3. QED
      BY <1>2, <2>1, <2>2 DEF SetValue
  <1>3. CASE ReplaceFixedBytes
    <2>1. CASE \E error \in {"Resolve", "Bounds"} : Fail(error)
      BY <2>1, FailKeepsInv DEF Errors
    <2>2. CASE \E bytes : Write(SpanOf(Intent.field), bytes, Of(Intent.field, "replace"), bytes)
      BY <1>3, <2>2, WriteKeepsInv DEF ReplaceFixedBytes, Resolving
    <2>3. QED
      BY <1>3, <2>1, <2>2 DEF ReplaceFixedBytes
  <1>4. CASE UpdateBits
    <2> DEFINE f == Intent.field
               start == Locate(parent, f)
               wanted == [o \in SpanOf(f) |->
                            Masked(asked[o], Intent.set, Intent.clear, start, o)]
    <2>1. CASE \E error \in {"Conflict", "Unsupported", "Resolve", "ValueOverflow"} : Fail(error)
      BY <2>1, FailKeepsInv DEF Errors
    <2>2. CASE Write(SpanOf(f), Updated(f, Intent.set, Intent.clear), Of(f, "bits"), wanted)
      <3>1. stage = "resolve" /\ todo # <<>>
        BY <1>4 DEF UpdateBits, Resolving
      <3>2. \A o \in DOMAIN parent : Logical(o) = asked[o]
        BY <3>1 DEF PlannerInv, PlanningInv, Planning
      <3>3. ASSUME SpanOf(f) \subseteq DOMAIN parent, NEW o \in SpanOf(f)
            PROVE  Updated(f, Intent.set, Intent.clear)[o] = wanted[o]
        BY <3>2, <3>3 DEF Updated
      <3>4. QED
        BY <2>2, <3>1, <3>3, WriteKeepsInv
    <2>3. QED
      BY <1>4, <2>1, <2>2 DEF UpdateBits
  <1>5. CASE TruncateImage
    <2>1. CASE Fail("Conflict")
      BY <2>1, FailKeepsInv DEF Errors
    <2>2. CASE /\ truncate' = {Intent.len}
               /\ todo' = Tail(todo)
               /\ UNCHANGED <<args, writes, stage, status, patches, output, asked>>
      <3>1. stage = "resolve" /\ todo # <<>> /\ Intent.kind = "truncate"
        BY <1>5 DEF TruncateImage, Resolving
      <3>2. UNCHANGED <<parent, mode, policy, writes, stage, status, patches, output, asked>>
        BY <2>2 DEF args
      <3>3. todo \in Seq(Intents)
        BY DEF PlannerInv, ArgumentsInv
      <3>4. Intent \in Intents /\ todo' \in Seq(Intents)
        BY <2>2, <3>1, <3>3 DEF Intent
      <3>5. truncate' \subseteq Nat
        BY <2>2, <3>1, <3>4, PlannerAssumption
      <3>6. ArgumentsInv'
        BY <3>2, <3>4, <3>5 DEF PlannerInv, ArgumentsInv
      <3>7. PlanningInv' /\ UntouchedInv' /\ RepairInv'
        BY <3>2 DEF PlannerInv, PlanningInv, UntouchedInv, RepairInv, Logical
      <3>8. SettledInv' /\ LengthInv' /\ ApplyInv' /\ DoneInv' /\ PlanApplies'
        BY <3>1, <3>2 DEF SettledInv, LengthInv, ApplyInv, DoneInv, PlanApplies
      <3>9. QED
        BY <3>6, <3>7, <3>8 DEF PlannerInv
    <2>3. QED
      BY <1>5, <2>1, <2>2 DEF TruncateImage
  <1>6. QED
    BY <1>1, <1>2, <1>3, <1>4, <1>5 DEF Resolve

(* Settling the length, the checksum and the patches keeps the invariant.  *)
LEMMA SettleKeepsInv ==
  ASSUME PlannerInv, Settle
  PROVE  PlannerInv'
  <1>0. /\ Length \in Nat
        /\ DOMAIN parent = 0..(Length - 1)
        /\ DOMAIN parent \subseteq Nat
        /\ DOMAIN writes \subseteq DOMAIN parent
    BY Offsets DEF PlannerInv, ArgumentsInv
  <1>1. CASE CheckLength
    <2>1. CASE Fail("Bounds") \/ Fail("TruncateConflict")
      BY <2>1, FailKeepsInv DEF Errors
    <2>2. CASE /\ FinalLen <= Length
               /\ \A o \in DOMAIN writes : o < FinalLen
               /\ stage' = "integrity"
               /\ UNCHANGED <<args, todo, writes, truncate, status, patches, output, asked>>
      <3>1. /\ UNCHANGED <<parent, mode, policy, todo, writes, truncate, status, patches,
                           output, asked>>
            /\ stage' = "integrity"
            /\ stage = "resolve"
        BY <1>1, <2>2 DEF args, CheckLength
      <3>2. /\ status = "none"
            /\ output = parent
            /\ \A o \in DOMAIN parent : Logical(o) = asked[o]
        BY <3>1 DEF PlannerInv, PlanningInv, UntouchedInv, Planning
      <3>3. FinalLen \in Nat
        BY <1>0 DEF FinalLen, PlannerInv, ArgumentsInv
      <3>4. ASSUME NEW o \in DOMAIN parent, o >= FinalLen
            PROVE  asked[o] = parent[o]
        <4>1. o \notin DOMAIN writes
          BY <3>3, <3>4, <2>2, <1>0
        <4>2. QED
          BY <4>1, <3>2 DEF Logical
      <3>5. FinalLen' = FinalLen /\ Length' = Length
        BY <3>1 DEF FinalLen, Length
      <3>6. LengthInv'
        BY <3>1, <3>3, <3>4, <3>5, <2>2 DEF LengthInv
      <3>7. ArgumentsInv' /\ PlanningInv' /\ UntouchedInv' /\ RepairInv'
        BY <3>1, <3>2 DEF PlannerInv, ArgumentsInv, PlanningInv, UntouchedInv, RepairInv, Logical
      <3>8. SettledInv' /\ ApplyInv' /\ DoneInv' /\ PlanApplies'
        BY <3>1 DEF SettledInv, ApplyInv, DoneInv, PlanApplies
      <3>9. QED
        BY <3>6, <3>7, <3>8 DEF PlannerInv
    <2>3. QED
      BY <1>1, <2>1, <2>2 DEF CheckLength
  <1>2. CASE Leave
    <2>1. /\ UNCHANGED <<parent, mode, policy, todo, writes, truncate, patches, output, asked>>
          /\ stage' = "collapse"
          /\ stage = "integrity"
          /\ status' # "applied"
      BY <1>2 DEF Leave, SettleIntegrity, args
    <2>2. output = parent /\ \A o \in DOMAIN parent : Logical(o) = asked[o]
      BY <2>1 DEF PlannerInv, PlanningInv, UntouchedInv, Planning
    <2>3. ArgumentsInv' /\ UntouchedInv' /\ SettledInv' /\ LengthInv'
      BY <2>1, <2>2 DEF PlannerInv, ArgumentsInv, UntouchedInv, SettledInv, LengthInv, Logical,
                        FinalLen, Length
    <2>4. PlanningInv' /\ RepairInv' /\ ApplyInv' /\ DoneInv' /\ PlanApplies'
      BY <2>1 DEF Planning, PlanningInv, RepairInv, ApplyInv, DoneInv, PlanApplies
    <2>5. QED
      BY <2>3, <2>4 DEF PlannerInv
  <1>3. CASE Repair
    <2> DEFINE meta == Of(ChecksumField, policy)
               bytes == [o \in {Checksum} |-> Digest]
    <2>1. CASE Fail("Bounds") \/ Fail("TruncateConflict") \/ Fail("Conflict")
      BY <2>1, FailKeepsInv DEF Errors
    <2>2. CASE /\ CoverageEnd \in (Checksum + 1)..FinalLen
               /\ ~Clash({Checksum}, meta)
               /\ writes' = AddWrite({Checksum}, bytes, meta)
               /\ SettleIntegrity("applied")
      <3>1. /\ UNCHANGED <<parent, mode, policy, todo, truncate, patches, output, asked>>
            /\ stage' = "collapse"
            /\ stage = "integrity"
            /\ status' = "applied"
            /\ policy # "preserve"
        BY <1>3, <2>2 DEF Repair, SettleIntegrity, args
      <3>2. output = parent /\ \A o \in DOMAIN parent : Logical(o) = asked[o]
        BY <3>1 DEF PlannerInv, PlanningInv, UntouchedInv, Planning
      <3>3. FinalLen \in Nat /\ FinalLen <= Length
        BY <3>1 DEF PlannerInv, LengthInv
      <3>4. Checksum \in DOMAIN parent
        BY <2>2, <3>3, <1>0 DEF Checksum
      <3>5. Checksum \notin DOMAIN writes
        <4>1. policy # "bits"
          BY DEF PlannerInv, ArgumentsInv, Policy
        <4>2. QED
          BY <4>1, <2>2 DEF Clash, Of
      <3>6. asked[Checksum] = parent[Checksum]
        BY <3>2, <3>4, <3>5 DEF Logical
      <3>7. /\ DOMAIN writes' \subseteq DOMAIN parent
            /\ \A o \in DOMAIN writes' : writes'[o].before = parent[o]
            /\ \A o \in DOMAIN parent :
                 Logical(o)' = IF o \in {Checksum} THEN bytes[o] ELSE Logical(o)
        <4>1. {Checksum} \in SUBSET DOMAIN parent
          BY <3>4
        <4>2. \A o \in DOMAIN writes : writes[o].before = parent[o]
          BY DEF PlannerInv, ArgumentsInv
        <4>3. writes' = AddWrite({Checksum}, bytes, meta) /\ parent' = parent
          BY <2>2, <3>1
        <4> HIDE DEF bytes, meta
        <4>4. QED
          BY <4>1, <4>2, <4>3, <1>0, AddedBytes
      <3>8. ArgumentsInv'
        BY <3>1, <3>7 DEF PlannerInv, ArgumentsInv
      <3>9. SettledInv'
        BY <3>1, <3>2, <3>7 DEF SettledInv
      <3>10. RepairInv' /\ UntouchedInv'
        BY <3>1, <3>2, <3>6 DEF RepairInv, UntouchedInv
      <3>11. LengthInv'
        BY <3>1 DEF PlannerInv, LengthInv, FinalLen, Length
      <3>12. PlanningInv' /\ ApplyInv' /\ DoneInv' /\ PlanApplies'
        BY <3>1 DEF Planning, PlanningInv, ApplyInv, DoneInv, PlanApplies
      <3>13. QED
        BY <3>8, <3>9, <3>10, <3>11, <3>12 DEF PlannerInv
    <2>3. QED
      BY <1>3, <2>1, <2>2 DEF Repair
  <1>4. CASE Collapse
    <2>1. /\ UNCHANGED <<parent, mode, policy, todo, writes, truncate, status, output, asked>>
          /\ stage' = "apply"
          /\ stage = "collapse"
          /\ patches' = Patches
      BY <1>4 DEF Collapse, args
    <2>2. output = parent
      BY <2>1 DEF PlannerInv, UntouchedInv
    <2>3. ASSUME NEW o \in DOMAIN parent, ~ \E p \in Patches : o \in DOMAIN p.after
          PROVE  Logical(o) = parent[o]
      <3>1. CASE o \in DOMAIN writes
        <4>1. PICK s \in DOMAIN writes : Starts(s) /\ o \in Run(s)
          BY <3>1, <1>0, RunsCover
        <4>2. PatchAt(s) \in Patches /\ DOMAIN PatchAt(s).after = Run(s)
          BY <4>1 DEF Patches, PatchAt
        <4>3. QED
          BY <4>1, <4>2, <2>3
      <3>2. CASE o \notin DOMAIN writes
        BY <3>2 DEF Logical
      <3>3. QED
        BY <3>1, <3>2
    <2>4. Patches' = Patches
      BY <2>1 DEF Patches, PatchAt, Run, Starts
    <2>5. \A o \in DOMAIN parent : Logical(o)' = Logical(o)
      BY <2>1 DEF Logical
    <2>6. ApplyInv'
      BY <2>1, <2>2, <2>3, <2>4, <2>5 DEF ApplyInv, Pending
    <2>7. ArgumentsInv' /\ SettledInv' /\ RepairInv' /\ LengthInv'
      BY <2>1, <2>5 DEF PlannerInv, ArgumentsInv, SettledInv, RepairInv, LengthInv, FinalLen,
                        Length
    <2>8. PlanningInv' /\ UntouchedInv' /\ DoneInv' /\ PlanApplies'
      BY <2>1 DEF Planning, PlanningInv, UntouchedInv, DoneInv, PlanApplies
    <2>9. QED
      BY <2>6, <2>7, <2>8 DEF PlannerInv
  <1>5. QED
    BY <1>1, <1>2, <1>3, <1>4 DEF Settle

(* Applying patches and resizing keeps the invariant: the patch that is    *)
(* applied finds the parent's bytes, because no other patch covers them.   *)
LEMMA ApplyKeepsInv ==
  ASSUME PlannerInv, Apply
  PROVE  PlannerInv'
  <1>0. /\ Length \in Nat
        /\ DOMAIN parent = 0..(Length - 1)
        /\ DOMAIN parent \subseteq Nat
        /\ DOMAIN writes \subseteq DOMAIN parent
        /\ \A o \in DOMAIN writes : writes[o].before = parent[o]
    BY Offsets DEF PlannerInv, ArgumentsInv
  <1>1. stage = "apply"
    BY DEF Apply, ApplyPatch, ApplyResize
  <1>2. /\ patches \subseteq Patches
        /\ DOMAIN output = DOMAIN parent
        /\ \A o \in DOMAIN parent : output[o] = IF Pending(o) THEN parent[o] ELSE Logical(o)
    BY <1>1 DEF PlannerInv, ApplyInv
  <1>3. CASE ApplyPatch
    <2>1. PICK p \in patches :
            \/ /\ \E o \in DOMAIN p.before : output[o] # p.before[o]
               /\ Fail("Preimage")
            \/ /\ \A o \in DOMAIN p.before : output[o] = p.before[o]
               /\ output' = Overwrite(output, DOMAIN p.after, p.after)
               /\ patches' = patches \ {p}
               /\ UNCHANGED <<args, todo, writes, truncate, stage, status, asked>>
      BY <1>3 DEF ApplyPatch
    <2>2. PICK s \in DOMAIN writes : Starts(s) /\ p = PatchAt(s)
      BY <1>2 DEF Patches
    <2>3. /\ DOMAIN p.before = Run(s)
          /\ DOMAIN p.after = Run(s)
          /\ \A o \in Run(s) : p.before[o] = writes[o].before /\ p.after[o] = writes[o].after
      BY <2>2 DEF PatchAt
    <2>4. Run(s) \subseteq DOMAIN writes
      BY DEF Run
    <2>5. \A o \in DOMAIN p.before : output[o] = p.before[o]
      <3> SUFFICES ASSUME NEW o \in Run(s) PROVE output[o] = p.before[o]
        BY <2>3
      <3>1. Pending(o) /\ o \in DOMAIN parent
        BY <2>3, <2>4, <1>0 DEF Pending
      <3>2. output[o] = parent[o]
        BY <3>1, <1>2
      <3>3. QED
        BY <3>2, <2>3, <2>4, <1>0
    <2>6. /\ UNCHANGED <<parent, mode, policy, todo, writes, truncate, stage, status, asked>>
          /\ output' = Overwrite(output, Run(s), p.after)
          /\ patches' = patches \ {p}
      BY <2>1, <2>3, <2>5 DEF args
    <2>7. \A o \in DOMAIN parent : output'[o] = IF o \in Run(s) THEN Logical(o) ELSE output[o]
      BY <2>6, <2>3, <2>4, <1>2 DEF Overwrite, Logical
    <2>8. ASSUME NEW o \in Run(s) PROVE ~Pending(o)'
      <3> SUFFICES ASSUME NEW q \in patches, q # p, o \in DOMAIN q.after PROVE FALSE
        BY <2>6 DEF Pending
      <3>1. PICK t \in DOMAIN writes : Starts(t) /\ q = PatchAt(t)
        BY <1>2 DEF Patches
      <3>2. o \in Run(t)
        BY <3>1 DEF PatchAt
      <3>3. t = s
        BY <3>1, <3>2, <2>2, <2>8, <1>0, RunsDisjoint
      <3>4. QED
        BY <3>1, <3>3, <2>2
    <2>9. ASSUME NEW o \in DOMAIN parent, o \notin Run(s) PROVE Pending(o)' <=> Pending(o)
      BY <2>3, <2>6, <2>9 DEF Pending
    <2>10. Patches' = Patches /\ DOMAIN output' = DOMAIN parent
      BY <2>6, <1>2 DEF Patches, PatchAt, Run, Starts, Overwrite
    <2>11. \A o \in DOMAIN parent : Logical(o)' = Logical(o)
      BY <2>6 DEF Logical
    <2>12. ASSUME NEW o \in DOMAIN parent
           PROVE  output'[o] = IF Pending(o)' THEN parent[o] ELSE Logical(o)
      <3>1. CASE o \in Run(s)
        BY <3>1, <2>7, <2>8
      <3>2. CASE o \notin Run(s)
        BY <3>2, <2>7, <2>9, <1>2
      <3>3. QED
        BY <3>1, <3>2
    <2>13. ApplyInv'
      BY <1>2, <2>6, <2>10, <2>11, <2>12 DEF ApplyInv
    <2>14. ArgumentsInv' /\ SettledInv' /\ RepairInv' /\ LengthInv'
      BY <2>6, <2>11 DEF PlannerInv, ArgumentsInv, SettledInv, RepairInv, LengthInv, FinalLen,
                         Length
    <2>15. PlanningInv' /\ UntouchedInv' /\ DoneInv' /\ PlanApplies'
      BY <1>1, <2>6 DEF Planning, PlanningInv, UntouchedInv, DoneInv, PlanApplies
    <2>16. QED
      BY <2>13, <2>14, <2>15 DEF PlannerInv
  <1>4. CASE ApplyResize
    <2>1. /\ UNCHANGED <<parent, mode, policy, todo, writes, truncate, status, patches, asked>>
          /\ patches = {}
          /\ output' = [o \in 0..(FinalLen - 1) |-> output[o]]
          /\ stage' = "done"
      BY <1>4 DEF ApplyResize, args
    <2>2. FinalLen \in Nat /\ FinalLen <= Length
      BY <1>1 DEF PlannerInv, LengthInv
    <2>3. 0..(FinalLen - 1) \subseteq DOMAIN parent
      BY <2>2, <1>0
    <2>4. \A o \in DOMAIN parent : output[o] = Logical(o)
      BY <2>1, <1>2 DEF Pending
    <2>5. FinalLen' = FinalLen /\ Length' = Length /\ \A o \in DOMAIN parent : Logical(o)' = Logical(o)
      BY <2>1 DEF FinalLen, Length, Logical
    <2>6. DoneInv'
      BY <2>1, <2>3, <2>4, <2>5 DEF DoneInv
    <2>7. ArgumentsInv' /\ SettledInv' /\ RepairInv' /\ LengthInv'
      BY <1>1, <2>1, <2>5 DEF PlannerInv, ArgumentsInv, SettledInv, RepairInv, LengthInv
    <2>8. PlanningInv' /\ UntouchedInv' /\ ApplyInv' /\ PlanApplies'
      BY <2>1 DEF Planning, PlanningInv, UntouchedInv, ApplyInv, PlanApplies
    <2>9. QED
      BY <2>6, <2>7, <2>8 DEF PlannerInv
  <1>5. QED
    BY <1>3, <1>4 DEF Apply

-----------------------------------------------------------------------------
(* The theorems.                                                           *)

LEMMA InitHasInv == Init => PlannerInv
  <1> SUFFICES ASSUME Init PROVE PlannerInv
    OBVIOUS
  <1>1. /\ DOMAIN writes = {}
        /\ stage = "start"
        /\ status = "none"
        /\ parent \in Parents
        /\ policy \in Policy
        /\ todo \in Seq(Intents)
        /\ truncate = {}
        /\ output = parent
        /\ asked = parent
    BY PlannerAssumption DEF Init, NoWrites
  <1>2. ArgumentsInv
    BY <1>1 DEF ArgumentsInv
  <1>3. PlanningInv /\ UntouchedInv /\ SettledInv /\ RepairInv
    BY <1>1 DEF PlanningInv, UntouchedInv, SettledInv, RepairInv, Logical
  <1>4. LengthInv /\ ApplyInv /\ DoneInv /\ PlanApplies
    BY <1>1 DEF LengthInv, ApplyInv, DoneInv, PlanApplies
  <1>5. QED
    BY <1>2, <1>3, <1>4 DEF PlannerInv

LEMMA StepKeepsInv == PlannerInv /\ [Next]_vars => PlannerInv'
  <1> SUFFICES ASSUME PlannerInv, [Next]_vars PROVE PlannerInv'
    OBVIOUS
  <1>1. CASE Refuse
    <2>1. Fail("Unsupported") \/ Fail("Resolve")
      BY <1>1 DEF Refuse
    <2>2. QED
      BY <2>1, FailKeepsInv DEF Errors
  <1>2. CASE Accept
    <2>1. /\ UNCHANGED <<parent, mode, policy, todo, writes, truncate, status, patches,
                         output, asked>>
          /\ stage = "start"
          /\ stage' = "resolve"
      BY <1>2 DEF Accept, args
    <2>2. ArgumentsInv' /\ PlanningInv' /\ UntouchedInv' /\ RepairInv'
      BY <2>1 DEF PlannerInv, ArgumentsInv, Planning, PlanningInv, UntouchedInv, RepairInv, Logical
    <2>3. SettledInv' /\ LengthInv' /\ ApplyInv' /\ DoneInv' /\ PlanApplies'
      BY <2>1 DEF SettledInv, LengthInv, ApplyInv, DoneInv, PlanApplies
    <2>4. QED
      BY <2>2, <2>3 DEF PlannerInv
  <1>3. CASE Resolve
    BY <1>3, ResolveKeepsInv
  <1>4. CASE Settle
    BY <1>4, SettleKeepsInv
  <1>5. CASE Apply
    BY <1>5, ApplyKeepsInv
  <1>6. CASE UNCHANGED vars
    <2>1. UNCHANGED <<parent, mode, policy, todo, writes, truncate, stage, status, patches,
                      output, asked>>
      BY <1>6 DEF vars
    <2>2. ArgumentsInv' /\ PlanningInv' /\ UntouchedInv' /\ SettledInv' /\ RepairInv'
      BY <2>1 DEF PlannerInv, ArgumentsInv, PlanningInv, UntouchedInv, SettledInv, RepairInv,
                  Logical
    <2>3. LengthInv' /\ DoneInv' /\ PlanApplies'
      BY <2>1 DEF PlannerInv, LengthInv, FinalLen, Length, DoneInv, PlanApplies, Logical
    <2>4. ApplyInv'
      <3>1. Patches' = Patches
        BY <2>1 DEF Patches, PatchAt, Run, Starts
      <3>2. \A o \in DOMAIN parent : Logical(o)' = Logical(o) /\ (Pending(o)' <=> Pending(o))
        BY <2>1 DEF Logical, Pending
      <3>3. QED
        BY <2>1, <3>1, <3>2 DEF PlannerInv, ApplyInv
    <2>5. QED
      BY <2>2, <2>3, <2>4 DEF PlannerInv
  <1>7. QED
    BY <1>1, <1>2, <1>3, <1>4, <1>5, <1>6 DEF Next

(* The inductive invariant holds of every plan.                            *)
THEOREM PlannerCorrect == Spec => []PlannerInv
  BY InitHasInv, StepKeepsInv, PTL DEF Spec

(* Every variable keeps its type; at most one length is ever asked for, and*)
(* no image that plan produces has an offset its parent lacks.             *)
THEOREM TypesHold == Spec => []TypeOK
  <1>1. Init => TypeOK
    BY PlannerAssumption DEF Init, TypeOK, NoWrites
  <1>2. PlannerInv /\ TypeOK /\ [Next]_vars => TypeOK'
    <2> SUFFICES ASSUME PlannerInv, TypeOK, [Next]_vars PROVE TypeOK'
      OBVIOUS
    <2>1. PlannerInv'
      BY StepKeepsInv
    <2>2. CASE \E error \in Errors : Fail(error)
      BY <2>2 DEF Fail, args, TypeOK
    <2>3. CASE Refuse
      BY <2>3, <2>2 DEF Refuse, Errors
    <2>4. CASE Accept
      BY <2>4 DEF Accept, args, TypeOK
    <2>5. CASE Resolve
      <3>1. ASSUME NEW span, NEW bytes, NEW meta, NEW wanted, Write(span, bytes, meta, wanted)
            PROVE  TypeOK'
        <4>1. CASE Fail("Bounds") \/ Fail("Conflict")
          BY <4>1, <2>2 DEF Errors
        <4>2. CASE UNCHANGED <<args, truncate, stage, status, patches, output>>
          BY <2>1, <4>2 DEF args, TypeOK, PlannerInv, ArgumentsInv
        <4>3. QED
          BY <3>1, <4>1, <4>2 DEF Write
      <3>2. CASE Patch
        BY <3>1, <3>2 DEF Patch
      <3>3. CASE SetValue
        BY <3>1, <3>3, <2>2 DEF SetValue, Errors
      <3>4. CASE ReplaceFixedBytes
        BY <3>1, <3>4, <2>2 DEF ReplaceFixedBytes, Errors
      <3>5. CASE UpdateBits
        BY <3>1, <3>5, <2>2 DEF UpdateBits, Errors
      <3>6. CASE TruncateImage
        <4>1. CASE Fail("Conflict")
          BY <4>1, <2>2 DEF Errors
        <4>2. CASE truncate' = {Intent.len} /\ UNCHANGED <<args, stage, status, output>>
          BY <2>1, <4>2 DEF args, TypeOK, PlannerInv, ArgumentsInv
        <4>3. QED
          BY <3>6, <4>1, <4>2 DEF TruncateImage
      <3>7. QED
        BY <2>5, <3>2, <3>3, <3>4, <3>5, <3>6 DEF Resolve
    <2>6. CASE CheckLength
      BY <2>6, <2>2 DEF CheckLength, args, Errors, TypeOK
    <2>7. CASE Leave
      BY <2>7 DEF Leave, SettleIntegrity, args, TypeOK
    <2>8. CASE Repair
      <3>1. CASE \E error \in Errors : Fail(error)
        BY <3>1, <2>2
      <3>2. CASE SettleIntegrity("applied")
        BY <2>1, <3>2 DEF SettleIntegrity, args, TypeOK, PlannerInv, ArgumentsInv
      <3>3. QED
        BY <2>8, <3>1, <3>2 DEF Repair, Errors
    <2>9. CASE Collapse
      BY <2>9 DEF Collapse, args, TypeOK
    <2>10. CASE ApplyPatch
      <3>1. CASE Fail("Preimage")
        BY <3>1, <2>2 DEF Errors
      <3>2. CASE \E p : output' = Overwrite(output, DOMAIN p.after, p.after)
                        /\ UNCHANGED <<args, todo, writes, truncate, stage, status, asked>>
        BY <3>2 DEF Overwrite, args, TypeOK
      <3>3. QED
        BY <2>10, <3>1, <3>2 DEF ApplyPatch
    <2>11. CASE ApplyResize
      <3>1. /\ stage' = "done"
            /\ UNCHANGED <<args, todo, writes, truncate, status, asked>>
        BY <2>11 DEF ApplyResize
      <3>2. FinalLen' = FinalLen /\ Length' = Length /\ parent' = parent
        BY <3>1 DEF FinalLen, Length, args
      <3>3. DOMAIN output' = 0..(FinalLen - 1) /\ FinalLen \in Nat /\ FinalLen <= Length
        BY <2>1, <3>1, <3>2 DEF PlannerInv, DoneInv, LengthInv
      <3>4. DOMAIN output' \subseteq DOMAIN parent
        BY <3>3, Offsets DEF TypeOK
      <3>5. QED
        BY <3>1, <3>4 DEF args, TypeOK
    <2>12. CASE UNCHANGED vars
      BY <2>12 DEF vars, args, TypeOK
    <2>13. QED
      BY <2>3, <2>4, <2>5, <2>6, <2>7, <2>8, <2>9, <2>10, <2>11, <2>12
      DEF Next, Settle, Apply
  <1>3. QED
    BY <1>1, <1>2, PlannerCorrect, PTL DEF Spec

(* add_write loses no intent: skipping bytes that do not change and merging*)
(* updates of bits leave writes that stand for all intents so far.         *)
THEOREM WritesStand == Spec => []WritesStandForIntents
  <1>1. PlannerInv => WritesStandForIntents
    BY DEF PlannerInv, PlanningInv, WritesStandForIntents
  <1>2. QED
    BY <1>1, PlannerCorrect, PTL

(* collapse_writes and apply_plan_bytes: the output is the parent with the *)
(* intents applied in order, but for a repaired checksum.                  *)
THEOREM OutputCorrect == Spec => []OutputIsAsked
  <1>1. PlannerInv => OutputIsAsked
    <2> SUFFICES ASSUME PlannerInv, stage = "done", NEW o \in DOMAIN output
                 PROVE  \/ output[o] = asked[o]
                        \/ o = Checksum /\ status = "applied" /\ policy # "preserve"
      BY DEF OutputIsAsked
    <2>1. /\ DOMAIN output = 0..(FinalLen - 1)
          /\ output[o] = Logical(o)
          /\ FinalLen \in Nat
          /\ FinalLen <= Length
      BY DEF PlannerInv, DoneInv, LengthInv
    <2>2. Length \in Nat /\ DOMAIN parent = 0..(Length - 1)
      BY Offsets DEF PlannerInv, ArgumentsInv
    <2>3. o \in DOMAIN parent
      BY <2>1, <2>2
    <2>4. QED
      BY <2>1, <2>3 DEF PlannerInv, SettledInv
  <1>2. QED
    BY <1>1, PlannerCorrect, PTL

(* plan refuses to cut off a byte that an intent changed.                  *)
THEOREM TruncationSparesIntents == Spec => []NothingAskedIsCutOff
  <1>1. PlannerInv => NothingAskedIsCutOff
    <2> SUFFICES ASSUME PlannerInv, stage = "done", NEW o \in DOMAIN parent \ DOMAIN output
                 PROVE  asked[o] = parent[o]
      BY DEF NothingAskedIsCutOff
    <2>1. /\ DOMAIN output = 0..(FinalLen - 1)
          /\ FinalLen \in Nat
          /\ \A x \in DOMAIN parent : x >= FinalLen => asked[x] = parent[x]
      BY DEF PlannerInv, DoneInv, LengthInv
    <2>2. DOMAIN parent \subseteq Nat
      BY Offsets DEF PlannerInv, ArgumentsInv
    <2>3. o >= FinalLen
      BY <2>1, <2>2
    <2>4. QED
      BY <2>1, <2>3
  <1>2. QED
    BY <1>1, PlannerCorrect, PTL

(* apply_integrity never replaces a checksum that an intent changed.       *)
THEOREM RepairSparesIntents == Spec => []RepairUndoesNoIntent
  <1>1. PlannerInv => RepairUndoesNoIntent
    BY DEF PlannerInv, RepairInv, RepairUndoesNoIntent
  <1>2. QED
    BY <1>1, PlannerCorrect, PTL

(* Neither a truncation nor the repair of the checksum undoes an intent.   *)
THEOREM IntentsStand == Spec => []NothingAskedIsUndone
  BY TruncationSparesIntents, RepairSparesIntents, PTL DEF NothingAskedIsUndone

(* A plan applies to its parent: apply_plan_bytes finds every preimage.    *)
THEOREM PlansApply == Spec => []PlanApplies
  <1>1. PlannerInv => PlanApplies
    BY DEF PlannerInv
  <1>2. QED
    BY <1>1, PlannerCorrect, PTL

-----------------------------------------------------------------------------
(* The checksum.                                                           *)

(* Once the integrity policy was settled the record says what was done: the*)
(* planned image has no checksum, or it is left alone, or it is the digest *)
(* of the planned block.  Writing the checksum does not change what it     *)
(* covers.                                                                 *)
ChecksumInv ==
  stage \in {"collapse", "apply", "done"} =>
    \/ status = "not_applicable" /\ HasChecksum \notin Logical(Feature)
    \/ status = "preserved" /\ policy = "preserve"
    \/ /\ status = "applied" /\ policy # "preserve"
       /\ CoverageEnd \in (Checksum + 1)..FinalLen
       /\ Logical(Checksum) = Digest

(* The checksum depends on the bytes of the block but for its own.         *)
LEMMA CrcOfEqualBlocks ==
  ASSUME NEW image1, NEW image2, NEW end,
         \A o \in (Super..(end - 1)) \ {Checksum} : image1[o] = image2[o]
  PROVE  Crc(image1, end) = Crc(image2, end)
  <1> DEFINE covered == (Super..(end - 1)) \ {Checksum}
             Bits(image) == {p \in covered \X (0..(Width - 1)) : p[2] \in image[p[1]]}
  <1>1. Bits(image1) = Bits(image2)
    OBVIOUS
  <1> QED
    BY <1>1 DEF Crc

LEMMA BlockSizeIsNumber == ASSUME NEW byte PROVE BlockSize(byte) \in Int
  <1>1. Number(byte) \in Nat
    BY DEF Number
  <1> QED
    BY <1>1 DEF BlockSize

(* Repair plans the digest of the planned block, and nothing else.         *)
LEMMA RepairKeepsChecksum ==
  ASSUME PlannerInv, Repair
  PROVE  ChecksumInv'
  <1> DEFINE meta == Of(ChecksumField, policy)
             bytes == [o \in {Checksum} |-> Digest]
  <1>1. CASE \E error \in Errors : Fail(error)
    BY <1>1 DEF Fail, Errors, ChecksumInv
  <1>2. CASE /\ CoverageEnd \in (Checksum + 1)..FinalLen
             /\ ~Clash({Checksum}, meta)
             /\ writes' = AddWrite({Checksum}, bytes, meta)
             /\ SettleIntegrity("applied")
    <2>1. /\ UNCHANGED <<parent, mode, policy, truncate>>
          /\ status' = "applied" /\ stage' = "collapse"
          /\ policy # "preserve"
      BY <1>2 DEF Repair, SettleIntegrity, args
    <2>2. policy # "bits"
      BY DEF PlannerInv, ArgumentsInv, Policy
    <2>3. Checksum \notin DOMAIN writes
      BY <1>2, <2>2 DEF Clash, Of
    <2>4. \A o : o # Checksum => Logical(o)' = Logical(o)
      BY <1>2, <2>1 DEF Logical, AddWrite
    <2>5. Logical(Checksum)' = Digest
      BY <1>2, <2>1, <2>3 DEF Logical, AddWrite
    <2>6. FinalLen' = FinalLen /\ CoverageEnd' = CoverageEnd
      BY <2>1, <2>4 DEF FinalLen, Length, CoverageEnd, CoverageLen, BlockBits, Checksum
    <2>7. Digest' = Digest
      <3> DEFINE before == [o \in DOMAIN parent |-> Logical(o)]
                 after == [o \in DOMAIN parent |-> Logical(o)']
      <3>1. Length \in Nat /\ DOMAIN parent = 0..(Length - 1)
        BY Offsets DEF PlannerInv, ArgumentsInv
      <3>2. FinalLen \in Nat /\ FinalLen <= Length
        BY <1>2 DEF PlannerInv, LengthInv, Repair
      <3>3. \A o \in (Super..(CoverageEnd - 1)) \ {Checksum} : before[o] = after[o]
        BY <1>2, <2>4, <3>1, <3>2 DEF Super
      <3>4. Crc(before, CoverageEnd) = Crc(after, CoverageEnd)
        BY <3>3, CrcOfEqualBlocks
      <3> QED
        BY <3>4, <2>1, <2>6 DEF Digest
    <2> QED
      BY <1>2, <2>1, <2>5, <2>6, <2>7 DEF ChecksumInv
  <1> QED
    BY <1>1, <1>2 DEF Repair, Errors

LEMMA ChecksumStep ==
  ASSUME PlannerInv, ChecksumInv, [Next]_vars
  PROVE  ChecksumInv'
  <1>1. CASE Repair
    BY <1>1, RepairKeepsChecksum
  <1>2. CASE Leave
    <2>1. CASE HasChecksum \notin Logical(Feature) /\ SettleIntegrity("not_applicable")
      BY <2>1, <1>2 DEF Leave, SettleIntegrity, ChecksumInv, Logical, args
    <2>2. CASE policy = "preserve" /\ SettleIntegrity("preserved")
      BY <2>2, <1>2 DEF Leave, SettleIntegrity, ChecksumInv, args
    <2> QED
      BY <1>2, <2>1, <2>2 DEF Leave
  <1>3. CASE /\ stage \in {"collapse", "apply", "done"}
             /\ UNCHANGED <<args, writes, truncate, status>>
    BY <1>3 DEF args, ChecksumInv, Digest, CoverageEnd, CoverageLen, FinalLen, Length, Logical
  <1>4. CASE stage' \notin {"collapse", "apply", "done"}
    BY <1>4 DEF ChecksumInv
  <1>5. CASE Refuse \/ Accept \/ Resolve \/ CheckLength
    <2>1. ASSUME NEW span, NEW bytes, NEW meta, NEW wanted, stage = "resolve",
                 Write(span, bytes, meta, wanted)
          PROVE  stage' \notin {"collapse", "apply", "done"}
      BY <2>1 DEF Write, Fail
    <2>2. CASE Refuse \/ Accept \/ CheckLength
      BY <2>2, <1>4 DEF Refuse, Accept, CheckLength, Fail
    <2>3. CASE Patch
      BY <2>3, <2>1, <1>4 DEF Patch, Resolving
    <2>4. CASE SetValue
      BY <2>4, <2>1, <1>4 DEF SetValue, Resolving, Fail
    <2>5. CASE ReplaceFixedBytes
      BY <2>5, <2>1, <1>4 DEF ReplaceFixedBytes, Resolving, Fail
    <2>6. CASE UpdateBits
      BY <2>6, <2>1, <1>4 DEF UpdateBits, Resolving, Fail
    <2>7. CASE TruncateImage
      BY <2>7, <1>4 DEF TruncateImage, Resolving, Fail
    <2> QED
      BY <1>5, <2>2, <2>3, <2>4, <2>5, <2>6, <2>7 DEF Resolve
  <1>6. CASE Collapse \/ Apply
    BY <1>6, <1>3 DEF Collapse, Apply, ApplyPatch, ApplyResize, Fail
  <1>7. CASE UNCHANGED vars
    BY <1>7, <1>3, <1>4 DEF vars, args
  <1> QED
    BY <1>1, <1>2, <1>5, <1>6, <1>7 DEF Next, Settle

(* The image that plan and apply_plan_bytes produce has the checksum that  *)
(* the policy asks for, over the block as it was published.                *)
THEOREM ChecksumCorrect == Spec => []ChecksumIsAsAsked
  <1>1. Init => ChecksumInv
    BY DEF Init, ChecksumInv
  <1>2. PlannerInv /\ ChecksumInv => ChecksumIsAsAsked
    <2> DEFINE size == BlockSize(output[BlockBits])
               end == IF size > Super THEN size ELSE Super + size
    <2> SUFFICES ASSUME PlannerInv, ChecksumInv, stage = "done",
                        {Checksum, Feature, BlockBits} \subseteq DOMAIN output,
                        HasChecksum \in output[Feature]
                 PROVE  CASE policy = "recalculate" -> output[Checksum] = Crc(output, end)
                          [] policy = "invalidate" -> output[Checksum] = Crc(output, end) \cup {0}
                          [] policy = "preserve" -> output[Checksum] = asked[Checksum]
      BY DEF ChecksumIsAsAsked
    <2>1. /\ DOMAIN output = 0..(FinalLen - 1)
          /\ \A o \in DOMAIN output : output[o] = Logical(o)
          /\ FinalLen \in Nat /\ FinalLen <= Length
      BY DEF PlannerInv, DoneInv, LengthInv
    <2>2. Length \in Nat /\ DOMAIN parent = 0..(Length - 1)
      BY Offsets DEF PlannerInv, ArgumentsInv
    <2>3. policy \in Policy
      BY DEF PlannerInv, ArgumentsInv
    <2>4. CASE policy = "preserve"
      <3>1. Checksum \in DOMAIN parent
        BY <2>1, <2>2
      <3>2. Logical(Checksum) = asked[Checksum]
        BY <2>4, <3>1 DEF PlannerInv, SettledInv
      <3> QED
        BY <2>1, <2>4, <3>2
    <2>5. CASE policy # "preserve"
      <3>1. CoverageEnd \in (Checksum + 1)..FinalLen /\ Logical(Checksum) = Digest
        BY <2>1, <2>5 DEF ChecksumInv
      <3>2. size = BlockSize(Logical(BlockBits)) /\ size \in Int
        BY <2>1, BlockSizeIsNumber
      <3>3. end = CoverageEnd
        BY <3>2 DEF CoverageEnd, CoverageLen, Super
      <3>4. \A o \in (Super..(CoverageEnd - 1)) \ {Checksum} :
               output[o] = [p \in DOMAIN parent |-> Logical(p)][o]
        BY <2>1, <2>2, <3>1 DEF Super
      <3>5. Crc(output, end) = Crc([p \in DOMAIN parent |-> Logical(p)], CoverageEnd)
        BY <3>3, <3>4, CrcOfEqualBlocks
      <3> QED
        BY <2>1, <2>3, <2>5, <3>1, <3>5 DEF Digest, Policy
    <2> QED
      BY <2>4, <2>5
  <1>3. PlannerInv /\ ChecksumInv /\ [Next]_vars => ChecksumInv'
    BY ChecksumStep
  <1> QED
    BY <1>1, <1>2, <1>3, PlannerCorrect, PTL DEF Spec
=============================================================================
