-------------------------------- MODULE Recipe --------------------------------
(***************************************************************************)
(* The cases of a campaign:                                                *)
(*   erofs-lab/src/campaign.rs, generate_recipe, DeterministicCases and    *)
(*   CombinationStream.                                                    *)
(*                                                                         *)
(* A recipe is a window of an enumeration: first, field by field, the      *)
(* boundary values and the single bits, then a pseudo-random stream of     *)
(* combinations.  The window starts at an offset, which is reached by      *)
(* advancing the enumeration without building cases.                       *)
(*                                                                         *)
(* A target is the number of bits of its field, 0 for a field that holds   *)
(* bytes and has no value.  What the generator draws is a free choice.     *)
(***************************************************************************)
EXTENDS Integers, Sequences, FiniteSets

CONSTANTS
  Specs,     \* campaign specifications: targets, offset, samples, mutations
  MaxSkip    \* MAX_CASE_SKIP

ASSUME RecipeAssumption ==
  /\ MaxSkip \in Nat
  /\ Specs \subseteq [targets : Seq(Nat), offset : Nat, samples : Nat, mutations : Nat]

VARIABLES
  spec,      \* the specification
  step,      \* where generate_recipe is
  cursor,    \* DeterministicCases: a target and how many of its cases are past
  skip,      \* cases still to be skipped
  passed,    \* deterministic_total: deterministic cases skipped or taken
  left,      \* draws that may still be made
  cases,     \* the cases so far
  stream,    \* history: what was drawn so far, but for draws of nothing
  drawn      \* history: how many draws were made

recipeVars == <<spec, step, cursor, skip, passed, left, cases, stream, drawn>>

Least(S) == CHOOSE x \in S : \A y \in S : x <= y
AtMost(n, m) == IF n < m THEN n ELSE m

-----------------------------------------------------------------------------
(* The enumeration.                                                        *)

Targets == 1..Len(spec.targets)
MaxValue(bits) == 2 ^ bits - 1

Set(t, value) == [kind |-> "set", target |-> t, value |-> value]
Bit(t, bit) == [kind |-> "bits", target |-> t, value |-> 2 ^ bit]

(* Sorted and without duplicates.                                          *)
Boundaries(bits) ==
  IF bits = 1 THEN <<0, 1>> ELSE <<0, 1, MaxValue(bits) - 1, MaxValue(bits)>>

Items(t) ==
  LET bits == spec.targets[t]
      values == Boundaries(bits)
  IN  IF bits = 0 THEN <<>>
      ELSE [i \in 1..(Len(values) + bits) |->
              IF i <= Len(values) THEN <<Set(t, values[i])>>
              ELSE <<Bit(t, i - Len(values) - 1)>>]

(* The targets that have items left behind the cursor.                     *)
Behind(t) == IF t = cursor.target THEN cursor.item ELSE 0
Ahead == {t \in Targets : t >= cursor.target /\ Behind(t) < Len(Items(t))}
Descriptor == LET t == Least(Ahead) IN Items(t)[Behind(t) + 1]

Advance ==
  LET t == Least(Ahead)
  IN  /\ cursor' = [target |-> t, item |-> Behind(t) + 1]
      /\ passed' = passed + 1

(* One draw: at least one and at most `mutations' targets, each of which   *)
(* contributes a value if its field has values, in the order of targets.   *)
MaxMutations == AtMost(spec.mutations, Len(spec.targets))
Selections == {S \in SUBSET Targets : Cardinality(S) \in 1..MaxMutations}

Combination(S, value) ==
  LET nth(i) == CHOOSE t \in S : Cardinality({u \in S : u <= t}) = i
  IN  [i \in 1..Cardinality(S) |-> Set(nth(i), value[nth(i)])]

Numeric(S) == {t \in S : spec.targets[t] > 0}
Widest(S) == CHOOSE b \in {spec.targets[t] : t \in S} : \A t \in S : spec.targets[t] <= b
Values(S) ==
  LET top == IF S = {} THEN 0 ELSE MaxValue(Widest(S))
  IN  {f \in [S -> 0..top] : \A t \in S : f[t] <= MaxValue(spec.targets[t])}

Draws ==
  UNION {{Combination(Numeric(S), value) : value \in Values(Numeric(S))} : S \in Selections}

-----------------------------------------------------------------------------
(* generate_recipe                                                         *)

RecipeInit ==
  /\ spec \in Specs
  /\ step = "start"
  /\ cursor = [target |-> 1, item |-> 0]
  /\ skip = spec.offset
  /\ passed = 0
  /\ left = 0
  /\ cases = <<>>
  /\ stream = <<>>
  /\ drawn = 0

Rejected == spec.targets = <<>> \/ spec.samples = 0 \/ spec.offset > MaxSkip

Check ==
  /\ step = "start"
  /\ step' = IF Rejected THEN "rejected" ELSE "skip"
  /\ UNCHANGED <<spec, cursor, skip, passed, left, cases, stream, drawn>>

SkipDescriptor ==
  /\ step = "skip"
  /\ skip > 0
  /\ Ahead # {}
  /\ Advance
  /\ skip' = skip - 1
  /\ UNCHANGED <<spec, step, left, cases, stream, drawn>>

EndSkip ==
  /\ step = "skip"
  /\ skip = 0 \/ Ahead = {}
  /\ step' = "take"
  /\ UNCHANGED <<spec, cursor, skip, passed, left, cases, stream, drawn>>

Short == Len(cases) < spec.samples

TakeDescriptor ==
  /\ step = "take"
  /\ Short
  /\ Ahead # {}
  /\ Advance
  /\ cases' = Append(cases, Descriptor)
  /\ UNCHANGED <<spec, step, skip, left, stream, drawn>>

(* The draws that the whole enumeration up to the end of the window makes. *)
DrawBudget == IF spec.offset + spec.samples > passed
              THEN spec.offset + spec.samples - passed ELSE 0

EndTake ==
  /\ step = "take"
  /\ ~Short \/ Ahead = {}
  /\ IF Short /\ MaxMutations > 0
     THEN step' = "skip draws" /\ left' = DrawBudget
     ELSE step' = "done" /\ left' = left
  /\ UNCHANGED <<spec, cursor, skip, passed, cases, stream, drawn>>

Draw(d) ==
  /\ left > 0
  /\ left' = left - 1
  /\ drawn' = drawn + 1
  /\ stream' = IF d = <<>> THEN stream ELSE Append(stream, d)
  /\ UNCHANGED <<spec, step, cursor, passed>>

(* Mutant of SkipDraw: an empty draw counts as a case that was skipped.    *)
SkipDrawOfNothing ==
  /\ step = "skip draws"
  /\ skip > 0
  /\ \E d \in Draws : Draw(d)
  /\ skip' = skip - 1
  /\ UNCHANGED cases

(* Only cases that are not empty count.                                    *)
SkipDraw ==
  /\ step = "skip draws"
  /\ skip > 0
  /\ \E d \in Draws :
       /\ Draw(d)
       /\ skip' = IF d = <<>> THEN skip ELSE skip - 1
  /\ UNCHANGED cases

EndSkipDraws ==
  /\ step = "skip draws"
  /\ skip = 0 \/ left = 0
  /\ step' = "take draws"
  /\ UNCHANGED <<spec, cursor, skip, passed, left, cases, stream, drawn>>

TakeDraw ==
  /\ step = "take draws"
  /\ Short
  /\ \E d \in Draws :
       /\ Draw(d)
       /\ cases' = IF d = <<>> THEN cases ELSE Append(cases, d)
  /\ UNCHANGED skip

EndTakeDraws ==
  /\ step = "take draws"
  /\ ~Short \/ left = 0
  /\ step' = "done"
  /\ UNCHANGED <<spec, cursor, skip, passed, left, cases, stream, drawn>>

RecipeNext ==
  \/ Check
  \/ SkipDescriptor \/ EndSkip \/ TakeDescriptor \/ EndTake
  \/ SkipDraw \/ EndSkipDraws \/ TakeDraw \/ EndTakeDraws

-----------------------------------------------------------------------------
(* Correctness.                                                            *)

(* The whole enumeration, as far as its stream is known.                   *)
Upto[t \in 0..Len(spec.targets)] == IF t = 0 THEN <<>> ELSE Upto[t - 1] \o Items(t)
Deterministic == Upto[Len(spec.targets)]
Enumeration == Deterministic \o stream

(* A window of the enumeration, however it was reached, holds the cases    *)
(* that the enumeration from its beginning has at those places: skipping   *)
(* advances DeterministicCases and CombinationStream exactly as building   *)
(* does.  It is short only when there are no combinations or the draws     *)
(* that the enumeration from its beginning is given are used up.           *)
WindowMatches ==
  LET whole == spec.offset + spec.samples
  IN  step = "done" =>
        /\ cases = SubSeq(Enumeration, spec.offset + 1, AtMost(whole, Len(Enumeration)))
        /\ Len(cases) < spec.samples =>
             spec.mutations = 0 \/ drawn = whole - Len(Deterministic)
=============================================================================
