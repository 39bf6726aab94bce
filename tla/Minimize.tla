------------------------------- MODULE Minimize -------------------------------
(***************************************************************************)
(* Minimizing a case of a recipe:                                          *)
(*   erofs-lab/src/campaign.rs, minimize_case, preserves_signature and     *)
(*   shrink_intent.                                                        *)
(*                                                                         *)
(* The case is judged; then its intents are dropped one by one, then their *)
(* values shrunk, each time keeping what the oracle confirms.  The oracle  *)
(* is steady or it wavers: a steady one shows the signature exactly when   *)
(* certain fields are written with certain least values, a wavering one    *)
(* answers as it likes.  The cases of a recipe hold values and single bits *)
(* only, so that only values shrink.                                       *)
(***************************************************************************)
EXTENDS Recipe

CONSTANTS
  Confirmations,   \* the confirmations that may be asked for
  Needs            \* the values that a steady oracle may need

ASSUME MinimizeAssumption == Confirmations \subseteq Nat /\ Needs \subseteq Nat

VARIABLES
  phase,     \* what minimize_case is doing, or how it ended
  source,    \* the case to be minimized
  oracle,    \* what shows the signature
  confirms,  \* the runs that must show it
  current,   \* the smallest intents so far
  index,     \* the intent being dropped or shrunk
  todo,      \* the shrunk forms of that intent still to be tried
  trial,     \* the intents being judged
  runs,      \* runs the trial still has to pass, 0 if none is judged
  attempts,  \* oracle runs so far
  shown,     \* history: runs of this trial that showed the signature
  proof      \* history: what was last accepted, after how many such runs

minimizeVars ==
  <<phase, source, oracle, confirms, current, index, todo, trial, runs, attempts,
    shown, proof>>
vars == <<recipeVars, minimizeVars>>

Working == {"source", "drop", "shrink"}
MinConfirms == 2

MinimizeInit ==
  /\ phase = "idle"
  /\ source = <<>>
  /\ oracle = [kind |-> "none"]
  /\ confirms = 0
  /\ current = <<>>
  /\ index = 0
  /\ todo = <<>>
  /\ trial = <<>>
  /\ runs = 0
  /\ attempts = 0
  /\ shown = 0
  /\ proof = [of |-> <<>>, shown |-> 0]

-----------------------------------------------------------------------------
(* The oracle.                                                             *)

Value(intents, t) ==
  LET i == CHOOSE j \in DOMAIN intents : intents[j].target = t
  IN  intents[i].value
Written(intents) == {intents[i].target : i \in DOMAIN intents}

(* A steady oracle needs fields of the case to be written with at least    *)
(* some value, perhaps one that the case does not reach.                   *)
Oracles(intents) ==
  {[kind |-> "wavering"]} \cup
  {[kind |-> "steady", need |-> need] :
     need \in UNION {{f \in [T -> Needs] : \A t \in T : f[t] <= Value(intents, t) + 1} :
                     T \in SUBSET Written(intents)}}

Shows(intents) ==
  \A t \in DOMAIN oracle.need :
    t \in Written(intents) /\ Value(intents, t) >= oracle.need[t]

Answers == IF oracle.kind = "wavering" THEN BOOLEAN ELSE {Shows(trial)}

-----------------------------------------------------------------------------
(* preserves_signature                                                     *)

Try(intents) ==
  /\ trial' = intents
  /\ runs' = confirms
  /\ shown' = 0

Judged == runs = 0

RunShows ==
  /\ runs > 1
  /\ TRUE \in Answers
  /\ runs' = runs - 1
  /\ attempts' = attempts + 1
  /\ shown' = shown + 1
  /\ UNCHANGED <<recipeVars, phase, source, oracle, confirms, current, index, todo,
                 trial, proof>>

(* Mutant of Accept: the next intent is skipped after a drop.              *)
AcceptAndAdvance ==
  /\ runs = 1
  /\ TRUE \in Answers
  /\ runs' = 0
  /\ attempts' = attempts + 1
  /\ shown' = shown + 1
  /\ proof' = [of |-> trial, shown |-> shown + 1]
  /\ current' = trial
  /\ phase' = IF phase = "source" THEN "drop" ELSE phase
  /\ index' = IF phase = "drop" THEN index + 1 ELSE index
  /\ UNCHANGED <<recipeVars, source, oracle, confirms, todo, trial>>

(* The last run shows it too: the trial is what is left of the case.       *)
Accept ==
  /\ runs = 1
  /\ TRUE \in Answers
  /\ runs' = 0
  /\ attempts' = attempts + 1
  /\ shown' = shown + 1
  /\ proof' = [of |-> trial, shown |-> shown + 1]
  /\ current' = trial
  /\ phase' = IF phase = "source" THEN "drop" ELSE phase
  /\ UNCHANGED <<recipeVars, source, oracle, confirms, index, todo, trial>>

(* Mutant of RunFails: a run that does not show it is let pass.            *)
RunFailsLast ==
  /\ runs > 0
  /\ FALSE \in Answers
  /\ runs' = runs - 1
  /\ attempts' = attempts + 1
  /\ phase' = IF runs = 1 /\ phase = "source" THEN "failed" ELSE phase
  /\ index' = IF runs = 1 /\ phase = "drop" THEN index + 1 ELSE index
  /\ UNCHANGED <<recipeVars, source, oracle, confirms, current, todo, trial, shown,
                 proof>>

Reject ==
  /\ runs' = 0
  /\ phase' = IF phase = "source" THEN "failed" ELSE phase
  /\ index' = IF phase = "drop" THEN index + 1 ELSE index
  /\ UNCHANGED <<recipeVars, source, oracle, confirms, current, todo, trial, shown,
                 proof>>

RunFails ==
  /\ runs > 0
  /\ FALSE \in Answers
  /\ attempts' = attempts + 1
  /\ Reject

(* Intents that do not plan show nothing.                                  *)
PlanFails ==
  /\ runs = confirms
  /\ phase \in Working
  /\ FALSE \in Answers
  /\ UNCHANGED attempts
  /\ Reject

-----------------------------------------------------------------------------
(* minimize_case                                                           *)

(* The recipe, which verify_recipe rebuilds, is not looked at again.       *)
Start ==
  /\ phase = "idle"
  /\ step = "done"
  /\ \E i \in DOMAIN cases, c \in Confirmations :
       /\ source' = cases[i]
       /\ current' = cases[i]
       /\ oracle' \in Oracles(cases[i])
       /\ confirms' = IF c > MinConfirms THEN c ELSE MinConfirms
       /\ trial' = cases[i]
  /\ runs' = confirms'
  /\ phase' = "source"
  /\ index' = 1
  /\ step' = "read"
  /\ cases' = <<>>
  /\ stream' = <<>>
  /\ drawn' = 0
  /\ UNCHANGED <<spec, cursor, skip, passed, left, todo, attempts, shown, proof>>

WithoutAt(intents, i) == SubSeq(intents, 1, i - 1) \o SubSeq(intents, i + 1, Len(intents))

Dropping == phase = "drop" /\ Judged
Shrinking == phase = "shrink" /\ Judged

TryDrop ==
  /\ Dropping
  /\ index <= Len(current)
  /\ Len(current) > 1
  /\ Try(WithoutAt(current, index))
  /\ UNCHANGED <<recipeVars, phase, source, oracle, confirms, current, index, todo,
                 attempts, proof>>

(* Mutant of KeepLast: the only intent is considered for ever.             *)
KeepLastForever ==
  /\ Dropping
  /\ index <= Len(current)
  /\ Len(current) = 1
  /\ UNCHANGED vars

KeepLast ==
  /\ Dropping
  /\ index <= Len(current)
  /\ Len(current) = 1
  /\ index' = index + 1
  /\ UNCHANGED <<recipeVars, phase, source, oracle, confirms, current, todo, trial,
                 runs, attempts, shown, proof>>

EndDrops ==
  /\ Dropping
  /\ index > Len(current)
  /\ phase' = "shrink"
  /\ index' = 0
  /\ UNCHANGED <<recipeVars, source, oracle, confirms, current, todo, trial, runs,
                 attempts, shown, proof>>

(* shrink_intent                                                           *)
Shrinks(intent) ==
  LET if_smaller(v) == IF v < intent.value THEN <<[intent EXCEPT !.value = v]>> ELSE <<>>
  IN  IF intent.kind = "set"
      THEN if_smaller(0) \o if_smaller(1) \o if_smaller(intent.value \div 2)
      ELSE <<>>

NextShrink ==
  /\ Shrinking
  /\ todo = <<>>
  /\ index < Len(current)
  /\ index' = index + 1
  /\ todo' = Shrinks(current[index'])
  /\ UNCHANGED <<recipeVars, phase, source, oracle, confirms, current, trial, runs,
                 attempts, shown, proof>>

TryShrink ==
  /\ Shrinking
  /\ todo # <<>>
  /\ Try([current EXCEPT ![index] = Head(todo)])
  /\ todo' = Tail(todo)
  /\ UNCHANGED <<recipeVars, phase, source, oracle, confirms, current, index,
                 attempts, proof>>

Finish ==
  /\ Shrinking
  /\ todo = <<>>
  /\ index = Len(current)
  /\ phase' = "done"
  /\ UNCHANGED <<recipeVars, source, oracle, confirms, current, index, todo, trial,
                 runs, attempts, shown, proof>>

(* An error of the corpus or of the oracle, returned with `?'.             *)
Fail ==
  /\ phase \in Working
  /\ phase' = "failed"
  /\ UNCHANGED <<recipeVars, source, oracle, confirms, current, index, todo, trial,
                 runs, attempts, shown, proof>>

Judge == RunShows \/ Accept \/ RunFails \/ PlanFails
Reduce == TryDrop \/ KeepLast \/ EndDrops \/ NextShrink \/ TryShrink \/ Finish

Minimizing == phase \in Working /\ (Judge \/ Reduce)

Generating == RecipeNext /\ UNCHANGED minimizeVars

Ended ==
  \/ phase \in {"done", "failed"}
  \/ step = "rejected"
  \/ step = "done" /\ cases = <<>>

Terminated == Ended /\ UNCHANGED vars

Init == RecipeInit /\ MinimizeInit
Next == Generating \/ Start \/ Minimizing \/ Fail \/ Terminated

Fairness == WF_vars(Generating) /\ WF_vars(Start) /\ WF_vars(Minimizing)
Spec == Init /\ [][Next]_vars /\ Fairness

-----------------------------------------------------------------------------
(* Correctness.                                                            *)

(* What minimize_case writes was itself confirmed in full: the very intents*)
(* of the result were run `confirms' times in a row, twice at least, and   *)
(* every run showed the signature, whatever the oracle answered elsewhere. *)
ResultIsConfirmed ==
  phase = "done" =>
    /\ proof.of = current
    /\ proof.shown = confirms
    /\ confirms >= 2

(* What is left of an intent: itself or what shrink_intent makes of it.    *)
Reduced(intent) == {intent} \cup {Shrinks(intent)[j] : j \in DOMAIN Shrinks(intent)}

(* The result is made of intents of the case, in their order, with their   *)
(* values or the values that shrink_intent makes of them.  If the oracle   *)
(* is steady none of them can be left out: the one pass over the intents,  *)
(* which stays at an index after a drop, is enough.                        *)
ResultIsReduced ==
  phase = "done" =>
    /\ \E f \in [DOMAIN current -> DOMAIN source] :
         /\ \A i, j \in DOMAIN current : i < j => f[i] < f[j]
         /\ \A i \in DOMAIN current : current[i] \in Reduced(source[f[i]])
    /\ oracle.kind = "steady" /\ Len(current) > 1 =>
         \A i \in DOMAIN current : ~Shows(WithoutAt(current, i))

(* Generating a recipe and minimizing a case come to an end, whatever is   *)
(* drawn and whatever the oracle answers.                                  *)
EveryRunEnds == <>Ended
=============================================================================
