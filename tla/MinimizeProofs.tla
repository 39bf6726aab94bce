---------------------------- MODULE MinimizeProofs ----------------------------
(***************************************************************************)
(* What minimize_case writes was confirmed in full: for every recipe, any  *)
(* number of intents and of confirmations, and every oracle.  The recipe   *)
(* before it is the window of the enumeration that was asked for: for any  *)
(* targets, any offset and whatever is drawn.  And the result is reduced:  *)
(* its intents are the case's, shrunk, and a steady oracle needs them all. *)
(***************************************************************************)
EXTENDS Minimize, FiniteSetTheorems, SequenceTheorems, WellFoundedInduction, TLAPS

Begun == Working \cup {"done"}

(* The runs still to be passed and those that were passed make up the      *)
(* confirmations.                                                          *)
Counted ==
  /\ runs \in Nat
  /\ shown \in Nat
  /\ (phase \in Working /\ runs > 0) => runs + shown = confirms

(* Once the source was accepted, what is left of it is what was last       *)
(* accepted.                                                               *)
Proved ==
  phase \in {"drop", "shrink", "done"} =>
    /\ proof.of = current
    /\ proof.shown = confirms

ConfirmInv ==
  /\ phase \in Begun \cup {"idle", "failed"}
  /\ phase \in Begun => confirms \in Nat /\ confirms >= MinConfirms
  /\ Counted
  /\ Proved

LEMMA ConfirmInit == Init => ConfirmInv
  BY DEF Init, MinimizeInit, ConfirmInv, Begun, Working, Counted, Proved

(* A step of a judgement: only the last run of a trial that showed the     *)
(* signature in all the others makes it the current intents.               *)
LEMMA JudgeKeeps ==
  ASSUME ConfirmInv, phase \in Working, Judge
  PROVE  ConfirmInv'
<1> USE DEF ConfirmInv, Begun, Working, Counted, Proved, MinConfirms
<1>1. CASE RunShows
  BY <1>1 DEF RunShows
<1>2. CASE Accept
  <2>1. shown + 1 = confirms
    BY <1>2 DEF Accept
  <2>2. proof'.of = current' /\ proof'.shown = confirms'
    BY <1>2, <2>1 DEF Accept
  <2>3. phase' \in {"drop", "shrink"}
    BY <1>2 DEF Accept
  <2> QED
    BY <1>2, <2>2, <2>3 DEF Accept
<1>3. CASE RunFails
  BY <1>3 DEF RunFails, Reject
<1>4. CASE PlanFails
  BY <1>4 DEF PlanFails, Reject
<1> QED
  BY <1>1, <1>2, <1>3, <1>4 DEF Judge

(* A step between judgements.                                              *)
LEMMA ReduceKeeps ==
  ASSUME ConfirmInv, phase \in Working, Reduce
  PROVE  ConfirmInv'
<1> USE DEF ConfirmInv, Begun, Working, Counted, Proved, MinConfirms, Dropping,
            Shrinking, Judged
<1>1. CASE TryDrop
  BY <1>1 DEF TryDrop, Try
<1>2. CASE KeepLast
  BY <1>2 DEF KeepLast
<1>3. CASE EndDrops
  BY <1>3 DEF EndDrops
<1>4. CASE NextShrink
  BY <1>4 DEF NextShrink
<1>5. CASE TryShrink
  BY <1>5 DEF TryShrink, Try
<1>6. CASE Finish
  BY <1>6 DEF Finish
<1> QED
  BY <1>1, <1>2, <1>3, <1>4, <1>5, <1>6 DEF Reduce

(* The first judgement begins with nothing shown and at least two runs.    *)
LEMMA StartKeeps ==
  ASSUME ConfirmInv, shown = 0, Start
  PROVE  ConfirmInv'
<1>1. confirms' \in Nat /\ confirms' >= 2
  BY MinimizeAssumption DEF Start, MinConfirms, MinimizeAssumption
<1>2. /\ runs' = confirms'
      /\ shown' = 0
      /\ phase' = "source"
  BY DEF Start
<1>3. Counted'
  <2>1. runs' \in Nat /\ shown' \in Nat
    BY <1>1, <1>2
  <2>2. \A n \in Nat : n + 0 = n
    OBVIOUS
  <2>3. runs' + shown' = confirms'
    BY <1>1, <1>2, <2>2
  <2> QED
    BY <2>1, <2>3 DEF Counted
<1>4. Proved'
  BY <1>2 DEF Proved
<1> QED
  BY <1>1, <1>2, <1>3, <1>4 DEF ConfirmInv, Begun, Working, MinConfirms

(* Nothing is shown before the first judgement.                            *)
Fresh == phase = "idle" => shown = 0

LEMMA FreshStep ==
  ASSUME ConfirmInv, Fresh, [Next]_vars
  PROVE  Fresh'
<1> USE DEF Fresh
<1>1. CASE Generating
  BY <1>1 DEF Generating, minimizeVars
<1>2. CASE Start
  BY <1>2 DEF Start
<1>3. CASE Minimizing
  <2>1. phase' # "idle"
    BY <1>3 DEF Minimizing, Working, Judge, Reduce, RunShows, Accept, RunFails,
       PlanFails, Reject, TryDrop, KeepLast, EndDrops, NextShrink, TryShrink, Finish,
       Dropping, Shrinking
  <2> QED
    BY <2>1
<1>4. CASE Fail
  BY <1>4 DEF Fail
<1>5. CASE UNCHANGED vars
  BY <1>5 DEF vars, minimizeVars
<1> QED
  BY <1>1, <1>2, <1>3, <1>4, <1>5 DEF Next, Terminated

LEMMA ConfirmStep ==
  ASSUME ConfirmInv, Fresh, [Next]_vars
  PROVE  ConfirmInv'
<1>1. CASE Generating
  BY <1>1 DEF Generating, minimizeVars, ConfirmInv, Begun, Working, Counted, Proved
<1>2. CASE Start
  <2>1. shown = 0
    BY <1>2 DEF Fresh, Start
  <2> QED
    BY <1>2, <2>1, StartKeeps
<1>3. CASE Minimizing
  BY <1>3, JudgeKeeps, ReduceKeeps DEF Minimizing
<1>4. CASE Fail
  BY <1>4 DEF Fail, ConfirmInv, Begun, Working, Counted, Proved
<1>5. CASE UNCHANGED vars
  BY <1>5 DEF vars, minimizeVars, ConfirmInv, Begun, Working, Counted, Proved
<1> QED
  BY <1>1, <1>2, <1>3, <1>4, <1>5 DEF Next, Terminated

(* The invariant of the confirmations, which is inductive.                 *)
THEOREM ConfirmCorrect == Spec => [](ConfirmInv /\ Fresh)
<1>1. Init => ConfirmInv /\ Fresh
  BY ConfirmInit DEF Init, MinimizeInit, Fresh
<1>2. ConfirmInv /\ Fresh /\ [Next]_vars => (ConfirmInv /\ Fresh)'
  BY ConfirmStep, FreshStep
<1> QED
  BY <1>1, <1>2, PTL DEF Spec

(* Whatever the oracle answers, the intents that minimize_case writes were *)
(* themselves run `confirms' times in a row, and showed the signature each *)
(* time.                                                                   *)
THEOREM ResultConfirmed == Spec => []ResultIsConfirmed
<1>1. ConfirmInv => ResultIsConfirmed
  BY DEF ConfirmInv, Begun, Proved, ResultIsConfirmed, MinConfirms
<1> QED
  BY <1>1, ConfirmCorrect, PTL

-----------------------------------------------------------------------------
(* What the numbers are made of: a least one, and induction from it.       *)

LEMMA LeastNumber ==
  ASSUME NEW T \in SUBSET Nat, T # {}
  PROVE  \E x \in T : \A y \in T : x <= y
<1> DEFINE R == OpToRel(<, Nat)
<1>1. IsWellFoundedOn(R, Nat)
  BY NatLessThanWellFounded
<1>2. ASSUME NEW x \in T, NEW y \in T, ~ (<<y, x>> \in R) PROVE x <= y
  <2>1. ~ (y < x)
    BY <1>2 DEF OpToRel
  <2>2. QED
    BY <2>1
<1> HIDE DEF R
<1>3. \E x \in T : \A y \in T : ~ (<<y, x>> \in R)
  BY <1>1, WFMin
<1>4. QED
  BY <1>2, <1>3

(* Induction over an interval, for a set in place of a predicate.          *)
LEMMA Induction ==
  ASSUME NEW S, NEW a \in Int, NEW b \in Int, a >= 0, a \in S,
         \A n \in (a + 1)..b : n - 1 \in S => n \in S
  PROVE  \A n \in a..b : n \in S
<1> DEFINE Bad == (a..b) \ S
<1>1. ASSUME Bad # {} PROVE FALSE
  <2>1. Bad \in SUBSET Nat
    OBVIOUS
  <2>2. PICK n \in Bad : \A m \in Bad : n <= m
    BY <1>1, <2>1, LeastNumber, Zenon
  <2>3. n \in (a + 1)..b /\ n - 1 \in a..b /\ ~(n <= n - 1)
    <3>1. n \in a..b /\ n # a
      OBVIOUS
    <3> QED
      BY <3>1
  <2>4. n - 1 \in S
    BY <2>2, <2>3
  <2> QED
    BY <2>3, <2>4
<1> QED
  BY <1>1

LEMMA UptoExists ==
  ASSUME NEW N \in Nat
  PROVE  \E f : f = [t \in 0..N |-> IF t = 0 THEN <<>> ELSE f[t - 1] \o Items(t)]
<1> DEFINE Good(n, f) == f = [t \in 0..n |-> IF t = 0 THEN <<>> ELSE f[t - 1] \o Items(t)]
           S == {n \in Nat : \E f : Good(n, f)}
<1>1. 0 \in S
  <2> DEFINE g == [t \in 0..0 |-> <<>>]
  <2>1. Good(0, g)
    OBVIOUS
  <2> QED
    BY <2>1
<1>2. ASSUME NEW n \in (0 + 1)..N, n - 1 \in S
      PROVE  n \in S
  <2>1. n \in Nat /\ n # 0 /\ n - 1 \in Nat
    OBVIOUS
  <2>2. PICK f : Good(n - 1, f)
    BY <1>2
  <2> DEFINE g == [t \in 0..n |-> IF t = n THEN f[n - 1] \o Items(n) ELSE f[t]]
  <2>3. \A t \in 0..(n - 1) : g[t] = f[t]
    BY <2>1
  <2>4. ASSUME NEW t \in 0..n
        PROVE  g[t] = IF t = 0 THEN <<>> ELSE g[t - 1] \o Items(t)
    <3>1. CASE t = n
      <4>1. n - 1 \in 0..(n - 1)
        BY <2>1
      <4> QED
        BY <2>1, <2>3, <3>1, <4>1
    <3>2. CASE t # n
      <4>1. t \in 0..(n - 1) /\ (t # 0 => t - 1 \in 0..(n - 1))
        BY <2>1, <3>2
      <4>2. f[t] = IF t = 0 THEN <<>> ELSE f[t - 1] \o Items(t)
        BY <2>2, <4>1
      <4> QED
        BY <2>3, <4>1, <4>2
    <3> QED
      BY <3>1, <3>2
  <2>5. Good(n, g)
    BY <2>4
  <2> QED
    BY <2>1, <2>5
<1> HIDE DEF S
<1>3. \A n \in 0..N : n \in S
  BY <1>1, <1>2, Induction
<1>4. N \in S
  BY <1>3
<1> QED
  BY <1>4 DEF S

LEMMA UptoIs ==
  ASSUME Len(spec.targets) \in Nat
  PROVE  Upto = [t \in 0..Len(spec.targets) |-> IF t = 0 THEN <<>> ELSE Upto[t - 1] \o Items(t)]
<1>1. \E f : f = [t \in 0..Len(spec.targets) |-> IF t = 0 THEN <<>> ELSE f[t - 1] \o Items(t)]
  BY UptoExists
<1> QED
  BY <1>1 DEF Upto

-----------------------------------------------------------------------------
(* The deterministic part of the enumeration.                              *)

AllItems == UNION {{Items(t)[i] : i \in DOMAIN Items(t)} : t \in Targets}

LEMMA SpecType ==
  ASSUME spec \in Specs
  PROVE  /\ spec.targets \in Seq(Nat) /\ Len(spec.targets) \in Nat
         /\ spec.offset \in Nat /\ spec.samples \in Nat /\ spec.mutations \in Nat
<1>1. spec \in [targets : Seq(Nat), offset : Nat, samples : Nat, mutations : Nat]
  BY RecipeAssumption DEF RecipeAssumption
<1> QED
  BY <1>1

LEMMA ItemsType ==
  ASSUME spec \in Specs, NEW t \in Targets
  PROVE  Items(t) \in Seq(AllItems) /\ Len(Items(t)) \in Nat
<1>1. spec.targets[t] \in Nat
  BY SpecType DEF Targets
<1>2. \E n \in Nat : DOMAIN Items(t) = 1..n /\ Items(t) = [i \in 1..n |-> Items(t)[i]]
  <2> DEFINE bits == spec.targets[t]
             values == Boundaries(bits)
  <2>1. Len(values) \in Nat
    BY DEF Boundaries
  <2>2. CASE bits = 0
    <3>1. Items(t) = <<>>
      BY <2>2 DEF Items
    <3> QED
      BY <3>1
  <2>3. CASE bits # 0
    <3> DEFINE n == Len(values) + bits
    <3>1. n \in Nat
      BY <1>1, <2>1
    <3>2. Items(t) = [i \in 1..n |-> IF i <= Len(values) THEN <<Set(t, values[i])>>
                                     ELSE <<Bit(t, i - Len(values) - 1)>>]
      BY <2>3 DEF Items
    <3> HIDE DEF n, values
    <3>3. DOMAIN Items(t) = 1..n /\ Items(t) = [i \in 1..n |-> Items(t)[i]]
      BY <3>2
    <3> QED
      BY <3>1, <3>3
  <2> QED
    BY <2>2, <2>3
<1>3. PICK n \in Nat : DOMAIN Items(t) = 1..n /\ Items(t) = [i \in 1..n |-> Items(t)[i]]
  BY <1>2
<1>4. \A i \in 1..n : Items(t)[i] \in AllItems
  BY <1>3 DEF AllItems
<1>5. Items(t) \in [1..n -> AllItems]
  BY <1>3, <1>4
<1> QED
  BY <1>5

(* What the recursion says of a target.                                    *)
LEMMA UptoStep ==
  ASSUME spec \in Specs
  PROVE  /\ Upto[0] = <<>>
         /\ \A t \in Targets : Upto[t] = Upto[t - 1] \o Items(t)
<1>1. Len(spec.targets) \in Nat
  BY SpecType
<1>2. Upto = [t \in 0..Len(spec.targets) |-> IF t = 0 THEN <<>> ELSE Upto[t - 1] \o Items(t)]
  BY <1>1, UptoIs
<1>3. \A t \in 0..Len(spec.targets) : Upto[t] = IF t = 0 THEN <<>> ELSE Upto[t - 1] \o Items(t)
  BY <1>2
<1>4. Upto[0] = <<>>
  BY <1>1, <1>3
<1>5. ASSUME NEW t \in Targets
      PROVE  Upto[t] = Upto[t - 1] \o Items(t)
  <2>1. t \in 0..Len(spec.targets) /\ t # 0
    BY <1>1 DEF Targets
  <2> QED
    BY <1>3, <2>1
<1> QED
  BY <1>4, <1>5

LEMMA UptoType ==
  ASSUME spec \in Specs, NEW t \in 0..Len(spec.targets)
  PROVE  Upto[t] \in Seq(AllItems) /\ Len(Upto[t]) \in Nat
<1>1. Len(spec.targets) \in Nat
  BY SpecType
<1> DEFINE S == {u \in 0..Len(spec.targets) : Upto[u] \in Seq(AllItems)}
<1>2. 0 \in S
  <2>1. Upto[0] = <<>>
    BY UptoStep, Zenon
  <2>2. <<>> \in Seq(AllItems)
    OBVIOUS
  <2>3. Upto[0] \in Seq(AllItems)
    BY <2>1, <2>2, Zenon
  <2>4. 0 \in 0..Len(spec.targets)
    BY <1>1
  <2> QED
    BY <2>3, <2>4, Zenon
<1>3. ASSUME NEW u \in (0 + 1)..Len(spec.targets), u - 1 \in S
      PROVE  u \in S
  <2>1. u \in Targets /\ u \in 0..Len(spec.targets)
    BY <1>1 DEF Targets
  <2>2. Upto[u - 1] \in Seq(AllItems) /\ Items(u) \in Seq(AllItems)
    BY <1>3, <2>1, ItemsType
  <2>3. Upto[u] = Upto[u - 1] \o Items(u)
    BY <2>1, UptoStep
  <2>4. Upto[u] \in Seq(AllItems)
    BY <2>2, <2>3
  <2> QED
    BY <2>1, <2>4
<1> HIDE DEF S
<1>4. \A u \in 0..Len(spec.targets) : u \in S
  <2>1. 0 \in Int /\ 0 >= 0 /\ Len(spec.targets) \in Int
    BY <1>1
  <2> QED
    BY <1>2, <1>3, <2>1, Induction
<1>5. t \in S
  BY <1>4
<1> QED
  BY <1>5 DEF S

(* The items of some targets come first among those of more targets.       *)
LEMMA UptoGrows ==
  ASSUME spec \in Specs, NEW t \in 0..Len(spec.targets), NEW w \in 0..Len(spec.targets), t <= w
  PROVE  /\ Len(Upto[t]) <= Len(Upto[w])
         /\ \A i \in 1..Len(Upto[t]) : Upto[w][i] = Upto[t][i]
<1>1. Len(spec.targets) \in Nat
  BY SpecType
<1> DEFINE S == {u \in t..Len(spec.targets) :
                   /\ Len(Upto[t]) <= Len(Upto[u])
                   /\ \A i \in 1..Len(Upto[t]) : Upto[u][i] = Upto[t][i]}
<1>2. t \in S
  BY <1>1, UptoType
<1>3. ASSUME NEW u \in (t + 1)..Len(spec.targets), u - 1 \in S
      PROVE  u \in S
  <2>1. u \in Targets /\ u - 1 \in 0..Len(spec.targets) /\ u \in t..Len(spec.targets)
    BY <1>1 DEF Targets
  <2>2. Upto[u - 1] \in Seq(AllItems) /\ Items(u) \in Seq(AllItems) /\ Upto[t] \in Seq(AllItems)
    BY <2>1, ItemsType, UptoType
  <2>3. Upto[u] = Upto[u - 1] \o Items(u)
    BY <2>1, UptoStep
  <2>4. /\ Len(Upto[u]) >= Len(Upto[u - 1])
        /\ \A i \in 1..Len(Upto[u - 1]) : Upto[u][i] = Upto[u - 1][i]
    BY <2>2, <2>3
  <2>5. Len(Upto[t]) \in Nat /\ Len(Upto[u - 1]) \in Nat /\ Len(Upto[u]) \in Nat
    BY <2>2, <2>3
  <2>6. /\ Len(Upto[t]) <= Len(Upto[u - 1])
        /\ \A i \in 1..Len(Upto[t]) : Upto[u - 1][i] = Upto[t][i]
    BY <1>3
  <2>7. /\ Len(Upto[t]) <= Len(Upto[u])
        /\ \A i \in 1..Len(Upto[t]) : Upto[u][i] = Upto[t][i]
    BY <2>4, <2>5, <2>6
  <2> QED
    BY <2>1, <2>7
<1> HIDE DEF S
<1>4. t \in Int /\ t >= 0 /\ w \in Int /\ Len(spec.targets) \in Int
  BY <1>1
<1>5. \A u \in t..Len(spec.targets) : u \in S
  BY <1>2, <1>3, <1>4, Induction
<1>6. w \in S
  BY <1>1, <1>5
<1> QED
  BY <1>6 DEF S

(* Targets without items add none.                                         *)
LEMMA UptoRests ==
  ASSUME spec \in Specs, NEW t \in 0..Len(spec.targets), NEW w \in 0..Len(spec.targets), t <= w,
         \A u \in (t + 1)..w : Len(Items(u)) = 0
  PROVE  Len(Upto[w]) = Len(Upto[t])
<1>1. Len(spec.targets) \in Nat
  BY SpecType
<1> DEFINE S == {u \in t..w : Len(Upto[u]) = Len(Upto[t])}
<1>2. t \in S
  BY <1>1
<1>3. ASSUME NEW u \in (t + 1)..w, u - 1 \in S
      PROVE  u \in S
  <2>1. u \in Targets /\ u - 1 \in 0..Len(spec.targets) /\ u \in t..w
    BY <1>1 DEF Targets
  <2>2. Upto[u - 1] \in Seq(AllItems) /\ Items(u) \in Seq(AllItems)
    BY <2>1, ItemsType, UptoType
  <2>3. Upto[u] = Upto[u - 1] \o Items(u)
    BY <2>1, UptoStep
  <2>4. Len(Upto[u]) = Len(Upto[u - 1])
    BY <2>2, <2>3
  <2> QED
    BY <1>3, <2>1, <2>4
<1> HIDE DEF S
<1>4. t \in Int /\ t >= 0 /\ w \in Int /\ Len(spec.targets) \in Int
  BY <1>1
<1>5. \A u \in t..w : u \in S
  BY <1>2, <1>3, <1>4, Induction
<1>6. w \in S
  BY <1>1, <1>5
<1> QED
  BY <1>6 DEF S

(* The cursor is where the enumeration was advanced to.                    *)
Positioned ==
  /\ cursor.target \in Targets
  /\ cursor.item \in 0..Len(Items(cursor.target))
  /\ passed = Len(Upto[cursor.target - 1]) + cursor.item

LEMMA LeastIs ==
  ASSUME NEW S \in SUBSET Nat, S # {}
  PROVE  Least(S) \in S /\ \A x \in S : Least(S) <= x
<1>1. \E x \in S : \A y \in S : x <= y
  BY LeastNumber
<1> QED
  BY <1>1 DEF Least

(* Next comes the first item ahead, if there is one.                       *)
LEMMA NextItem ==
  ASSUME spec \in Specs, Positioned, Ahead # {}
  PROVE  /\ Least(Ahead) \in Targets
         /\ Behind(Least(Ahead)) \in 0..(Len(Items(Least(Ahead))) - 1)
         /\ passed = Len(Upto[Least(Ahead) - 1]) + Behind(Least(Ahead))
         /\ passed \in 0..(Len(Deterministic) - 1)
         /\ Descriptor = Deterministic[passed + 1]
<1> DEFINE N == Len(spec.targets)
           t == Least(Ahead)
           c == cursor.target
<1>1. N \in Nat /\ Ahead \in SUBSET Nat
  BY SpecType DEF Ahead, Targets
<1>2. /\ t \in Targets /\ t \in Nat /\ t >= c /\ Behind(t) < Len(Items(t))
      /\ \A u \in Ahead : t <= u
  BY <1>1, LeastIs DEF Ahead
<1> HIDE DEF t
<1>3. c \in Targets /\ c \in 1..N /\ t \in 1..N /\ cursor.item \in Nat
  BY <1>2 DEF Positioned, Targets
<1>4. Behind(t) \in Nat
  BY <1>3 DEF Behind
<1>5. /\ Len(Items(t)) \in Nat /\ Len(Items(c)) \in Nat /\ Items(t) \in Seq(AllItems)
      /\ Items(c) \in Seq(AllItems)
  BY <1>2, <1>3, ItemsType
<1>6. ASSUME NEW u \in c..(t - 1)
      PROVE  Behind(u) >= Len(Items(u)) /\ u \in Targets /\ Len(Items(u)) \in Nat
  <2>1. u \in Targets /\ u >= c /\ u < t
    BY <1>1, <1>3 DEF Targets
  <2>2. Len(Items(u)) \in Nat /\ Behind(u) \in Nat
    BY <1>3, <2>1, ItemsType DEF Behind
  <2> QED
    BY <1>2, <2>1, <2>2 DEF Ahead
<1>7. passed = Len(Upto[t - 1]) + Behind(t)
  <2>1. CASE t = c
    BY <2>1 DEF Positioned, Behind
  <2>2. CASE t # c
    <3>1. c <= t - 1 /\ c \in c..(t - 1) /\ c \in 0..N /\ t - 1 \in 0..N /\ c - 1 \in 0..N
      BY <1>1, <1>2, <1>3, <2>2
    <3>2. cursor.item = Len(Items(c))
      <4>1. Behind(c) >= Len(Items(c))
        BY <1>6, <3>1
      <4> QED
        BY <4>1, <1>3, <1>5 DEF Behind, Positioned
    <3>3. Len(Upto[c]) = Len(Upto[c - 1]) + Len(Items(c))
      <4>1. Upto[c - 1] \in Seq(AllItems)
        BY <3>1, UptoType
      <4>2. Upto[c] = Upto[c - 1] \o Items(c)
        BY <1>3, UptoStep
      <4> QED
        BY <1>5, <4>1, <4>2
    <3>4. \A u \in (c + 1)..(t - 1) : Len(Items(u)) = 0
      <4> TAKE u \in (c + 1)..(t - 1)
      <4>1. u \in c..(t - 1) /\ u # c
        BY <1>1, <1>3
      <4>2. Behind(u) = 0
        BY <4>1 DEF Behind
      <4> QED
        BY <1>6, <4>1, <4>2
    <3>5. Len(Upto[t - 1]) = Len(Upto[c])
      BY <3>1, <3>4, UptoRests
    <3>6. Behind(t) = 0
      BY <2>2 DEF Behind
    <3>7. Len(Upto[c]) \in Nat
      BY <3>1, UptoType
    <3> QED
      BY <3>2, <3>3, <3>5, <3>6, <3>7 DEF Positioned
  <2> QED
    BY <2>1, <2>2
<1>8. /\ t - 1 \in 0..N /\ t \in 0..N /\ N \in 0..N /\ t <= N
  BY <1>1, <1>3
<1>9. /\ Upto[t - 1] \in Seq(AllItems) /\ Upto[t] = Upto[t - 1] \o Items(t)
      /\ Len(Upto[t - 1]) \in Nat
  BY <1>2, <1>8, UptoType, UptoStep
<1>10. Len(Upto[t]) = Len(Upto[t - 1]) + Len(Items(t))
  BY <1>5, <1>9
<1>11. /\ passed \in Nat /\ passed + 1 \in 1..Len(Upto[t])
  <2>1. passed \in Nat
    BY <1>4, <1>7, <1>9
  <2>2. Behind(t) < Len(Items(t))
    BY <1>2
  <2>3. passed < Len(Upto[t])
    BY <1>4, <1>5, <1>7, <1>9, <1>10, <2>1, <2>2
  <2>4. Len(Upto[t]) \in Nat
    BY <1>5, <1>9, <1>10
  <2> QED
    BY <2>1, <2>3, <2>4
<1>14. Upto[t][passed + 1] = Items(t)[Behind(t) + 1]
  <2> DEFINE i == Behind(t) + 1
             k == Len(Upto[t - 1])
  <2>1. i \in 1..Len(Items(t)) /\ k \in Nat
    BY <1>2, <1>4, <1>5, <1>9
  <2>2. passed + 1 = k + i
    BY <1>4, <1>7, <1>9
  <2> HIDE DEF i
  <2>3. (Upto[t - 1] \o Items(t))[k + i] = Items(t)[i]
    BY <1>5, <1>9, <2>1
  <2> QED
    BY <1>9, <2>2, <2>3 DEF i
<1>12. /\ Len(Upto[t]) <= Len(Upto[N]) /\ Len(Upto[N]) \in Nat /\ Len(Upto[t]) \in Nat
       /\ Upto[N][passed + 1] = Upto[t][passed + 1]
  BY <1>8, <1>11, UptoGrows, UptoType
<1>13. Descriptor = Items(t)[Behind(t) + 1]
  BY DEF Descriptor, t
<1>15. Behind(t) \in 0..(Len(Items(t)) - 1) /\ passed \in 0..(Len(Upto[N]) - 1)
  BY ONLY <1>2, <1>4, <1>5, <1>11, <1>12
<1> QED
  BY <1>2, <1>7, <1>12, <1>13, <1>14, <1>15 DEF t, Deterministic

(* With nothing ahead the enumeration is past its deterministic part.      *)
LEMMA NothingAhead ==
  ASSUME spec \in Specs, Positioned, Ahead = {}
  PROVE  passed = Len(Deterministic)
<1> DEFINE N == Len(spec.targets)
           c == cursor.target
<1>1. N \in Nat /\ c \in Targets /\ c \in 1..N /\ c \in 0..N /\ c - 1 \in 0..N /\ N \in 0..N /\ c <= N
  <2>1. N \in Nat
    BY SpecType
  <2>2. c \in Targets /\ Targets = 1..N
    BY DEF Positioned, Targets
  <2> HIDE DEF N, c
  <2> QED
    BY ONLY <2>1, <2>2
<1>2. ASSUME NEW u \in c..N
      PROVE  Behind(u) >= Len(Items(u)) /\ Len(Items(u)) \in Nat
  <2>1. u \in Targets /\ u >= c
    BY <1>1 DEF Targets
  <2>2. Len(Items(u)) \in Nat /\ Behind(u) \in Nat
    BY <1>1, <2>1, ItemsType DEF Behind, Positioned
  <2> QED
    BY <2>1, <2>2 DEF Ahead
<1>3. cursor.item = Len(Items(c))
  <2>1. c \in c..N
    BY <1>1
  <2> QED
    BY <1>2, <2>1 DEF Behind, Positioned
<1>4. Len(Upto[c]) = Len(Upto[c - 1]) + Len(Items(c))
  <2>1. Upto[c - 1] \in Seq(AllItems) /\ Items(c) \in Seq(AllItems)
    BY <1>1, UptoType, ItemsType
  <2>2. Upto[c] = Upto[c - 1] \o Items(c)
    BY <1>1, UptoStep
  <2> QED
    BY <2>1, <2>2
<1>5. \A u \in (c + 1)..N : Len(Items(u)) = 0
  <2> TAKE u \in (c + 1)..N
  <2>1. u \in c..N /\ u # c
    BY <1>1
  <2>2. Behind(u) = 0
    BY <2>1 DEF Behind
  <2> QED
    BY <1>2, <2>1, <2>2
<1>6. Len(Upto[N]) = Len(Upto[c])
  BY <1>1, <1>5, UptoRests
<1> QED
  BY <1>3, <1>4, <1>6 DEF Deterministic, Positioned

-----------------------------------------------------------------------------
(* Windows.                                                                *)

Universe == AllItems \cup Draws
Whole == spec.offset + spec.samples
Past == Len(Deterministic)

WindowTypes ==
  /\ spec \in Specs
  /\ step \in {"start", "rejected", "skip", "take", "skip draws", "take draws", "done"}
  /\ passed \in Nat /\ skip \in Nat /\ left \in Nat /\ drawn \in Nat
  /\ cases \in Seq(Universe) /\ stream \in Seq(Universe)
  /\ spec.targets # <<>> => Positioned

(* All cases up to the end of the window were skipped or taken, in their   *)
(* order.                                                                  *)
Matched ==
  /\ skip + passed + Len(stream) = spec.offset + Len(cases)
  /\ skip > 0 => cases = <<>>
  /\ passed <= Past /\ (stream # <<>> => passed = Past)
  /\ Len(cases) <= spec.samples
  /\ \A i \in 1..Len(cases) : cases[i] = Enumeration[spec.offset + i]

Staged ==
  /\ step # "start" /\ step # "rejected" => ~Rejected
  /\ step \in {"start", "rejected", "skip", "take"} => stream = <<>> /\ drawn = 0
  /\ step = "take" => skip = 0 \/ passed = Past
  /\ step \in {"skip draws", "take draws"} => passed = Past /\ left + drawn = Whole - Past
  /\ step = "take draws" => skip = 0 \/ left = 0
  /\ step = "done" /\ Len(cases) < spec.samples =>
       passed = Past /\ (spec.mutations = 0 \/ drawn = Whole - Past)

WindowInv == WindowTypes /\ Matched /\ Staged

LEMMA DeterministicType ==
  ASSUME spec \in Specs
  PROVE  Deterministic \in Seq(Universe) /\ Past \in Nat
<1>1. Len(spec.targets) \in 0..Len(spec.targets)
  BY SpecType
<1>2. Deterministic \in Seq(AllItems)
  BY <1>1, UptoType DEF Deterministic
<1> QED
  BY <1>2 DEF Universe, Past

LEMMA WindowInit == RecipeInit => WindowInv
<1> SUFFICES ASSUME RecipeInit
             PROVE  WindowInv
  OBVIOUS
<1>1. /\ spec \in Specs /\ step = "start" /\ cursor = [target |-> 1, item |-> 0]
      /\ skip = spec.offset /\ passed = 0 /\ left = 0 /\ cases = <<>> /\ stream = <<>>
      /\ drawn = 0
  BY DEF RecipeInit
<1>2. /\ spec.offset \in Nat /\ spec.samples \in Nat /\ spec.targets \in Seq(Nat)
      /\ Len(spec.targets) \in Nat
  BY <1>1, SpecType
<1>3. spec.targets # <<>> => Positioned
  <2> HAVE spec.targets # <<>>
  <2>1. 1 \in Targets
    BY <1>2 DEF Targets
  <2>2. Len(Items(1)) \in Nat /\ Upto[0] = <<>>
    BY <1>1, <2>1, ItemsType, UptoStep
  <2>3. cursor.target = 1 /\ cursor.item = 0 /\ 1 - 1 = 0
    BY <1>1
  <2> QED
    BY <1>1, <2>1, <2>2, <2>3 DEF Positioned
<1>4. WindowTypes
  BY <1>1, <1>2, <1>3 DEF WindowTypes
<1>5. Past \in Nat /\ 0 <= Past
  BY <1>1, DeterministicType
<1>6. Matched
  BY <1>1, <1>2, <1>5 DEF Matched
<1>7. Staged
  BY <1>1 DEF Staged
<1> QED
  BY <1>4, <1>6, <1>7 DEF WindowInv

(* A step of the enumeration keeps its place.                              *)
LEMMA AdvanceKeeps ==
  ASSUME spec \in Specs, Positioned, Ahead # {}, Advance, spec' = spec
  PROVE  Positioned' /\ passed' = passed + 1 /\ passed + 1 <= Past /\ passed \in Nat
         /\ Descriptor = Deterministic[passed + 1]
<1> DEFINE t == Least(Ahead)
<1>1. /\ t \in Targets /\ Behind(t) \in 0..(Len(Items(t)) - 1)
      /\ passed = Len(Upto[t - 1]) + Behind(t)
      /\ passed \in 0..(Len(Deterministic) - 1)
      /\ Descriptor = Deterministic[passed + 1]
  BY NextItem
<1>2. cursor' = [target |-> t, item |-> Behind(t) + 1] /\ passed' = passed + 1
  BY DEF Advance
<1> HIDE DEF t
<1>3. Len(Items(t)) \in Nat /\ Len(Upto[t - 1]) \in Nat
  <2>1. t - 1 \in 0..Len(spec.targets)
    BY <1>1, SpecType DEF Targets
  <2> QED
    BY <1>1, <2>1, ItemsType, UptoType
<1>4. /\ cursor'.target = t /\ cursor'.item = Behind(t) + 1
      /\ Behind(t) + 1 \in 0..Len(Items(t))
      /\ passed' = Len(Upto[t - 1]) + (Behind(t) + 1)
  <2>1. cursor'.target = t /\ cursor'.item = Behind(t) + 1
    BY <1>2
  <2>2. Behind(t) \in 0..(Len(Items(t)) - 1) /\ passed = Len(Upto[t - 1]) + Behind(t)
    BY <1>1
  <2> QED
    BY ONLY <1>2, <1>3, <2>1, <2>2
<1>5. Upto' = Upto /\ Targets' = Targets
  BY DEF Items, Upto, Targets
<1>6. Positioned'
  <2>1. Len(Items(cursor.target))' = Len(Items(t))
    BY <1>4 DEF Items
  <2> QED
    BY <1>1, <1>4, <1>5, <2>1 DEF Positioned
<1> QED
  BY <1>1, <1>2, <1>6, DeterministicType DEF Past

LEMMA SkipDescriptorKeeps == WindowInv /\ SkipDescriptor => WindowInv'
<1> SUFFICES ASSUME WindowInv, SkipDescriptor
             PROVE  WindowInv'
  OBVIOUS
<1>1. /\ step = "skip" /\ skip > 0 /\ Ahead # {} /\ Advance /\ skip' = skip - 1
      /\ UNCHANGED <<spec, step, left, cases, stream, drawn>>
  BY DEF SkipDescriptor
<1>2. /\ spec.targets # <<>> /\ spec.targets \in Seq(Nat)
      /\ spec.offset \in Nat /\ spec.samples \in Nat /\ spec \in Specs
  BY <1>1, SpecType DEF WindowInv, WindowTypes, Staged, Rejected
<1>3. Positioned' /\ passed' = passed + 1 /\ passed + 1 <= Past /\ passed \in Nat
  BY <1>1, <1>2, AdvanceKeeps DEF WindowInv, WindowTypes
<1>4. /\ Universe' = Universe /\ Enumeration' = Enumeration /\ (Rejected' <=> Rejected)
      /\ Past' = Past
  BY <1>1 DEF Universe, AllItems, Draws, Numeric, Values, Widest, Combination, Enumeration, Deterministic, Upto, Items, Targets,
              Rejected, Past, Selections, MaxMutations
<1>5. WindowTypes'
  BY <1>1, <1>2, <1>3, <1>4 DEF WindowInv, WindowTypes
<1>6. Matched'
  BY <1>1, <1>2, <1>3, <1>4 DEF WindowInv, WindowTypes, Matched, Staged
<1>7. Staged'
  BY <1>1, <1>4 DEF WindowInv, Staged
<1> QED
  BY <1>5, <1>6, <1>7 DEF WindowInv

LEMMA TakeDescriptorKeeps == WindowInv /\ TakeDescriptor => WindowInv'
<1> SUFFICES ASSUME WindowInv, TakeDescriptor
             PROVE  WindowInv'
  OBVIOUS
<1>1. /\ step = "take" /\ Len(cases) < spec.samples /\ Ahead # {} /\ Advance
      /\ cases' = Append(cases, Descriptor)
      /\ UNCHANGED <<spec, step, skip, left, stream, drawn>>
  BY DEF TakeDescriptor, Short
<1>2. /\ spec.targets # <<>> /\ spec.targets \in Seq(Nat)
      /\ spec.offset \in Nat /\ spec.samples \in Nat /\ spec \in Specs
      /\ cases \in Seq(Universe) /\ skip \in Nat
  BY <1>1, SpecType DEF WindowInv, WindowTypes, Staged, Rejected
<1>3. /\ Positioned' /\ passed' = passed + 1 /\ passed + 1 <= Past /\ passed \in Nat
      /\ Descriptor = Deterministic[passed + 1]
  BY <1>1, <1>2, AdvanceKeeps DEF WindowInv, WindowTypes
<1>4. /\ Universe' = Universe /\ Enumeration' = Enumeration /\ (Rejected' <=> Rejected)
      /\ Past' = Past
  BY <1>1 DEF Universe, AllItems, Draws, Numeric, Values, Widest, Combination, Enumeration, Deterministic, Upto, Items, Targets,
              Rejected, Past, Selections, MaxMutations
<1>5. /\ stream = <<>> /\ Deterministic \in Seq(Universe) /\ Past \in Nat
      /\ Len(Deterministic) = Past
  BY <1>1, <1>2, DeterministicType DEF WindowInv, Staged, Past
<1>6. skip = 0 /\ passed = spec.offset + Len(cases)
  <2>1. skip = 0
    BY <1>1, <1>3, <1>5 DEF WindowInv, Staged
  <2>2. skip + passed + Len(stream) = spec.offset + Len(cases) /\ Len(stream) = 0
    BY <1>5 DEF WindowInv, Matched
  <2> QED
    BY <1>2, <1>3, <2>1, <2>2
<1>7. Descriptor \in Universe /\ Enumeration[passed + 1] = Descriptor
  BY <1>3, <1>5 DEF Enumeration
<1>8. /\ cases' \in Seq(Universe) /\ Len(cases') = Len(cases) + 1
      /\ \A i \in 1..Len(cases) : cases'[i] = cases[i]
      /\ cases'[Len(cases) + 1] = Descriptor
  BY <1>1, <1>2, <1>7
<1>9. WindowTypes'
  BY <1>1, <1>2, <1>3, <1>4, <1>8 DEF WindowInv, WindowTypes
<1>10. Matched'
  <2>1. \A i \in 1..Len(cases') : cases'[i] = Enumeration[spec.offset + i]
    <3> TAKE i \in 1..Len(cases')
    <3>1. CASE i = Len(cases) + 1
      <4>1. spec.offset + i = passed + 1
        BY <1>2, <1>6, <3>1
      <4> QED
        BY <1>7, <1>8, <3>1, <4>1
    <3>2. CASE i # Len(cases) + 1
      <4>1. i \in 1..Len(cases)
        BY <1>2, <1>8, <3>2
      <4> QED
        BY <1>8, <4>1 DEF WindowInv, Matched
    <3> QED
      BY <3>1, <3>2
  <2> QED
    <3>1. skip' + passed' + Len(stream') = spec'.offset + Len(cases')
      <4>1. Len(stream) = 0 /\ Len(cases) \in Nat
        BY <1>2, <1>5
      <4> QED
        BY <1>1, <1>2, <1>3, <1>6, <1>8, <4>1
    <3>2. Len(cases') <= spec.samples
      BY <1>1, <1>2, <1>8
    <3>3. passed' <= Past' /\ stream' = <<>> /\ (skip' > 0 => cases' = <<>>)
      BY <1>1, <1>3, <1>4, <1>5, <1>6
    <3>4. spec' = spec /\ Enumeration' = Enumeration
      BY <1>1, <1>4
    <3> QED
      BY <2>1, <3>1, <3>2, <3>3, <3>4 DEF Matched
<1>11. Staged'
  BY <1>1, <1>4, <1>6 DEF WindowInv, Staged
<1> QED
  BY <1>9, <1>10, <1>11 DEF WindowInv

(* The steps between the loops.                                            *)
LEMMA StageKeeps ==
  WindowInv /\ (Check \/ EndSkip \/ EndTake \/ EndSkipDraws \/ EndTakeDraws) => WindowInv'
<1> SUFFICES ASSUME WindowInv, Check \/ EndSkip \/ EndTake \/ EndSkipDraws \/ EndTakeDraws
             PROVE  WindowInv'
  OBVIOUS
<1>1. UNCHANGED <<spec, cursor, skip, passed, cases, stream, drawn>>
  BY DEF Check, EndSkip, EndTake, EndSkipDraws, EndTakeDraws
<1>2. /\ Universe' = Universe /\ Enumeration' = Enumeration /\ (Rejected' <=> Rejected)
      /\ Past' = Past /\ (Positioned' <=> Positioned) /\ Whole' = Whole
  BY <1>1 DEF Universe, AllItems, Draws, Numeric, Values, Widest, Combination, Enumeration, Deterministic, Upto, Items, Targets,
              Rejected, Past, Selections, MaxMutations, Positioned, Whole
<1>3. /\ spec \in Specs /\ spec.targets \in Seq(Nat) /\ Len(spec.targets) \in Nat
      /\ spec.offset \in Nat /\ spec.samples \in Nat /\ spec.mutations \in Nat
      /\ passed \in Nat /\ skip \in Nat /\ left \in Nat /\ drawn \in Nat
      /\ cases \in Seq(Universe) /\ Len(cases) \in Nat /\ Past \in Nat
  <2>1. /\ spec \in Specs /\ passed \in Nat /\ skip \in Nat /\ left \in Nat /\ drawn \in Nat
        /\ cases \in Seq(Universe)
    BY DEF WindowInv, WindowTypes
  <2> QED
    BY <2>1, SpecType, DeterministicType
<1>4. ASSUME Ahead = {}, step # "start", step # "rejected"
      PROVE  passed = Past
  <2>1. Positioned
    BY <1>4 DEF WindowInv, WindowTypes, Staged, Rejected
  <2> QED
    BY <1>3, <1>4, <2>1, NothingAhead DEF Past
<1>5. Matched'
  BY <1>1, <1>2 DEF WindowInv, Matched
<1>6. CASE Check
  <2>1. WindowTypes'
    BY <1>1, <1>2, <1>6 DEF Check, WindowInv, WindowTypes
  <2>2. Staged'
    BY <1>1, <1>2, <1>6 DEF Check, WindowInv, Staged
  <2> QED
    BY <1>5, <2>1, <2>2 DEF WindowInv
<1>7. CASE EndSkip
  <2>1. WindowTypes'
    BY <1>1, <1>2, <1>7 DEF EndSkip, WindowInv, WindowTypes
  <2>2. Staged'
    BY <1>1, <1>2, <1>4, <1>7 DEF EndSkip, WindowInv, Staged
  <2> QED
    BY <1>5, <2>1, <2>2 DEF WindowInv
<1>8. CASE EndTake
  <2>1. step = "take" /\ step' \in {"skip draws", "done"}
    BY <1>8 DEF EndTake
  <2>2. CASE Short /\ MaxMutations > 0
    <3>1. Ahead = {} /\ step' = "skip draws" /\ left' = DrawBudget
      BY <1>8, <2>2 DEF EndTake
    <3>2. passed = Past /\ drawn = 0 /\ stream = <<>>
      BY <1>4, <2>1, <3>1 DEF WindowInv, Staged
    <3>3. Whole > Past
      <4>1. skip + passed + Len(stream) = spec.offset + Len(cases) /\ Len(stream) = 0
        BY <3>2 DEF WindowInv, Matched
      <4>2. Len(cases) < spec.samples
        BY <2>2 DEF Short
      <4> QED
        BY <1>3, <3>2, <4>1, <4>2 DEF Whole
    <3>4. left' \in Nat /\ left' + drawn = Whole - Past
      <4>1. Whole \in Nat /\ Past \in Nat
        BY <1>3 DEF Whole
      <4>2. left' = IF Whole > Past THEN Whole - Past ELSE 0
        <5>1. left' = IF Whole > passed THEN Whole - passed ELSE 0
          <6>1. left' = DrawBudget
            BY <3>1
          <6>2. DrawBudget = IF Whole > passed THEN Whole - passed ELSE 0
            <7>1. spec.offset \in Nat /\ spec.samples \in Nat /\ passed \in Nat
              BY <1>3
            <7> QED
              BY <7>1 DEF DrawBudget, Whole
          <6> QED
            BY <6>1, <6>2
        <5>2. passed = Past
          BY <3>2
        <5> QED
          BY ONLY <5>1, <5>2, Zenon
      <4>3. left' = Whole - Past /\ left' \in Nat
        BY <3>3, <4>1, <4>2
      <4> QED
        BY <3>2, <4>1, <4>3
    <3>5. WindowTypes'
      BY <1>1, <1>2, <1>3, <3>1, <3>4 DEF WindowInv, WindowTypes
    <3>6. Staged'
      BY <1>1, <1>2, <2>1, <3>1, <3>2, <3>4 DEF WindowInv, Staged
    <3> QED
      BY <1>5, <3>5, <3>6 DEF WindowInv
  <2>3. CASE ~(Short /\ MaxMutations > 0)
    <3>1. step' = "done" /\ left' = left /\ (~Short \/ Ahead = {})
      BY <1>8, <2>3 DEF EndTake
    <3>2. Short => passed = Past /\ spec.mutations = 0
      <4>1. Len(spec.targets) > 0
        <5>1. spec.targets # <<>>
          BY <2>1 DEF WindowInv, Staged, Rejected
        <5> QED
          BY <1>3, <5>1
      <4>2. MaxMutations = 0 => spec.mutations = 0
        BY <1>3, <4>1 DEF MaxMutations, AtMost
      <4>3. MaxMutations \in Nat
        BY <1>3 DEF MaxMutations, AtMost
      <4> QED
        BY <1>4, <2>1, <2>3, <3>1, <4>2, <4>3
    <3>3. WindowTypes'
      BY <1>1, <1>2, <1>3, <3>1 DEF WindowInv, WindowTypes
    <3>4. Staged'
      BY <1>1, <1>2, <2>1, <3>1, <3>2 DEF WindowInv, Staged, Short
    <3> QED
      BY <1>5, <3>3, <3>4 DEF WindowInv
  <2> QED
    BY <2>2, <2>3
<1>9. CASE EndSkipDraws
  <2>1. WindowTypes'
    BY <1>1, <1>2, <1>9 DEF EndSkipDraws, WindowInv, WindowTypes
  <2>2. Staged'
    BY <1>1, <1>2, <1>9 DEF EndSkipDraws, WindowInv, Staged
  <2> QED
    BY <1>5, <2>1, <2>2 DEF WindowInv
<1>10. CASE EndTakeDraws
  <2>1. WindowTypes'
    BY <1>1, <1>2, <1>10 DEF EndTakeDraws, WindowInv, WindowTypes
  <2>2. Staged'
    <3>1. /\ step = "take draws" /\ step' = "done" /\ left' = left
          /\ Len(cases) < spec.samples => left = 0
      BY <1>10 DEF EndTakeDraws, Short
    <3>2. passed = Past /\ left + drawn = Whole - Past /\ ~Rejected
      BY <3>1 DEF WindowInv, Staged
    <3>3. left = 0 => drawn = Whole - Past
      BY <1>3, <3>2
    <3> QED
      BY <1>1, <1>2, <3>1, <3>2, <3>3 DEF Staged
  <2> QED
    BY <1>5, <2>1, <2>2 DEF WindowInv
<1> QED
  BY <1>6, <1>7, <1>8, <1>9, <1>10

(* The draws are made after all deterministic cases.                       *)
Drawing ==
  /\ step \in {"skip draws", "take draws"}
  /\ left > 0
  /\ left' = left - 1 /\ drawn' = drawn + 1
  /\ UNCHANGED <<spec, step, cursor, passed>>
  /\ step = "take draws" => skip' = skip

LEMMA DrawingKeeps ==
  ASSUME WindowInv, Drawing
  PROVE  /\ Staged'
         /\ passed = Past /\ Past' = Past /\ Past \in Nat /\ passed' = Past
         /\ left' \in Nat /\ drawn' \in Nat
         /\ Universe' = Universe /\ Deterministic' = Deterministic
         /\ Positioned'
         /\ step = "take draws" => skip = 0
<1>1. /\ step \in {"skip draws", "take draws"} /\ left > 0
      /\ left' = left - 1 /\ drawn' = drawn + 1
      /\ UNCHANGED <<spec, step, cursor, passed>>
      /\ step = "take draws" => skip' = skip
  BY DEF Drawing
<1>2. /\ spec \in Specs /\ left \in Nat /\ drawn \in Nat /\ skip \in Nat
      /\ spec.offset \in Nat /\ spec.samples \in Nat /\ Past \in Nat
  <2>1. spec \in Specs /\ left \in Nat /\ drawn \in Nat /\ skip \in Nat
    BY DEF WindowInv, WindowTypes
  <2> QED
    BY <2>1, SpecType, DeterministicType
<1>3. /\ Universe' = Universe /\ Deterministic' = Deterministic /\ (Rejected' <=> Rejected)
      /\ Past' = Past /\ (Positioned' <=> Positioned) /\ Whole' = Whole
  <2>1. UNCHANGED <<spec, cursor, passed>>
    BY <1>1
  <2> QED
    BY <2>1 DEF Universe, AllItems, Draws, Numeric, Values, Widest, Combination, Deterministic, Upto, Items, Targets,
              Rejected, Past, Selections, MaxMutations, Positioned, Whole
<1>4. passed = Past /\ left + drawn = Whole - Past /\ ~Rejected /\ Positioned
  BY <1>1 DEF WindowInv, Staged, WindowTypes, Rejected
<1>5. Whole - Past \in Int
  BY <1>2 DEF Whole
<1>6. left' \in Nat /\ drawn' \in Nat /\ left' + drawn' = Whole - Past
  <2>1. left - 1 \in Nat /\ drawn + 1 \in Nat /\ (left - 1) + (drawn + 1) = left + drawn
    <3>1. left \in Nat /\ drawn \in Nat /\ left > 0
      BY <1>1, <1>2
    <3> QED
      BY ONLY <3>1
  <2>2. left' = left - 1 /\ drawn' = drawn + 1
    BY <1>1
  <2> QED
    BY <1>4, <2>1, <2>2, Zenon
<1>7. step = "take draws" => skip = 0
  <2>1. left # 0
    <3>1. left \in Nat /\ left > 0
      BY <1>1, <1>2
    <3> QED
      BY ONLY <3>1
  <2> QED
    BY <2>1 DEF WindowInv, Staged
<1>8. Staged'
  BY <1>1, <1>3, <1>4, <1>6, <1>7 DEF Staged
<1> QED
  BY <1>1, <1>2, <1>3, <1>4, <1>6, <1>7, <1>8

(* One more case is enumerated.                                            *)
LEMMA EnumerationGrows ==
  ASSUME WindowInv, Deterministic' = Deterministic, NEW d \in Draws, stream' = Append(stream, d)
  PROVE  /\ stream' \in Seq(Universe) /\ Len(stream) \in Nat /\ Len(stream') = Len(stream) + 1
         /\ stream' # <<>>
         /\ \A i \in 1..(Past + Len(stream)) : Enumeration'[i] = Enumeration[i]
         /\ Enumeration'[Past + Len(stream) + 1] = d
<1>1. d \in Universe /\ stream \in Seq(Universe)
  BY DEF Universe, WindowInv, WindowTypes
<1>2. Deterministic \in Seq(Universe) /\ Len(Deterministic) = Past /\ Past \in Nat
  BY DeterministicType DEF Past, WindowInv, WindowTypes
<1>3. stream' \in Seq(Universe) /\ Len(stream) \in Nat /\ Len(stream') = Len(stream) + 1
  BY <1>1
<1>4. stream' # <<>>
  BY <1>3
<1>5. Enumeration' = Deterministic \o stream'
  BY DEF Enumeration
<1>6. \A i \in 1..(Past + Len(stream)) : Enumeration'[i] = Enumeration[i]
  <2> TAKE i \in 1..(Past + Len(stream))
  <2>1. CASE i <= Past
    BY <1>1, <1>2, <1>3, <1>5, <2>1 DEF Enumeration
  <2>2. CASE ~(i <= Past)
    <3>1. i - Past \in 1..Len(stream)
      BY <1>2, <1>3, <2>2
    <3>2. stream'[i - Past] = stream[i - Past]
      BY <1>1, <3>1
    <3>3. Enumeration[i] = stream[i - Past]
      BY <1>1, <1>2, <1>3, <2>2, <3>1 DEF Enumeration
    <3>4. (Deterministic \o stream')[i] = stream'[i - Past]
      BY <1>1, <1>2, <1>3, <2>2, <3>1
    <3> QED
      BY <1>5, <3>2, <3>3, <3>4
  <2> QED
    BY <2>1, <2>2
<1>7. Enumeration'[Past + Len(stream) + 1] = d
  <2> DEFINE i == Past + Len(stream) + 1
  <2>1. i \in 1..(Len(Deterministic) + Len(stream')) /\ ~(i <= Len(Deterministic))
        /\ i - Len(Deterministic) = Len(stream')
    BY <1>2, <1>3
  <2>2. stream'[Len(stream')] = d
    BY <1>1, <1>3
  <2> HIDE DEF i
  <2>3. (Deterministic \o stream')[i] = stream'[i - Len(Deterministic)]
    BY <1>2, <1>3, <2>1, ConcatProperties, Zenon
  <2> QED
    BY <1>5, <2>1, <2>2, <2>3 DEF i
<1> QED
  BY <1>3, <1>4, <1>6, <1>7

(* A draw of nothing is neither skipped nor taken.                         *)
LEMMA DrawKeeps == WindowInv /\ (SkipDraw \/ TakeDraw) => WindowInv'
<1> SUFFICES ASSUME WindowInv, SkipDraw \/ TakeDraw
             PROVE  WindowInv'
  OBVIOUS
<1>1. Drawing
  BY DEF SkipDraw, TakeDraw, Draw, Drawing
<1>2. /\ Staged'
      /\ passed = Past /\ Past' = Past /\ Past \in Nat /\ passed' = Past
      /\ left' \in Nat /\ drawn' \in Nat
      /\ Universe' = Universe /\ Deterministic' = Deterministic
      /\ Positioned'
      /\ step = "take draws" => skip = 0
      /\ spec' = spec /\ step' = step
  BY <1>1, DrawingKeeps DEF Drawing
<1>3. /\ spec \in Specs /\ spec.offset \in Nat /\ spec.samples \in Nat /\ skip \in Nat
      /\ cases \in Seq(Universe) /\ Len(cases) \in Nat /\ stream \in Seq(Universe)
  <2>1. spec \in Specs /\ skip \in Nat /\ cases \in Seq(Universe) /\ stream \in Seq(Universe)
    BY DEF WindowInv, WindowTypes
  <2> QED
    BY <2>1, SpecType
<1>4. /\ skip + passed + Len(stream) = spec.offset + Len(cases)
      /\ skip > 0 => cases = <<>>
      /\ Len(cases) <= spec.samples
      /\ \A i \in 1..Len(cases) : cases[i] = Enumeration[spec.offset + i]
  BY DEF WindowInv, Matched
<1>5. step \in {"skip draws", "take draws"}
  BY <1>1 DEF Drawing
<1>6. CASE UNCHANGED <<stream, skip, cases>>
  <2>1. WindowTypes'
    BY <1>2, <1>3, <1>5, <1>6 DEF WindowTypes
  <2>2. Enumeration' = Enumeration
    BY <1>2, <1>6 DEF Enumeration
  <2>3. Matched'
    <3>1. passed' = passed /\ passed' <= Past' /\ passed' = Past'
      <4>1. passed = Past /\ Past' = Past /\ passed' = Past /\ Past \in Nat
        BY <1>2
      <4>2. Past <= Past
        BY ONLY <4>1
      <4> QED
        BY <4>1, <4>2, Zenon
    <3>2. spec' = spec /\ stream' = stream /\ skip' = skip /\ cases' = cases
      BY <1>2, <1>6
    <3> QED
      BY <1>4, <2>2, <3>1, <3>2 DEF Matched
  <2> QED
    BY <1>2, <2>1, <2>3 DEF WindowInv
<1>7. ASSUME NEW d \in Draws, SkipDraw, stream' = Append(stream, d), skip' = skip - 1
      PROVE  WindowInv'
  <2>1. skip > 0 /\ cases' = cases
    BY <1>7 DEF SkipDraw
  <2>2. cases = <<>> /\ cases' = <<>> /\ Len(cases) = 0 /\ skip' \in Nat
    BY <1>3, <1>4, <1>7, <2>1
  <2>3. stream' \in Seq(Universe) /\ Len(stream) \in Nat /\ Len(stream') = Len(stream) + 1
    BY <1>2, <1>7, EnumerationGrows
  <2>4. WindowTypes'
    BY <1>2, <1>3, <1>5, <2>1, <2>2, <2>3 DEF WindowTypes
  <2>5. skip' + passed' + Len(stream') = spec.offset
    <3>1. skip + Past + Len(stream) = spec.offset /\ passed' = Past
      <4>1. passed = Past /\ passed' = Past
        BY <1>2
      <4>2. skip + passed + Len(stream) = spec.offset + 0
        BY <1>4, <2>2, Zenon
      <4>3. spec.offset + 0 = spec.offset
        BY <1>3
      <4> QED
        BY ONLY <4>1, <4>2, <4>3, Zenon
    <3>2. (skip - 1) + Past + (Len(stream) + 1) = skip + Past + Len(stream)
      <4>1. skip \in Nat /\ Past \in Nat /\ Len(stream) \in Nat
        BY <1>2, <1>3, <2>3
      <4> QED
        BY ONLY <4>1
    <3> QED
      BY <1>7, <2>3, <3>1, <3>2, Zenon
  <2>6. Matched'
    <3>1. passed' <= Past' /\ passed' = Past' /\ spec' = spec /\ 0 <= spec.samples
      <4>1. /\ Past' = Past /\ passed' = Past /\ Past \in Nat /\ spec' = spec
            /\ spec.samples \in Nat
        BY <1>2, <1>3
      <4>2. Past <= Past /\ 0 <= spec.samples
        BY ONLY <4>1
      <4> QED
        BY <4>1, <4>2, Zenon
    <3>2. skip' + passed' + Len(stream') = spec'.offset + Len(cases') /\ Len(cases') = 0
      BY <1>3, <2>2, <2>5, <3>1
    <3> QED
      BY <2>2, <3>1, <3>2 DEF Matched
  <2> QED
    BY <1>2, <2>4, <2>6 DEF WindowInv
<1>8. ASSUME NEW d \in Draws, TakeDraw, stream' = Append(stream, d), cases' = Append(cases, d)
      PROVE  WindowInv'
  <2>1. /\ stream' \in Seq(Universe) /\ Len(stream) \in Nat /\ Len(stream') = Len(stream) + 1
        /\ stream' # <<>>
        /\ \A i \in 1..(Past + Len(stream)) : Enumeration'[i] = Enumeration[i]
        /\ Enumeration'[Past + Len(stream) + 1] = d
    BY <1>2, <1>8, EnumerationGrows
  <2>2. skip = 0 /\ skip' = 0 /\ Len(cases) < spec.samples
    BY <1>2, <1>8 DEF TakeDraw, Short
  <2>3. d \in Universe
    BY DEF Universe
  <2>4. /\ cases' \in Seq(Universe) /\ Len(cases') = Len(cases) + 1
        /\ \A i \in 1..Len(cases) : cases'[i] = cases[i]
        /\ cases'[Len(cases) + 1] = d
    BY <1>3, <1>8, <2>3
  <2>5. Past + Len(stream) = spec.offset + Len(cases)
    BY <1>2, <1>3, <1>4, <2>1, <2>2
  <2>6. WindowTypes'
    BY <1>2, <1>3, <1>5, <2>1, <2>2, <2>4 DEF WindowTypes
  <2>7. ASSUME NEW i \in 1..Len(cases')
        PROVE  cases'[i] = Enumeration'[spec.offset + i]
    <3>1. CASE i = Len(cases) + 1
      <4>1. spec.offset + i = Past + Len(stream) + 1
        <5>1. spec.offset + (Len(cases) + 1) = (spec.offset + Len(cases)) + 1
          BY <1>3
        <5> QED
          BY <2>5, <3>1, <5>1
      <4> QED
        BY <2>1, <2>4, <3>1, <4>1
    <3>2. CASE i # Len(cases) + 1
      <4>1. i \in 1..Len(cases)
        BY <1>3, <2>4, <3>2
      <4>2. spec.offset + i \in 1..(spec.offset + Len(cases))
        BY <1>3, <4>1
      <4>3. spec.offset + i \in 1..(Past + Len(stream))
        BY <2>5, <4>2
      <4> QED
        BY <1>4, <2>1, <2>4, <4>1, <4>3
    <3> QED
      BY <3>1, <3>2
  <2>8. skip' + passed' + Len(stream') = spec.offset + Len(cases')
    <3>1. /\ Past \in Nat /\ Len(stream) \in Nat /\ spec.offset \in Nat /\ Len(cases) \in Nat
          /\ Past + Len(stream) = spec.offset + Len(cases)
      BY <1>2, <1>3, <2>1, <2>5
    <3>2. 0 + Past + (Len(stream) + 1) = spec.offset + (Len(cases) + 1)
      BY ONLY <3>1
    <3>3. /\ skip' = 0 /\ passed' = Past
          /\ Len(stream') = Len(stream) + 1 /\ Len(cases') = Len(cases) + 1
      BY <1>2, <2>1, <2>2, <2>4
    <3> QED
      BY ONLY <3>2, <3>3, Zenon
  <2>9. Len(cases') <= spec.samples
    BY <1>3, <2>2, <2>4
  <2>10. Matched'
    BY <1>2, <2>2, <2>7, <2>8, <2>9 DEF Matched
  <2> QED
    BY <1>2, <2>6, <2>10 DEF WindowInv
<1>9. CASE SkipDraw
  BY <1>6, <1>7, <1>9 DEF SkipDraw, Draw
<1>10. CASE TakeDraw
  BY <1>6, <1>8, <1>10 DEF TakeDraw, Draw
<1> QED
  BY <1>9, <1>10

(* Once a case is minimized the recipe is not looked at again.             *)
RecipeRead == step = "read" \/ WindowInv

LEMMA WindowStep == RecipeRead /\ [Next]_vars => RecipeRead'
<1> SUFFICES ASSUME RecipeRead, [Next]_vars
             PROVE  RecipeRead'
  OBVIOUS
<1>1. CASE Generating
  <2>1. RecipeNext /\ step # "read"
    BY <1>1 DEF Generating, RecipeNext, Check, SkipDescriptor, EndSkip, TakeDescriptor, EndTake,
                SkipDraw, EndSkipDraws, TakeDraw, EndTakeDraws
  <2> QED
    BY <2>1, SkipDescriptorKeeps, TakeDescriptorKeeps, StageKeeps, DrawKeeps
       DEF RecipeNext, RecipeRead
<1>2. CASE Start
  BY <1>2 DEF Start, RecipeRead
<1>3. CASE UNCHANGED recipeVars
  <2>1. UNCHANGED <<spec, step, cursor, skip, passed, left, cases, stream, drawn>>
    BY <1>3 DEF recipeVars
  <2>2. /\ Universe' = Universe /\ Enumeration' = Enumeration /\ (Rejected' <=> Rejected)
        /\ Past' = Past /\ (Positioned' <=> Positioned) /\ Whole' = Whole
    BY <2>1 DEF Universe, AllItems, Draws, Numeric, Values, Widest, Combination, Enumeration, Deterministic, Upto, Items, Targets,
                Rejected, Past, Selections, MaxMutations, Positioned, Whole
  <2>3. WindowInv => WindowInv'
    BY <2>1, <2>2 DEF WindowInv, WindowTypes, Matched, Staged
  <2> QED
    BY <2>1, <2>3 DEF RecipeRead
<1>4. Minimizing \/ Fail \/ Terminated \/ UNCHANGED vars => UNCHANGED recipeVars
  BY DEF Minimizing, Judge, Reduce, RunShows, Accept, RunFails, PlanFails, Reject, TryDrop,
         KeepLast, EndDrops, NextShrink, TryShrink, Finish, Fail, Terminated, vars
<1> QED
  BY <1>1, <1>2, <1>3, <1>4 DEF Next

(* A window of a recipe, wherever it starts, holds the cases that the      *)
(* whole enumeration has at its places, for any targets, any offset and    *)
(* any draws; it is short only when the enumeration could not go on.       *)
THEOREM WindowsMatch == Spec => []WindowMatches
<1>1. ASSUME WindowInv, step = "done"
      PROVE  WindowMatches
  <2> DEFINE E == Enumeration
             o == spec.offset
             n == Len(cases)
  <2>1. /\ spec \in Specs /\ o \in Nat /\ spec.samples \in Nat
        /\ passed \in Nat /\ skip \in Nat /\ n \in Nat /\ Past \in Nat
        /\ cases \in Seq(Universe) /\ stream \in Seq(Universe)
        /\ Deterministic \in Seq(Universe) /\ Past = Len(Deterministic)
    <3>1. /\ spec \in Specs /\ passed \in Nat /\ skip \in Nat
          /\ cases \in Seq(Universe) /\ stream \in Seq(Universe)
      BY <1>1 DEF WindowInv, WindowTypes
    <3> QED
      BY <3>1, SpecType, DeterministicType DEF Past
  <2>2. E \in Seq(Universe) /\ Len(E) = Past + Len(stream) /\ Len(stream) \in Nat /\ Len(E) \in Nat
    BY <2>1 DEF Enumeration
  <2>3. /\ skip + passed + Len(stream) = o + n
        /\ skip > 0 => n = 0
        /\ n <= spec.samples
        /\ \A i \in 1..n : cases[i] = E[o + i]
        /\ spec.samples > 0 /\ passed <= Past
        /\ n < spec.samples => passed = Past
        /\ stream # <<>> => passed = Past
        /\ n < spec.samples => spec.mutations = 0 \/ drawn = Whole - Past
    <3>1. /\ skip + passed + Len(stream) = o + n
          /\ skip > 0 => cases = <<>>
          /\ passed <= Past /\ (stream # <<>> => passed = Past)
          /\ n <= spec.samples
          /\ \A i \in 1..n : cases[i] = E[o + i]
      BY <1>1 DEF WindowInv, Matched
    <3>2. n < spec.samples => passed = Past /\ (spec.mutations = 0 \/ drawn = Whole - Past)
      BY <1>1 DEF WindowInv, Staged
    <3>3. spec.samples # 0
      BY <1>1 DEF WindowInv, Staged, Rejected
    <3>4. cases = <<>> => n = 0
      OBVIOUS
    <3> HIDE DEF E, n, o
    <3> QED
      BY <2>1, <3>1, <3>2, <3>3, <3>4
  <2>4. passed + Len(stream) <= Len(E) /\ (n < spec.samples => passed + Len(stream) = Len(E))
    <3>1. stream = <<>> => Len(stream) = 0
      OBVIOUS
    <3>2. /\ passed \in Nat /\ Past \in Nat /\ Len(E) = Past + Len(stream) /\ Len(stream) \in Nat
          /\ passed <= Past /\ (n < spec.samples => passed = Past)
      BY <2>1, <2>2, <2>3
    <3> HIDE DEF E, n, o
    <3> QED
      BY ONLY <3>2
  <2> DEFINE m == AtMost(o + spec.samples, Len(E))
  <2>5. m \in Nat /\ n \in Nat /\ o \in Nat
    BY <2>1, <2>2 DEF AtMost
  <2>6. m = o + n \/ (n = 0 /\ m <= o)
    <3>0. /\ skip \in Nat /\ n \in Nat /\ o \in Nat /\ spec.samples \in Nat /\ Len(E) \in Nat
          /\ passed + Len(stream) \in Nat
          /\ skip + (passed + Len(stream)) = o + n
          /\ skip > 0 => n = 0
          /\ n <= spec.samples /\ spec.samples > 0
      <4>1. /\ skip \in Nat /\ passed \in Nat /\ Len(stream) \in Nat
            /\ skip + passed + Len(stream) = o + n
        BY <2>1, <2>2, <2>3
      <4>2. skip + (passed + Len(stream)) = skip + passed + Len(stream)
        BY ONLY <4>1
      <4>3. passed + Len(stream) \in Nat
        BY ONLY <4>1
      <4> QED
        BY <2>1, <2>2, <2>3, <4>1, <4>2, <4>3, Zenon
    <3> DEFINE x == passed + Len(stream)
               z == Len(E)
               k == spec.samples
    <3>00. m = IF o + k < z THEN o + k ELSE z
      BY DEF AtMost
    <3>01. x <= z /\ (n < k => x = z)
      BY <2>4
    <3>02. /\ skip \in Nat /\ n \in Nat /\ o \in Nat /\ k \in Nat /\ z \in Nat /\ x \in Nat
           /\ skip + x = o + n
           /\ skip > 0 => n = 0
           /\ n <= k /\ k > 0
      BY <3>0
    <3> HIDE DEF E, n, o, m, x, z, k
    <3> QED
      BY ONLY <3>00, <3>01, <3>02
  <2>7. m <= Len(E)
    BY <2>1, <2>2 DEF AtMost
  <2>8. cases = SubSeq(E, o + 1, m)
    <3> DEFINE w == SubSeq(E, o + 1, m)
    <3>1. \A i \in (o + 1)..m : E[i] \in Universe
      <4> TAKE i \in (o + 1)..m
      <4>1. i \in 1..Len(E)
        <5> HIDE DEF E, o, m
        <5> QED
          BY <2>2, <2>5, <2>7
      <4> QED
        BY <2>2, <4>1
    <3>2. o + 1 \in Int /\ m \in Int
      BY <2>5
    <3> HIDE DEF E, o, m, n
    <3>3. /\ w \in Seq(Universe)
          /\ Len(w) = IF o + 1 <= m THEN m - (o + 1) + 1 ELSE 0
          /\ \A i \in 1..(m - (o + 1) + 1) : w[i] = E[(o + 1) + i - 1]
      BY ONLY <3>1, <3>2, SubSeqProperties DEF w
    <3> HIDE DEF w
    <3>4. Len(w) = n
      BY <2>5, <2>6, <3>3
    <3>5. \A i \in 1..n : i \in 1..(m - (o + 1) + 1) /\ (o + 1) + i - 1 = o + i
      BY <2>5, <2>6
    <3>6. \A i \in 1..n : cases[i] = w[i]
      BY <2>3, <3>3, <3>5, Zenon
    <3>7. cases \in Seq(Universe) /\ Len(cases) = n
      BY <2>1 DEF n
    <3>8. cases = w
      BY <3>3, <3>4, <3>6, <3>7, SeqEqual
    <3> QED
      BY <3>8 DEF w
  <2> QED
    BY <2>3, <2>8 DEF WindowMatches, Short, Past, Whole
<1>2. RecipeRead => WindowMatches
  BY <1>1 DEF RecipeRead, WindowMatches
<1>3. Init => RecipeRead
  BY WindowInit DEF Init, RecipeRead
<1> QED
  BY <1>2, <1>3, WindowStep, PTL DEF Spec

-----------------------------------------------------------------------------
(* The cases of a recipe.                                                  *)

(* Intents and cases, whose intents have different targets.                *)
Intents == [kind : {"set", "bits"}, target : Nat, value : Int]
Cases == {c \in Seq(Intents) : \A i, j \in 1..Len(c) : c[i].target = c[j].target => i = j}

LEMMA IntentType ==
  ASSUME NEW x \in Intents
  PROVE  x.kind \in {"set", "bits"} /\ x.target \in Nat /\ x.value \in Int
BY DEF Intents

LEMMA BoundariesType ==
  ASSUME NEW bits \in Nat
  PROVE  Boundaries(bits) \in Seq(Int)
<1>1. MaxValue(bits) \in Int
  BY DEF MaxValue
<1> QED
  BY <1>1 DEF Boundaries

LEMMA OneIntent ==
  ASSUME NEW x \in Intents
  PROVE  <<x>> \in Cases
BY DEF Cases

LEMMA ItemsAreCases ==
  ASSUME spec \in Specs
  PROVE  AllItems \subseteq Cases
<1> SUFFICES ASSUME NEW t \in Targets, NEW i \in DOMAIN Items(t)
             PROVE  Items(t)[i] \in Cases
  BY DEF AllItems
<1> DEFINE bits == spec.targets[t]
           values == Boundaries(bits)
           k == Len(values)
<1>1. t \in Nat /\ bits \in Nat /\ values \in Seq(Int) /\ k \in Nat
  <2>1. t \in Nat /\ bits \in Nat
    BY SpecType DEF Targets
  <2> HIDE DEF bits
  <2>2. values \in Seq(Int)
    BY <2>1, BoundariesType
  <2> HIDE DEF values
  <2> QED
    BY <2>1, <2>2
<1>2. bits # 0
  BY DEF Items
<1>3. Items(t) = [n \in 1..(k + bits) |-> IF n <= k THEN <<Set(t, values[n])>>
                                          ELSE <<Bit(t, n - k - 1)>>]
  BY <1>2 DEF Items
<1> HIDE DEF k, values, bits
<1>4. i \in 1..(k + bits) /\ i \in Nat
  BY <1>1, <1>3
<1>5. Items(t)[i] = IF i <= k THEN <<Set(t, values[i])>> ELSE <<Bit(t, i - k - 1)>>
  BY <1>3, <1>4
<1>6. CASE i <= k
  <2>1. values[i] \in Int
    BY <1>1, <1>4, <1>6 DEF k
  <2>2. Set(t, values[i]) \in Intents
    BY <1>1, <2>1 DEF Set, Intents
  <2> QED
    BY <1>5, <1>6, <2>2, OneIntent
<1>7. CASE ~(i <= k)
  <2>1. i - k - 1 \in Nat
    BY <1>1, <1>4, <1>7
  <2>2. 2 ^ (i - k - 1) \in Int
    BY <2>1
  <2>3. Bit(t, i - k - 1) \in Intents
    BY <1>1, <2>2 DEF Bit, Intents
  <2> QED
    BY <1>5, <1>7, <2>3, OneIntent
<1> QED
  BY <1>6, <1>7

(* The elements of a finite set of numbers in their order: every rank is   *)
(* taken.                                                                  *)
LEMMA Ranks ==
  ASSUME NEW S \in SUBSET Nat, IsFiniteSet(S)
  PROVE  /\ Cardinality(S) \in Nat
         /\ \A i \in 1..Cardinality(S) : \E t \in S : Cardinality({u \in S : u <= t}) = i
<1> DEFINE n == Cardinality(S)
           below(t) == {u \in S : u <= t}
           rank == [t \in S |-> Cardinality(below(t))]
<1>1. n \in Nat /\ IsFiniteSet(1..n) /\ Cardinality(1..n) = n
  <2>1. n \in Nat
    BY FS_CardinalityType
  <2>2. IsFiniteSet(1..n) /\ Cardinality(1..n) = IF 1 > n THEN 0 ELSE n - 1 + 1
    BY <2>1, FS_Interval
  <2> HIDE DEF n
  <2> QED
    BY <2>1, <2>2
<1>2. ASSUME NEW t \in S
      PROVE  rank[t] \in 1..n
  <2>1. below(t) \in SUBSET S /\ below(t) # {}
    OBVIOUS
  <2>2. IsFiniteSet(below(t)) /\ Cardinality(below(t)) <= n /\ Cardinality(below(t)) \in Nat
    BY <2>1, FS_Subset, FS_CardinalityType
  <2>3. Cardinality(below(t)) # 0
    BY <2>1, <2>2, FS_EmptySet
  <2> QED
    BY <1>1, <2>2, <2>3
<1>3. ASSUME NEW t \in S, NEW u \in S, t < u
      PROVE  rank[t] # rank[u]
  <2>1. below(t) \in SUBSET below(u) /\ u \in below(u) /\ u \notin below(t)
    <3>1. t \in Nat /\ u \in Nat /\ \A v \in S : v \in Nat
      OBVIOUS
    <3>2. \A v \in S : v <= t => v <= u
      BY <1>3, <3>1
    <3>3. u <= u /\ ~(u <= t)
      BY <1>3, <3>1
    <3> QED
      BY <3>2, <3>3
  <2>2. below(u) \in SUBSET S
    OBVIOUS
  <2>3. IsFiniteSet(below(u))
    BY <2>2, FS_Subset
  <2>4. Cardinality(below(u)) # Cardinality(below(t))
    BY <2>1, <2>3, FS_Subset
  <2> QED
    BY <2>4
<1> HIDE DEF rank
<1>4. rank \in Injection(S, 1..n)
  <2>1. rank \in [S -> 1..n]
    BY <1>2 DEF rank
  <2>2. ASSUME NEW t \in S, NEW u \in S, rank[t] = rank[u]
        PROVE  t = u
    BY <1>3, <2>2
  <2> QED
    BY <2>1, <2>2 DEF Injection, IsInjective
<1>5. rank \in Surjection(S, 1..n)
  BY <1>1, <1>4, FS_Injection
<1>6. \A i \in 1..n : \E t \in S : rank[t] = i
  BY <1>5 DEF Surjection
<1> QED
  BY <1>1, <1>6 DEF rank

LEMMA CombinationIsCase ==
  ASSUME spec \in Specs, NEW S \in SUBSET Targets, NEW top, NEW value \in [S -> 0..top]
  PROVE  Combination(S, value) \in Cases
<1> DEFINE n == Cardinality(S)
           nth(i) == CHOOSE t \in S : Cardinality({u \in S : u <= t}) = i
<1>1. IsFiniteSet(S) /\ S \in SUBSET Nat
  <2>1. Len(spec.targets) \in Nat
    BY SpecType
  <2>2. IsFiniteSet(1..Len(spec.targets)) /\ Targets = 1..Len(spec.targets)
    BY <2>1, FS_Interval DEF Targets
  <2>3. IsFiniteSet(S)
    BY <2>2, FS_Subset
  <2>4. S \in SUBSET Nat
    BY ONLY <2>1, <2>2, S \in SUBSET Targets
  <2> QED
    BY <2>3, <2>4
<1>2. n \in Nat /\ \A i \in 1..n : \E t \in S : Cardinality({u \in S : u <= t}) = i
  BY <1>1, Ranks
<1>3. \A i \in 1..n : nth(i) \in S /\ Cardinality({u \in S : u <= nth(i)}) = i
  BY <1>2
<1>4. Combination(S, value) = [i \in 1..n |-> Set(nth(i), value[nth(i)])]
  BY DEF Combination
<1> HIDE DEF nth, n
<1>5. ASSUME NEW i \in 1..n
      PROVE  LET x == Set(nth(i), value[nth(i)]) IN x \in Intents /\ x.target = nth(i)
  <2>1. nth(i) \in S /\ nth(i) \in Nat
    BY <1>1, <1>3
  <2>2. value[nth(i)] \in 0..top
    BY <2>1
  <2>3. value[nth(i)] \in Int
    BY <2>2
  <2> QED
    BY <2>1, <2>3 DEF Set, Intents
<1> DEFINE c == Combination(S, value)
<1>6. c \in Seq(Intents) /\ Len(c) = n /\ \A i \in 1..n : c[i].target = nth(i)
  <2>1. c \in [1..n -> Intents]
    BY <1>4, <1>5
  <2>2. \A i \in 1..n : c[i].target = nth(i)
    BY <1>4, <1>5
  <2> HIDE DEF c
  <2>3. c \in Seq(Intents)
    BY <1>2, <2>1
  <2>4. Len(c) = n
    BY <1>2, <2>1, <2>3, LenProperties
  <2> QED
    BY <2>2, <2>3, <2>4
<1>7. ASSUME NEW i \in 1..n, NEW j \in 1..n, nth(i) = nth(j)
      PROVE  i = j
  BY <1>3, <1>7
<1> HIDE DEF c
<1>8. \A i, j \in 1..Len(c) : c[i].target = c[j].target => i = j
  BY <1>6, <1>7
<1>9. c \in Cases
  BY <1>6, <1>8 DEF Cases
<1> QED
  BY <1>9 DEF c

LEMMA DrawsAreCases ==
  ASSUME spec \in Specs
  PROVE  Draws \subseteq Cases
<1>1. ASSUME NEW R \in Selections, NEW value \in Values(Numeric(R))
      PROVE  Combination(Numeric(R), value) \in Cases
  <2>1. Numeric(R) \in SUBSET Targets
    BY DEF Selections, Numeric
  <2>2. \E top : value \in [Numeric(R) -> 0..top]
    BY DEF Values
  <2> QED
    BY <2>1, <2>2, CombinationIsCase
<1> QED
  BY <1>1 DEF Draws

LEMMA UniverseIsCases ==
  ASSUME spec \in Specs
  PROVE  Universe \subseteq Cases
BY ItemsAreCases, DrawsAreCases DEF Universe

-----------------------------------------------------------------------------
(* What a steady oracle needs.                                             *)

Covers(need, c, J) ==
  \A t \in DOMAIN need : \E j \in J : c[j].target = t /\ c[j].value >= need[t]

LEMMA CaseType ==
  ASSUME NEW c \in Cases
  PROVE  /\ c \in Seq(Intents) /\ Len(c) \in Nat /\ DOMAIN c = 1..Len(c)
         /\ \A i \in 1..Len(c) : c[i] \in Intents /\ c[i].target \in Nat /\ c[i].value \in Int
         /\ \A i, j \in 1..Len(c) : c[i].target = c[j].target => i = j
<1>1. c \in Seq(Intents) /\ \A i, j \in 1..Len(c) : c[i].target = c[j].target => i = j
  BY DEF Cases
<1>2. \A i \in 1..Len(c) : c[i] \in Intents
  BY <1>1
<1> QED
  BY <1>1, <1>2, LenProperties, IntentType

LEMMA ShowsIsCovers ==
  ASSUME NEW c \in Cases
  PROVE  Shows(c) <=> Covers(oracle.need, c, 1..Len(c))
<1>1. /\ DOMAIN c = 1..Len(c)
      /\ \A i, j \in 1..Len(c) : c[i].target = c[j].target => i = j
  BY CaseType
<1>2. ASSUME NEW t, t \in Written(c)
      PROVE  \E j \in 1..Len(c) : c[j].target = t /\ Value(c, t) = c[j].value
  BY <1>1, <1>2 DEF Value, Written
<1>3. ASSUME NEW j \in 1..Len(c)
      PROVE  c[j].target \in Written(c) /\ Value(c, c[j].target) = c[j].value
  <2>1. \A i \in 1..Len(c) : c[i].target = c[j].target <=> i = j
    BY <1>1
  <2>2. (CHOOSE i \in DOMAIN c : c[i].target = c[j].target) = j
    BY <1>1, <2>1
  <2> QED
    BY <1>1, <2>2 DEF Value, Written
<1>4. Shows(c) => Covers(oracle.need, c, 1..Len(c))
  BY <1>2 DEF Shows, Covers
<1>5. Covers(oracle.need, c, 1..Len(c)) => Shows(c)
  BY <1>3 DEF Shows, Covers
<1> QED
  BY <1>4, <1>5

LEMMA WithoutAtIs ==
  ASSUME NEW c \in Seq(Intents), NEW i \in 1..Len(c)
  PROVE  /\ WithoutAt(c, i) \in Seq(Intents) /\ Len(WithoutAt(c, i)) = Len(c) - 1
         /\ \A k \in 1..(Len(c) - 1) : WithoutAt(c, i)[k] = c[IF k < i THEN k ELSE k + 1]
<1> DEFINE n == Len(c)
           a == SubSeq(c, 1, i - 1)
           b == SubSeq(c, i + 1, n)
<1>1. n \in Nat /\ i \in Nat /\ i \in 1..n /\ \A k \in 1..n : c[k] \in Intents
  OBVIOUS
<1>2. i - 1 \in Int /\ i + 1 \in Int /\ n \in Int /\ 1 \in Int
  BY <1>1
<1> HIDE DEF n
<1>3. \A k \in 1..(i - 1) : c[k] \in Intents
  BY <1>1
<1>4. \A k \in (i + 1)..n : c[k] \in Intents
  BY <1>1
<1>5. /\ a \in Seq(Intents)
      /\ Len(a) = IF 1 <= i - 1 THEN (i - 1) - 1 + 1 ELSE 0
      /\ \A k \in 1..((i - 1) - 1 + 1) : a[k] = c[1 + k - 1]
  BY <1>2, <1>3, SubSeqProperties
<1>6. /\ b \in Seq(Intents)
      /\ Len(b) = IF i + 1 <= n THEN n - (i + 1) + 1 ELSE 0
      /\ \A k \in 1..(n - (i + 1) + 1) : b[k] = c[(i + 1) + k - 1]
  BY <1>2, <1>4, SubSeqProperties
<1> HIDE DEF a, b
<1>7. Len(a) = i - 1 /\ Len(b) = n - i
  BY <1>1, <1>5, <1>6
<1>8. /\ a \o b \in Seq(Intents)
      /\ Len(a \o b) = Len(a) + Len(b)
      /\ \A k \in 1..(Len(a) + Len(b)) : (a \o b)[k] = IF k <= Len(a) THEN a[k] ELSE b[k - Len(a)]
  BY <1>5, <1>6, ConcatProperties
<1>9. Len(a) + Len(b) = n - 1
  BY <1>1, <1>7
<1>10. ASSUME NEW k \in 1..(n - 1)
       PROVE  (a \o b)[k] = c[IF k < i THEN k ELSE k + 1]
  <2>1. CASE k < i
    <3>1. k <= Len(a) /\ k \in 1..((i - 1) - 1 + 1) /\ 1 + k - 1 = k
      BY <1>1, <1>7, <2>1
    <3> QED
      BY <1>5, <1>8, <1>9, <2>1, <3>1
  <2>2. CASE ~(k < i)
    <3>1. ~(k <= Len(a)) /\ k - Len(a) \in 1..(n - (i + 1) + 1) /\ (i + 1) + (k - Len(a)) - 1 = k + 1
      BY <1>1, <1>7, <2>2
    <3> QED
      BY <1>6, <1>8, <1>9, <2>2, <3>1
  <2> QED
    BY <2>1, <2>2
<1>11. WithoutAt(c, i) = a \o b
  BY DEF WithoutAt, a, b, n
<1> QED
  BY <1>8, <1>9, <1>10, <1>11 DEF n

(* A case without one of its intents shows what the others do.             *)
LEMMA ShowsWithout ==
  ASSUME NEW c \in Cases, NEW i \in 1..Len(c)
  PROVE  /\ WithoutAt(c, i) \in Cases
         /\ Shows(WithoutAt(c, i)) <=> Covers(oracle.need, c, 1..Len(c) \ {i})
<1> DEFINE w == WithoutAt(c, i)
           n == Len(c)
           at(k) == IF k < i THEN k ELSE k + 1
<1>1. /\ c \in Seq(Intents) /\ n \in Nat /\ i \in 1..n
      /\ \A j, k \in 1..n : c[j].target = c[k].target => j = k
  BY CaseType
<1>2. w \in Seq(Intents) /\ Len(w) = n - 1 /\ \A k \in 1..(n - 1) : w[k] = c[at(k)]
  BY <1>1, WithoutAtIs
<1> HIDE DEF w, n
<1>3. \A k \in 1..(n - 1) : at(k) \in 1..n \ {i}
  BY <1>1
<1>4. \A j, k \in 1..(n - 1) : at(j) = at(k) => j = k
  BY <1>1
<1>5. \A j \in 1..n \ {i} : \E k \in 1..(n - 1) : at(k) = j
  <2> TAKE j \in 1..n \ {i}
  <2>1. CASE j < i
    <3>1. j \in 1..(n - 1) /\ at(j) = j
      BY <1>1, <2>1
    <3> QED
      BY <3>1
  <2>2. CASE ~(j < i)
    <3>1. j - 1 \in 1..(n - 1) /\ at(j - 1) = j
      BY <1>1, <2>2
    <3> QED
      BY <3>1
  <2> QED
    BY <2>1, <2>2
<1> HIDE DEF at
<1>6. w \in Cases
  <2>1. ASSUME NEW j \in 1..Len(w), NEW k \in 1..Len(w), w[j].target = w[k].target
        PROVE  j = k
    <3>1. j \in 1..(n - 1) /\ k \in 1..(n - 1)
      BY <1>2, <2>1
    <3>2. at(j) \in 1..n /\ at(k) \in 1..n /\ c[at(j)].target = c[at(k)].target
      BY <1>2, <1>3, <2>1, <3>1
    <3>3. at(j) = at(k)
      BY <1>1, <3>2
    <3> QED
      BY <1>4, <3>1, <3>3
  <2> QED
    BY <1>2, <2>1 DEF Cases
<1>7. Covers(oracle.need, w, 1..Len(w)) <=> Covers(oracle.need, c, 1..n \ {i})
  <2>1. ASSUME Covers(oracle.need, w, 1..(n - 1)) PROVE Covers(oracle.need, c, 1..n \ {i})
    BY <1>2, <1>3, <2>1 DEF Covers
  <2>2. ASSUME Covers(oracle.need, c, 1..n \ {i}) PROVE Covers(oracle.need, w, 1..(n - 1))
    BY <1>2, <1>5, <2>2 DEF Covers
  <2> QED
    BY <1>2, <2>1, <2>2
<1> QED
  BY <1>6, <1>7, ShowsIsCovers DEF w, n

(* What is left of an intent writes the same field with no larger value.   *)
LEMMA ShrinksType ==
  ASSUME NEW x \in Intents
  PROVE  LET Smaller == {y \in Intents : y.target = x.target /\ y.value <= x.value}
         IN  /\ Shrinks(x) \in Seq(Smaller)
             /\ Reduced(x) \subseteq Smaller
<1> DEFINE Smaller == {y \in Intents : y.target = x.target /\ y.value <= x.value}
           some(v) == IF v < x.value THEN <<[x EXCEPT !.value = v]>> ELSE <<>>
<1>1. x.kind \in {"set", "bits"} /\ x.target \in Nat /\ x.value \in Int
  BY IntentType
<1>2. ASSUME NEW v \in Int
      PROVE  some(v) \in Seq(Smaller)
  <2>1. CASE v < x.value
    <3>1. [x EXCEPT !.value = v] \in Smaller
      <4>1. x = [kind |-> x.kind, target |-> x.target, value |-> x.value]
        BY DEF Intents
      <4>2. [x EXCEPT !.value = v] = [kind |-> x.kind, target |-> x.target, value |-> v]
        BY <4>1
      <4>3. v <= x.value
        BY <1>1, <2>1
      <4> QED
        BY <1>1, <4>2, <4>3 DEF Intents
    <3> HIDE DEF Smaller
    <3>2. <<[x EXCEPT !.value = v]>> \in Seq(Smaller)
      BY <3>1
    <3> QED
      BY <2>1, <3>2
  <2>2. CASE ~(v < x.value)
    <3> HIDE DEF Smaller
    <3> QED
      BY <2>2
  <2> QED
    BY <2>1, <2>2
<1>3. x.value \div 2 \in Int
  BY <1>1
<1>4. Shrinks(x) = IF x.kind = "set" THEN some(0) \o some(1) \o some(x.value \div 2) ELSE <<>>
  BY DEF Shrinks
<1> HIDE DEF some, Smaller
<1>5. Shrinks(x) \in Seq(Smaller)
  <2>1. some(0) \in Seq(Smaller) /\ some(1) \in Seq(Smaller) /\ some(x.value \div 2) \in Seq(Smaller)
    BY <1>2, <1>3
  <2>2. some(0) \o some(1) \o some(x.value \div 2) \in Seq(Smaller)
    BY <2>1
  <2>3. <<>> \in Seq(Smaller)
    OBVIOUS
  <2> QED
    BY <1>4, <2>2, <2>3
<1>6. x \in Smaller
  BY <1>1 DEF Smaller
<1>7. \A j \in DOMAIN Shrinks(x) : Shrinks(x)[j] \in Smaller
  BY <1>5
<1>8. Reduced(x) \subseteq Smaller
  BY <1>6, <1>7 DEF Reduced
<1> QED
  BY <1>5, <1>8 DEF Smaller

-----------------------------------------------------------------------------
(* The reduction.                                                          *)

Steady == oracle.kind = "steady"

(* The places of the current intents in the source.                        *)
Places(f) ==
  /\ f \in [1..Len(current) -> 1..Len(source)]
  /\ \A i, j \in 1..Len(current) : i < j => f[i] < f[j]

Done == IF phase = "shrink" \/ phase = "done" THEN index ELSE 0
Passed(i) == phase = "shrink" \/ phase = "done" \/ (phase = "drop" /\ i < index)

(* Each of them is what it was, but for those that were shrunk; those that *)
(* the pass over the intents left behind it are all needed.                *)
Remains(f) ==
  /\ \A i \in 1..Len(current) :
       IF i <= Done THEN current[i] \in Reduced(source[f[i]]) ELSE current[i] = source[f[i]]
  /\ Steady /\ Len(current) > 1 =>
       \A i \in 1..Len(current) :
         Passed(i) => ~Covers(oracle.need, source, {f[j] : j \in 1..Len(current) \ {i}})
  /\ phase = "shrink" /\ index > 0 =>
       \A k \in 1..Len(todo) : todo[k] \in Reduced(source[f[index]])
  /\ phase = "shrink" /\ runs > 0 =>
       \E x \in Reduced(source[f[index]]) : trial = [current EXCEPT ![index] = x]

Indexed ==
  /\ index \in Nat
  /\ phase \in {"source", "drop"} => index > 0
  /\ phase = "shrink" => index <= Len(current)
  /\ phase = "done" => index = Len(current)
  /\ phase = "source" => index = 1 /\ trial = source /\ current = source
  /\ phase = "drop" /\ runs > 0 =>
       index <= Len(current) /\ Len(current) > 1 /\ trial = WithoutAt(current, index)
  /\ phase = "shrink" /\ runs > 0 => index > 0
  /\ phase = "shrink" /\ index = 0 => todo = <<>>
  /\ phase \in {"idle", "source", "drop"} => todo = <<>>

ReduceInv ==
  /\ phase = "idle" => todo = <<>>
  /\ phase \in Begun =>
       /\ source \in Cases
       /\ current \in Seq(Intents)
       /\ todo \in Seq(Intents)
       /\ Steady => \A t \in DOMAIN oracle.need : oracle.need[t] \in Int
       /\ runs \in Nat
       /\ Indexed
       /\ \E f : Places(f) /\ Remains(f)

(* A reduced case keeps its fields, with no larger values.                 *)
LEMMA CurrentType ==
  ASSUME source \in Cases, current \in Seq(Intents), NEW f, Places(f), Remains(f)
  PROVE  /\ current \in Cases
         /\ \A i \in 1..Len(current) : /\ f[i] \in 1..Len(source)
                                      /\ current[i].target = source[f[i]].target
                                      /\ current[i].value <= source[f[i]].value
<1>1. /\ \A i \in 1..Len(source) : source[i] \in Intents /\ source[i].value \in Int
      /\ \A i, j \in 1..Len(source) : source[i].target = source[j].target => i = j
      /\ Len(current) \in Nat
  BY CaseType
<1>2. \A i \in 1..Len(current) : f[i] \in 1..Len(source)
  BY DEF Places
<1>3. ASSUME NEW i \in 1..Len(current)
      PROVE  current[i].target = source[f[i]].target /\ current[i].value <= source[f[i]].value
  <2>1. source[f[i]] \in Intents /\ source[f[i]].value \in Int
    BY <1>1, <1>2
  <2>2. current[i] \in Reduced(source[f[i]]) \/ current[i] = source[f[i]]
    BY DEF Remains
  <2>3. CASE current[i] \in Reduced(source[f[i]])
    BY <2>1, <2>3, ShrinksType
  <2>4. CASE current[i] = source[f[i]]
    BY <2>1, <2>4
  <2> QED
    BY <2>2, <2>3, <2>4
<1>4. ASSUME NEW i \in 1..Len(current), NEW j \in 1..Len(current), i # j
      PROVE  f[i] # f[j]
  <2>1. i < j \/ j < i
    BY <1>4
  <2>2. f[i] \in Int /\ f[j] \in Int
    BY <1>2
  <2>3. f[i] < f[j] \/ f[j] < f[i]
    BY <2>1 DEF Places
  <2> QED
    BY <2>2, <2>3
<1>5. ASSUME NEW i \in 1..Len(current), NEW j \in 1..Len(current),
             current[i].target = current[j].target
      PROVE  i = j
  <2>1. source[f[i]].target = source[f[j]].target
    BY <1>3, <1>5
  <2>2. f[i] = f[j]
    BY <1>1, <1>2, <2>1
  <2> QED
    BY <1>4, <2>2
<1>6. current \in Cases
  BY <1>5 DEF Cases
<1> QED
  BY <1>2, <1>3, <1>6

LEMMA ReduceResult ==
  ASSUME ReduceInv
  PROVE  ResultIsReduced
<1> SUFFICES ASSUME phase = "done"
             PROVE  /\ \E f \in [DOMAIN current -> DOMAIN source] :
                         /\ \A i, j \in DOMAIN current : i < j => f[i] < f[j]
                         /\ \A i \in DOMAIN current : current[i] \in Reduced(source[f[i]])
                    /\ oracle.kind = "steady" /\ Len(current) > 1 =>
                         \A i \in DOMAIN current : ~Shows(WithoutAt(current, i))
  BY DEF ResultIsReduced
<1>1. /\ source \in Cases /\ current \in Seq(Intents)
      /\ Steady => \A t \in DOMAIN oracle.need : oracle.need[t] \in Int
      /\ index = Len(current)
  BY DEF ReduceInv, Begun, Indexed
<1>2. PICK f : Places(f) /\ Remains(f)
  BY DEF ReduceInv, Begun
<1>3. DOMAIN current = 1..Len(current) /\ DOMAIN source = 1..Len(source) /\ Len(current) \in Nat
  BY <1>1, CaseType
<1>4. \A i \in 1..Len(current) : current[i] \in Reduced(source[f[i]])
  <2>1. Done = Len(current)
    BY <1>1 DEF Done
  <2>2. \A i \in 1..Len(current) : i <= Done
    BY <1>3, <2>1
  <2> QED
    BY <1>2, <2>2 DEF Remains
<1>5. ASSUME Steady, Len(current) > 1, NEW i \in 1..Len(current), Shows(WithoutAt(current, i))
      PROVE  FALSE
  <2>1. /\ current \in Cases
        /\ \A k \in 1..Len(current) : /\ f[k] \in 1..Len(source)
                                     /\ current[k].target = source[f[k]].target
                                     /\ current[k].value <= source[f[k]].value
    BY <1>1, <1>2, CurrentType
  <2>2. Covers(oracle.need, current, 1..Len(current) \ {i})
    BY <1>5, <2>1, ShowsWithout
  <2>3. \A k \in 1..Len(current) : current[k].value \in Int /\ source[f[k]].value \in Int
    BY <1>1, <2>1, CaseType
  <2>4. Covers(oracle.need, source, {f[j] : j \in 1..Len(current) \ {i}})
    <3> SUFFICES ASSUME NEW t \in DOMAIN oracle.need
                 PROVE  \E j \in {f[k] : k \in 1..Len(current) \ {i}} :
                          source[j].target = t /\ source[j].value >= oracle.need[t]
      BY DEF Covers
    <3>1. PICK k \in 1..Len(current) \ {i} :
                 current[k].target = t /\ current[k].value >= oracle.need[t]
      BY <2>2 DEF Covers
    <3>2. oracle.need[t] \in Int
      BY <1>1, <1>5
    <3>3. source[f[k]].target = t /\ source[f[k]].value >= oracle.need[t]
      BY <2>1, <2>3, <3>1, <3>2
    <3> QED
      BY <3>3
  <2>5. ~Covers(oracle.need, source, {f[j] : j \in 1..Len(current) \ {i}})
    BY <1>2, <1>5 DEF Remains, Passed
  <2> QED
    BY <2>4, <2>5
<1>6. \A i, j \in 1..Len(current) : i < j => f[i] < f[j]
  BY <1>2 DEF Places
<1>7. f \in [1..Len(current) -> 1..Len(source)]
  BY <1>2 DEF Places
<1> QED
  BY <1>3, <1>4, <1>5, <1>6, <1>7 DEF Steady

(* What the invariant says while a case is minimized.                      *)
LEMMA ReduceFacts ==
  ASSUME ReduceInv, phase \in Begun
  PROVE  /\ source \in Cases /\ current \in Seq(Intents) /\ todo \in Seq(Intents)
         /\ Len(current) \in Nat /\ Len(todo) \in Nat /\ runs \in Nat /\ index \in Nat
         /\ Steady => \A t \in DOMAIN oracle.need : oracle.need[t] \in Int
         /\ Indexed
         /\ \E f : Places(f) /\ Remains(f)
BY DEF ReduceInv, Indexed

LEMMA RunShowsReduces ==
  ASSUME ReduceInv, phase \in Working, RunShows
  PROVE  ReduceInv'
<1>1. phase \in Begun
  BY DEF Begun
<1>2. /\ runs' = runs - 1 /\ runs > 1
      /\ UNCHANGED <<phase, source, oracle, current, index, todo, trial>>
  BY DEF RunShows
<1>3. runs \in Nat /\ runs' \in Nat /\ runs > 0
  <2>1. runs \in Nat /\ runs > 1
    BY <1>1, <1>2, ReduceFacts
  <2>2. runs - 1 \in Nat /\ runs > 0
    BY ONLY <2>1
  <2> QED
    BY <1>2, <2>1, <2>2
<1>4. Indexed'
  BY <1>1, <1>2, <1>3, ReduceFacts DEF Indexed, WithoutAt
<1>5. ASSUME NEW f, Places(f), Remains(f)
      PROVE  (Places(f) /\ Remains(f))'
  BY <1>2, <1>3, <1>5 DEF Places, Remains, Done, Passed, Steady
<1>6. (\E f : Places(f) /\ Remains(f))'
  BY <1>1, <1>5, ReduceFacts
<1> QED
  BY <1>1, <1>2, <1>3, <1>4, <1>6, ReduceFacts DEF ReduceInv, Steady, Cases, Working

(* An oracle that is steady shows the same each time.                      *)
LEMMA SteadyAnswers ==
  ASSUME Steady, FALSE \in Answers
  PROVE  ~Shows(trial)
BY DEF Steady, Answers

LEMMA RejectReduces ==
  ASSUME ReduceInv, phase \in Working, runs > 0, FALSE \in Answers, Reject
  PROVE  ReduceInv'
<1>1. /\ runs' = 0
      /\ phase' = IF phase = "source" THEN "failed" ELSE phase
      /\ index' = IF phase = "drop" THEN index + 1 ELSE index
      /\ UNCHANGED <<source, oracle, current, todo, trial>>
  BY DEF Reject
<1>2. /\ source \in Cases /\ current \in Seq(Intents) /\ todo \in Seq(Intents)
      /\ Len(current) \in Nat /\ runs \in Nat /\ index \in Nat
      /\ Steady => \A t \in DOMAIN oracle.need : oracle.need[t] \in Int
      /\ Indexed
      /\ \E f : Places(f) /\ Remains(f)
  BY ReduceFacts DEF Begun
<1>3. CASE phase = "source"
  BY <1>1, <1>3 DEF ReduceInv, Begun, Working
<1>4. CASE phase = "shrink"
  <2>1. phase' = phase /\ index' = index
    BY <1>1, <1>4
  <2>2. Indexed'
    BY <1>1, <1>2, <1>4, <2>1 DEF Indexed
  <2>3. ASSUME NEW f, Places(f), Remains(f)
        PROVE  (Places(f) /\ Remains(f))'
    BY <1>1, <1>4, <2>1, <2>3 DEF Places, Remains, Done, Passed, Steady
  <2>4. (\E f : Places(f) /\ Remains(f))'
    BY <1>2, <2>3
  <2> QED
    BY <1>1, <1>2, <1>4, <2>1, <2>2, <2>4 DEF ReduceInv, Steady, Cases
<1>5. CASE phase = "drop"
  <2>1. phase' = phase /\ index' = index + 1
    BY <1>1, <1>5
  <2>2. index > 0 /\ index <= Len(current) /\ trial = WithoutAt(current, index) /\ todo = <<>>
    BY <1>2, <1>5 DEF Indexed
  <2>3. Indexed'
    <3>1. index + 1 \in Nat /\ index + 1 > 0
      BY <1>2
    <3> QED
      BY <1>1, <1>5, <2>1, <2>2, <3>1 DEF Indexed
  <2>4. ASSUME NEW f, Places(f), Remains(f)
        PROVE  (Places(f) /\ Remains(f))'
    <3>1. Places(f)'
      BY <1>1, <2>4 DEF Places
    <3>2. \A i \in 1..Len(current) : current[i] = source[f[i]]
      BY <1>5, <2>4 DEF Remains, Done
    <3>3. Steady => ~Covers(oracle.need, source, {f[j] : j \in 1..Len(current) \ {index}})
      <4> HAVE Steady
      <4>1. ~Shows(trial)
        BY SteadyAnswers
      <4>2. current \in Cases /\ index \in 1..Len(current)
        BY <1>2, <2>2, <2>4, CurrentType
      <4>3. ~Covers(oracle.need, current, 1..Len(current) \ {index})
        BY <2>2, <4>1, <4>2, ShowsWithout
      <4> QED
        BY <3>2, <4>3 DEF Covers
    <3>4. \A i \in 1..Len(current) : i < index + 1 => i < index \/ i = index
      BY <1>2
    <3>5. Steady /\ Len(current) > 1 =>
            \A i \in 1..Len(current) :
              i < index + 1 => ~Covers(oracle.need, source, {f[j] : j \in 1..Len(current) \ {i}})
      BY <1>5, <2>4, <3>3, <3>4 DEF Remains, Passed
    <3>6. Remains(f)'
      <4>1. Done = 0 /\ Done' = 0
        BY <1>5, <2>1 DEF Done
      <4>2. \A i \in 1..Len(current) : Passed(i)' => i < index + 1
        BY <1>5, <2>1 DEF Passed
      <4>3. \A i \in 1..Len(current) :
                 IF i <= Done' THEN current'[i] \in Reduced(source[f[i]]) ELSE current'[i] = source[f[i]]
        BY <1>1, <3>2, <4>1
      <4>4. Steady /\ Len(current) > 1 =>
               \A i \in 1..Len(current) :
                 Passed(i)' => ~Covers(oracle.need, source, {f[j] : j \in 1..Len(current) \ {i}})
        BY <3>5, <4>2
      <4>5. phase' = "drop" /\ UNCHANGED <<source, oracle, current>> /\ (Steady' <=> Steady)
        BY <1>1, <1>5, <2>1 DEF Steady
      <4> QED
        BY <4>3, <4>4, <4>5 DEF Remains
    <3> QED
      BY <3>1, <3>6
  <2>5. (\E f : Places(f) /\ Remains(f))'
    BY <1>2, <2>4
  <2> QED
    BY <1>1, <1>2, <1>5, <2>1, <2>3, <2>5 DEF ReduceInv, Steady, Cases
<1> QED
  BY <1>3, <1>4, <1>5 DEF Working

LEMMA AcceptReduces ==
  ASSUME ReduceInv, phase \in Working, Accept
  PROVE  ReduceInv'
<1>1. /\ runs = 1 /\ runs' = 0 /\ current' = trial
      /\ phase' = IF phase = "source" THEN "drop" ELSE phase
      /\ UNCHANGED <<source, oracle, index, todo, trial>>
  BY DEF Accept
<1>2. /\ source \in Cases /\ current \in Seq(Intents) /\ todo \in Seq(Intents)
      /\ Len(current) \in Nat /\ runs \in Nat /\ index \in Nat /\ runs > 0
      /\ Steady => \A t \in DOMAIN oracle.need : oracle.need[t] \in Int
      /\ Indexed
      /\ \E f : Places(f) /\ Remains(f)
  <2>1. runs > 0
    BY <1>1
  <2> QED
    BY <2>1, ReduceFacts DEF Begun
<1>3. CASE phase = "source"
  <2>1. phase' = "drop" /\ index = 1 /\ trial = source /\ current = source /\ todo = <<>>
    BY <1>1, <1>2, <1>3 DEF Indexed
  <2>2. current' = current /\ index' = 1
    BY <1>1, <2>1
  <2>3. Indexed'
    BY <1>1, <2>1, <2>2 DEF Indexed
  <2>4. ASSUME NEW f, Places(f), Remains(f)
        PROVE  (Places(f) /\ Remains(f))'
    <3>1. Done = 0 /\ Done' = 0
      BY <1>3, <2>1 DEF Done
    <3>2. \A i \in 1..Len(current) : ~Passed(i)'
      BY <1>2, <2>1, <2>2 DEF Passed
    <3>3. Places(f)'
      BY <1>1, <2>2, <2>4 DEF Places
    <3>4. Remains(f)'
      BY <1>1, <2>1, <2>2, <2>4, <3>1, <3>2 DEF Remains
    <3> QED
      BY <3>3, <3>4
  <2>5. (\E f : Places(f) /\ Remains(f))'
    BY <1>2, <2>4
  <2> QED
    BY <1>1, <1>2, <2>1, <2>2, <2>3, <2>5 DEF ReduceInv, Steady, Cases
<1>4. CASE phase = "drop"
  <2> DEFINE n == Len(current)
             at == [k \in 1..(n - 1) |-> IF k < index THEN k ELSE k + 1]
  <2>1. /\ phase' = "drop" /\ index' = index /\ todo' = <<>>
        /\ index \in 1..n /\ n > 1 /\ current' = WithoutAt(current, index)
    BY <1>1, <1>2, <1>4 DEF Indexed
  <2>2. /\ current' \in Seq(Intents) /\ Len(current') = n - 1
        /\ \A k \in 1..(n - 1) : current'[k] = current[at[k]]
    BY <1>2, <2>1, WithoutAtIs
  <2>3. /\ \A k \in 1..(n - 1) : at[k] \in 1..n /\ (k < index => at[k] = k)
        /\ \A j, k \in 1..(n - 1) : j < k => at[j] < at[k]
    BY <1>2, <2>1
  <2>4. Indexed'
    BY <1>1, <1>2, <2>1 DEF Indexed
  <2> HIDE DEF at
  <2>5. ASSUME NEW f, Places(f), Remains(f)
        PROVE  (\E g : Places(g) /\ Remains(g))'
    <3>1. PICK g : g = [k \in 1..(n - 1) |-> f[at[k]]]
      OBVIOUS
    <3>2. /\ f \in [1..n -> 1..Len(source)]
          /\ \A i, j \in 1..n : i < j => f[i] < f[j]
      BY <2>5 DEF Places
    <3>3. Places(g)'
      BY <1>1, <2>2, <2>3, <3>1, <3>2 DEF Places
    <3>4. \A i \in 1..n : current[i] = source[f[i]]
      BY <1>4, <2>5 DEF Remains, Done
    <3>5. \A k \in 1..(n - 1) : current'[k] = source[g[k]]
      BY <2>2, <2>3, <3>1, <3>4
    <3>6. Done' = 0 /\ n \in Nat
      BY <1>2, <2>1 DEF Done
    <3>7. ASSUME Steady, NEW i \in 1..(n - 1), i < index,
                 Covers(oracle.need, source, {g[j] : j \in 1..(n - 1) \ {i}})
          PROVE  FALSE
      <4>1. \A j \in 1..(n - 1) \ {i} : g[j] = f[at[j]] /\ at[j] \in 1..n \ {i}
        <5>1. \A j \in 1..(n - 1) : i # j => at[i] # at[j]
          <6>1. \A j \in 1..(n - 1) : at[i] \in Int /\ at[j] \in Int
            BY <2>3
          <6>2. \A j \in 1..(n - 1) : i # j => i < j \/ j < i
            OBVIOUS
          <6> QED
            BY <2>3, <6>1, <6>2
        <5>2. at[i] = i
          BY <2>3, <3>7
        <5> QED
          BY <2>3, <3>1, <5>1, <5>2
      <4>2. {g[j] : j \in 1..(n - 1) \ {i}} \subseteq {f[j] : j \in 1..n \ {i}}
        BY <4>1
      <4>3. Covers(oracle.need, source, {f[j] : j \in 1..n \ {i}})
        BY <3>7, <4>2 DEF Covers
      <4>4. i \in 1..n /\ Passed(i)
        BY <1>4, <3>6, <3>7 DEF Passed
      <4> QED
        BY <2>1, <2>5, <3>7, <4>3, <4>4 DEF Remains
    <3>8. Remains(g)'
      <4>1. \A i \in 1..(n - 1) : Passed(i)' => i < index
        BY <2>1 DEF Passed
      <4>2. \A i \in 1..(n - 1) : ~(i <= Done')
        BY <3>6
      <4>3. Steady =>
              \A i \in 1..(n - 1) :
                Passed(i)' => ~Covers(oracle.need, source, {g[j] : j \in 1..(n - 1) \ {i}})
        BY <3>7, <4>1
      <4>4. /\ phase' = "drop" /\ UNCHANGED <<source, oracle>> /\ (Steady' <=> Steady)
            /\ Len(current') = n - 1
        BY <1>1, <2>1, <2>2 DEF Steady
      <4> HIDE DEF n
      <4> QED
        BY <3>5, <4>2, <4>3, <4>4 DEF Remains
    <3> QED
      BY <3>3, <3>8
  <2>6. (\E g : Places(g) /\ Remains(g))'
    BY <1>2, <2>5
  <2> QED
    BY <1>1, <1>2, <2>1, <2>2, <2>4, <2>6 DEF ReduceInv, Steady, Cases
<1>5. CASE phase = "shrink"
  <2>1. phase' = "shrink" /\ index \in 1..Len(current) /\ index > 0
    BY <1>1, <1>2, <1>5 DEF Indexed
  <2>2. ASSUME NEW f, Places(f), Remains(f)
        PROVE  /\ current' \in Seq(Intents) /\ Len(current') = Len(current)
               /\ (Places(f) /\ Remains(f))'
    <3>1. PICK x \in Reduced(source[f[index]]) : current' = [current EXCEPT ![index] = x]
      BY <1>1, <1>2, <1>5, <2>2 DEF Remains
    <3>2. x \in Intents
      <4>1. source[f[index]] \in Intents
        BY <1>2, <2>1, <2>2, CaseType DEF Places
      <4> QED
        BY <4>1, ShrinksType
    <3>3. /\ current' \in Seq(Intents) /\ Len(current') = Len(current)
          /\ \A j \in 1..Len(current) : current'[j] = IF j = index THEN x ELSE current[j]
      BY <1>2, <2>1, <3>1, <3>2, ExceptSeq
    <3>4. Done = index /\ Done' = index
      BY <1>1, <1>5, <2>1 DEF Done
    <3>5. Places(f)'
      BY <1>1, <2>2, <3>3 DEF Places
    <3>6. \A i \in 1..Len(current) :
            IF i <= index THEN current'[i] \in Reduced(source[f[i]]) ELSE current'[i] = source[f[i]]
      <4>1. \A i \in 1..Len(current) :
              IF i <= index THEN current[i] \in Reduced(source[f[i]]) ELSE current[i] = source[f[i]]
        BY <2>2, <3>4 DEF Remains
      <4>2. index <= index
        BY <1>2
      <4> QED
        BY <3>1, <3>3, <4>1, <4>2
    <3>7. \A i : Passed(i) /\ Passed(i)'
      BY <1>5, <2>1 DEF Passed
    <3>8. Remains(f)'
      <4>1. /\ UNCHANGED <<source, oracle, index, todo>> /\ (Steady' <=> Steady)
            /\ phase' = phase /\ ~(runs' > 0)
        BY <1>1, <1>5, <2>1 DEF Steady
      <4>2. Steady /\ Len(current) > 1 =>
              \A i \in 1..Len(current) :
                ~Covers(oracle.need, source, {f[j] : j \in 1..Len(current) \ {i}})
        BY <2>2, <3>7 DEF Remains
      <4>3. phase = "shrink" /\ index > 0 =>
              \A k \in 1..Len(todo) : todo[k] \in Reduced(source[f[index]])
        BY <2>2 DEF Remains
      <4> QED
        BY <3>3, <3>4, <3>6, <4>1, <4>2, <4>3 DEF Remains
    <3> QED
      BY <3>3, <3>5, <3>8
  <2>3. /\ current' \in Seq(Intents) /\ Len(current') = Len(current)
        /\ (\E f : Places(f) /\ Remains(f))'
    BY <1>2, <2>2
  <2>4. Indexed'
    BY <1>1, <1>2, <1>5, <2>1, <2>3 DEF Indexed
  <2> QED
    BY <1>1, <1>2, <2>1, <2>3, <2>4 DEF ReduceInv, Steady, Cases
<1> QED
  BY <1>3, <1>4, <1>5 DEF Working

LEMMA TryDropReduces ==
  ASSUME ReduceInv, confirms \in Nat, TryDrop
  PROVE  ReduceInv'
<1>1. /\ UNCHANGED <<phase, source, oracle, current, index, todo>>
      /\ phase = "drop" /\ runs' = confirms /\ trial' = WithoutAt(current, index)
      /\ index <= Len(current) /\ Len(current) > 1
  BY DEF TryDrop, Try, Dropping
<1>2. /\ source \in Cases /\ current \in Seq(Intents) /\ todo \in Seq(Intents)
      /\ Steady => \A t \in DOMAIN oracle.need : oracle.need[t] \in Int
      /\ Indexed
      /\ \E f : Places(f) /\ Remains(f)
  BY <1>1, ReduceFacts DEF Begun, Working
<1>3. Indexed'
  BY <1>1, <1>2 DEF Indexed
<1>4. ASSUME NEW f, Places(f), Remains(f)
      PROVE  (Places(f) /\ Remains(f))'
  BY <1>1, <1>4 DEF Places, Remains, Done, Passed, Steady
<1>5. (\E f : Places(f) /\ Remains(f))'
  BY <1>2, <1>4
<1> QED
  BY <1>1, <1>2, <1>3, <1>5 DEF ReduceInv, Steady, Cases

LEMMA TryShrinkReduces ==
  ASSUME ReduceInv, confirms \in Nat, TryShrink
  PROVE  ReduceInv'
<1>1. /\ UNCHANGED <<phase, source, oracle, current, index>>
      /\ phase = "shrink" /\ runs' = confirms /\ todo # <<>>
      /\ trial' = [current EXCEPT ![index] = Head(todo)] /\ todo' = Tail(todo)
  BY DEF TryShrink, Try, Shrinking
<1>2. /\ source \in Cases /\ current \in Seq(Intents) /\ todo \in Seq(Intents)
      /\ index \in Nat
      /\ Steady => \A t \in DOMAIN oracle.need : oracle.need[t] \in Int
      /\ Indexed
      /\ \E f : Places(f) /\ Remains(f)
  BY <1>1, ReduceFacts DEF Begun, Working
<1>3. index > 0
  BY <1>1, <1>2 DEF Indexed
<1>4. /\ todo' \in Seq(Intents) /\ Len(todo) \in Nat /\ Len(todo) > 0
      /\ Head(todo) = todo[1] /\ Len(todo') = Len(todo) - 1
      /\ \A k \in 1..(Len(todo) - 1) : todo'[k] = todo[k + 1]
  BY <1>1, <1>2
<1>5. Indexed'
  BY <1>1, <1>2, <1>3 DEF Indexed
<1>6. ASSUME NEW f, Places(f), Remains(f)
      PROVE  (Places(f) /\ Remains(f))'
  <2>1. \A k \in 1..Len(todo) : todo[k] \in Reduced(source[f[index]])
    BY <1>1, <1>3, <1>6 DEF Remains
  <2>2. \A k \in 1..Len(todo') : todo'[k] \in Reduced(source[f[index]])
    BY <1>4, <2>1
  <2>3. \E x \in Reduced(source[f[index]]) : trial' = [current EXCEPT ![index] = x]
    <3>1. 1 \in 1..Len(todo)
      BY <1>4
    <3>2. Head(todo) \in Reduced(source[f[index]])
      BY <1>4, <2>1, <3>1
    <3>3. trial' = [current EXCEPT ![index] = Head(todo)]
      BY <1>1
    <3> QED
      BY <3>2, <3>3
  <2>4. Places(f)'
    BY <1>1, <1>6 DEF Places
  <2>5. Remains(f)'
    BY <1>1, <1>6, <2>2, <2>3 DEF Remains, Done, Passed, Steady
  <2> QED
    BY <2>4, <2>5
<1>7. (\E f : Places(f) /\ Remains(f))'
  BY <1>2, <1>6
<1> QED
  BY <1>1, <1>2, <1>4, <1>5, <1>7 DEF ReduceInv, Steady, Cases

LEMMA KeepLastReduces ==
  ASSUME ReduceInv, KeepLast
  PROVE  ReduceInv'
<1>1. /\ UNCHANGED <<phase, source, oracle, current, todo, trial, runs>>
      /\ phase = "drop" /\ runs = 0 /\ Len(current) = 1 /\ index' = index + 1
  BY DEF KeepLast, Dropping, Judged
<1>2. /\ source \in Cases /\ current \in Seq(Intents) /\ todo \in Seq(Intents)
      /\ index \in Nat /\ runs \in Nat
      /\ Steady => \A t \in DOMAIN oracle.need : oracle.need[t] \in Int
      /\ Indexed
      /\ \E f : Places(f) /\ Remains(f)
  BY <1>1, ReduceFacts DEF Begun, Working
<1>3. index' \in Nat /\ index' > 0
  BY <1>1, <1>2
<1>4. Indexed'
  BY <1>1, <1>2, <1>3 DEF Indexed
<1>5. ASSUME NEW f, Places(f), Remains(f)
      PROVE  (Places(f) /\ Remains(f))'
  BY <1>1, <1>5 DEF Places, Remains, Done, Passed, Steady
<1>6. (\E f : Places(f) /\ Remains(f))'
  BY <1>2, <1>5
<1> QED
  BY <1>1, <1>2, <1>4, <1>6 DEF ReduceInv, Steady, Cases

LEMMA EndDropsReduces ==
  ASSUME ReduceInv, EndDrops
  PROVE  ReduceInv'
<1>1. /\ UNCHANGED <<source, oracle, current, todo, trial, runs>>
      /\ phase = "drop" /\ runs = 0 /\ index > Len(current)
      /\ phase' = "shrink" /\ index' = 0
  BY DEF EndDrops, Dropping, Judged
<1>2. /\ source \in Cases /\ current \in Seq(Intents) /\ todo \in Seq(Intents)
      /\ index \in Nat /\ runs \in Nat /\ Len(current) \in Nat
      /\ Steady => \A t \in DOMAIN oracle.need : oracle.need[t] \in Int
      /\ Indexed
      /\ \E f : Places(f) /\ Remains(f)
  BY <1>1, ReduceFacts DEF Begun, Working
<1>3. Indexed'
  BY <1>1, <1>2 DEF Indexed
<1>4. ASSUME NEW f, Places(f), Remains(f)
      PROVE  (Places(f) /\ Remains(f))'
  <2>1. Done = 0 /\ Done' = 0
    BY <1>1 DEF Done
  <2>2. \A i \in 1..Len(current) : Passed(i)
    BY <1>1, <1>2 DEF Passed
  <2>3. Places(f)'
    BY <1>1, <1>4 DEF Places
  <2>4. Remains(f)'
    BY <1>1, <1>4, <2>1, <2>2 DEF Remains, Steady
  <2> QED
    BY <2>3, <2>4
<1>5. (\E f : Places(f) /\ Remains(f))'
  BY <1>2, <1>4
<1> QED
  BY <1>1, <1>2, <1>3, <1>5 DEF ReduceInv, Steady, Cases

LEMMA NextShrinkReduces ==
  ASSUME ReduceInv, NextShrink
  PROVE  ReduceInv'
<1>1. /\ UNCHANGED <<phase, source, oracle, current, trial, runs>>
      /\ phase = "shrink" /\ runs = 0 /\ index < Len(current)
      /\ index' = index + 1 /\ todo' = Shrinks(current[index'])
  BY DEF NextShrink, Shrinking, Judged
<1>2. /\ source \in Cases /\ current \in Seq(Intents) /\ todo \in Seq(Intents)
      /\ index \in Nat /\ runs \in Nat /\ Len(current) \in Nat
      /\ Steady => \A t \in DOMAIN oracle.need : oracle.need[t] \in Int
      /\ Indexed
      /\ \E f : Places(f) /\ Remains(f)
  BY <1>1, ReduceFacts DEF Begun, Working
<1>3. index' \in Nat /\ index' > 0 /\ index' <= Len(current) /\ index' \in 1..Len(current)
  <2>1. index + 1 \in Nat /\ index + 1 > 0 /\ index + 1 <= Len(current) /\ index + 1 \in 1..Len(current)
    BY <1>1, <1>2
  <2> QED
    BY <1>1, <2>1
<1>4. todo' \in Seq(Intents)
  <2>1. current[index'] \in Intents
    BY <1>2, <1>3
  <2> DEFINE x == current[index']
             Smaller == {y \in Intents : y.target = x.target /\ y.value <= x.value}
  <2>2. Shrinks(x) \in Seq(Smaller)
    BY <2>1, ShrinksType
  <2>3. Smaller \subseteq Intents
    OBVIOUS
  <2> HIDE DEF Smaller
  <2>4. Shrinks(x) \in Seq(Intents)
    BY <2>2, <2>3, SeqMonotonic
  <2> QED
    BY <1>1, <2>4
<1>5. Indexed'
  BY <1>1, <1>2, <1>3 DEF Indexed
<1>6. ASSUME NEW f, Places(f), Remains(f)
      PROVE  (Places(f) /\ Remains(f))'
  <2>1. Done = index /\ Done' = index'
    BY <1>1 DEF Done
  <2>2. current[index'] = source[f[index']]
    <3>1. ~(index' <= Done)
      BY <1>1, <1>2, <2>1
    <3> QED
      BY <1>3, <1>6, <3>1 DEF Remains
  <2>3. \A i \in 1..Len(current) : current[i] = source[f[i]] => current[i] \in Reduced(source[f[i]])
    BY DEF Reduced
  <2>4. \A i \in 1..Len(current) :
          IF i <= Done' THEN current[i] \in Reduced(source[f[i]]) ELSE current[i] = source[f[i]]
    <3>1. \A i \in 1..Len(current) : i <= Done' => i <= Done \/ i = index'
      BY <1>1, <1>2, <2>1
    <3>2. \A i \in 1..Len(current) : i <= Done => i <= Done'
      BY <1>1, <1>2, <2>1
    <3> QED
      BY <1>6, <2>2, <2>3, <3>1, <3>2 DEF Remains
  <2>5. \A k \in 1..Len(todo') : todo'[k] \in Reduced(source[f[index']])
    <3>1. DOMAIN todo' = 1..Len(todo')
      BY <1>4
    <3> QED
      BY <1>1, <2>2, <3>1 DEF Reduced
  <2>6. Places(f)'
    BY <1>1, <1>6 DEF Places
  <2>7. Remains(f)'
    <3>1. Steady /\ Len(current) > 1 =>
            \A i \in 1..Len(current) :
              ~Covers(oracle.need, source, {f[j] : j \in 1..Len(current) \ {i}})
      BY <1>1, <1>6 DEF Remains, Passed
    <3>2. UNCHANGED <<source, oracle, current>> /\ (Steady' <=> Steady) /\ ~(runs' > 0)
      BY <1>1 DEF Steady
    <3> QED
      BY <2>4, <2>5, <3>1, <3>2 DEF Remains
  <2> QED
    BY <2>6, <2>7
<1>7. (\E f : Places(f) /\ Remains(f))'
  BY <1>2, <1>6
<1> QED
  BY <1>1, <1>2, <1>4, <1>5, <1>7 DEF ReduceInv, Steady, Cases

LEMMA FinishReduces ==
  ASSUME ReduceInv, Finish
  PROVE  ReduceInv'
<1>1. /\ UNCHANGED <<source, oracle, current, index, todo, trial, runs>>
      /\ phase = "shrink" /\ runs = 0 /\ index = Len(current) /\ phase' = "done"
  BY DEF Finish, Shrinking, Judged
<1>2. /\ source \in Cases /\ current \in Seq(Intents) /\ todo \in Seq(Intents)
      /\ index \in Nat /\ runs \in Nat
      /\ Steady => \A t \in DOMAIN oracle.need : oracle.need[t] \in Int
      /\ Indexed
      /\ \E f : Places(f) /\ Remains(f)
  BY <1>1, ReduceFacts DEF Begun, Working
<1>3. Indexed'
  BY <1>1, <1>2 DEF Indexed
<1>4. ASSUME NEW f, Places(f), Remains(f)
      PROVE  (Places(f) /\ Remains(f))'
  BY <1>1, <1>4 DEF Places, Remains, Done, Passed, Steady
<1>5. (\E f : Places(f) /\ Remains(f))'
  BY <1>2, <1>4
<1> QED
  BY <1>1, <1>2, <1>3, <1>5 DEF ReduceInv, Steady, Cases, Begun, Working

(* A case of a recipe is a case: its intents have different targets.       *)
LEMMA StartReduces ==
  ASSUME ReduceInv, ConfirmInv, RecipeRead, Start
  PROVE  ReduceInv'
<1>1. PICK i \in DOMAIN cases :
        /\ source' = cases[i] /\ current' = cases[i] /\ trial' = cases[i]
        /\ oracle' \in Oracles(cases[i])
  BY DEF Start
<1>2. /\ phase = "idle" /\ step = "done" /\ runs' = confirms' /\ phase' = "source"
      /\ index' = 1 /\ todo' = todo /\ confirms' \in Nat
  BY MinimizeAssumption DEF Start, MinConfirms, MinimizeAssumption
<1>3. cases[i] \in Cases
  <2>1. cases \in Seq(Universe) /\ spec \in Specs
    BY <1>2 DEF RecipeRead, WindowInv, WindowTypes
  <2>2. cases[i] \in Universe
    BY <2>1
  <2> QED
    BY <2>1, <2>2, UniverseIsCases
<1>4. source' \in Cases /\ current' \in Seq(Intents) /\ Len(current') \in Nat /\ current' = source'
  BY <1>1, <1>3, CaseType
<1>5. todo' = <<>> /\ todo' \in Seq(Intents)
  BY <1>2 DEF ReduceInv
<1>6. Steady' => \A t \in DOMAIN oracle'.need : oracle'.need[t] \in Int
  <2>1. ASSUME oracle'.kind = "steady"
        PROVE  \E T : oracle'.need \in [T -> Needs]
    BY <1>1, <2>1 DEF Oracles
  <2>2. ASSUME NEW T, NEW need \in [T -> Needs], NEW t \in DOMAIN need
        PROVE  need[t] \in Int
    <3>1. need[t] \in Needs
      OBVIOUS
    <3>2. Needs \subseteq Int
      BY MinimizeAssumption DEF MinimizeAssumption
    <3> QED
      BY ONLY <3>1, <3>2, Zenon
  <2> QED
    BY <2>1, <2>2 DEF Steady
<1>7. Indexed'
  BY <1>1, <1>2, <1>5 DEF Indexed
<1>8. (\E f : Places(f) /\ Remains(f))'
  <2>1. PICK f : f = [k \in 1..Len(current') |-> k]
    OBVIOUS
  <2>2. Places(f)'
    BY <1>4, <2>1 DEF Places
  <2>3. Done' = 0 /\ \A k : ~Passed(k)'
    BY <1>2 DEF Done, Passed
  <2>4. Remains(f)'
    BY <1>2, <1>4, <2>1, <2>3 DEF Remains
  <2> QED
    BY <2>2, <2>4
<1> QED
  BY <1>2, <1>4, <1>5, <1>6, <1>7, <1>8 DEF ReduceInv, Steady

LEMMA ReduceUnchanged ==
  ASSUME ReduceInv, UNCHANGED minimizeVars
  PROVE  ReduceInv'
<1>1. UNCHANGED <<phase, source, oracle, current, index, todo, trial, runs>>
  BY DEF minimizeVars
<1>2. ASSUME NEW f, Places(f), Remains(f)
      PROVE  (Places(f) /\ Remains(f))'
  BY <1>1, <1>2 DEF Places, Remains, Done, Passed, Steady
<1>3. (\E f : Places(f) /\ Remains(f)) => (\E f : Places(f) /\ Remains(f))'
  BY <1>2
<1>4. Indexed => Indexed'
  BY <1>1 DEF Indexed
<1> QED
  BY <1>1, <1>3, <1>4 DEF ReduceInv, Steady, Cases

LEMMA ReduceStep ==
  ASSUME ReduceInv, ConfirmInv, RecipeRead, [Next]_vars
  PROVE  ReduceInv'
<1>1. CASE Generating
  BY <1>1, ReduceUnchanged DEF Generating
<1>2. CASE Start
  BY <1>2, StartReduces
<1>3. ASSUME phase \in Working, Judge
      PROVE  ReduceInv'
  <2>1. runs = confirms => runs > 0
    <3>1. confirms \in Nat /\ confirms >= 2
      BY <1>3 DEF ConfirmInv, Begun, MinConfirms
    <3> QED
      BY <3>1
  <2>2. CASE RunShows
    BY <1>3, <2>2, RunShowsReduces
  <2>3. CASE Accept
    BY <1>3, <2>3, AcceptReduces
  <2>4. CASE RunFails
    BY <1>3, <2>4, RejectReduces DEF RunFails
  <2>5. CASE PlanFails
    BY <1>3, <2>1, <2>5, RejectReduces DEF PlanFails
  <2> QED
    BY <1>3, <2>2, <2>3, <2>4, <2>5 DEF Judge
<1>4. ASSUME phase \in Working, Reduce
      PROVE  ReduceInv'
  <2>1. confirms \in Nat
    BY <1>4 DEF ConfirmInv, Begun
  <2> QED
    BY <1>4, <2>1, TryDropReduces, TryShrinkReduces, KeepLastReduces, EndDropsReduces,
       NextShrinkReduces, FinishReduces DEF Reduce
<1>5. CASE Minimizing
  BY <1>3, <1>4, <1>5 DEF Minimizing
<1>6. CASE Fail
  BY <1>6 DEF Fail, ReduceInv, Begun, Working
<1>7. CASE UNCHANGED vars
  BY <1>7, ReduceUnchanged DEF vars
<1> QED
  BY <1>1, <1>2, <1>5, <1>6, <1>7 DEF Next, Terminated

(* What minimize_case writes is made of intents of the case, in their      *)
(* order, as they were or shrunk; and of a steady oracle's signature none  *)
(* of them can be left out, for cases of any number of intents.            *)
THEOREM ResultReduced == Spec => []ResultIsReduced
<1>1. Init => ReduceInv /\ RecipeRead
  BY WindowInit DEF Init, MinimizeInit, ReduceInv, Begun, Working, RecipeRead
<1>2. ReduceInv /\ RecipeRead /\ ConfirmInv /\ [Next]_vars => (ReduceInv /\ RecipeRead)'
  BY ReduceStep, WindowStep
<1>3. ReduceInv => ResultIsReduced
  BY ReduceResult
<1> QED
  BY <1>1, <1>2, <1>3, ConfirmCorrect, PTL DEF Spec
=============================================================================
