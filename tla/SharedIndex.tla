---------------------------- MODULE SharedIndex ----------------------------
(***************************************************************************)
(* What the novelty index of a corpus promises to the campaigns that share *)
(* it, whatever they do in between: each campaign contributes what it      *)
(* knows at most once, in one step, and the index is exactly the union of  *)
(* all contributions, so no campaign's discoveries are lost to another's.  *)
(*                                                                         *)
(* Campaign.tla, which models the load / merge / replace protocol of       *)
(* run_campaign and save_novelty, is shown to implement this module.       *)
(***************************************************************************)
CONSTANTS
  Campaign,     \* the campaigns that use one corpus
  Knowledge     \* everything an index can hold: a set of facts

VARIABLES
  facts,        \* the facts the index holds
  contribution  \* contribution[c]: what campaign c has added, {} before it did

vars == <<facts, contribution>>

Init ==
  /\ facts = {}
  /\ contribution = [c \in Campaign |-> {}]

Commit(c) ==
  /\ contribution[c] = {}
  /\ contribution'[c] \subseteq Knowledge
  /\ contribution' = [contribution EXCEPT ![c] = contribution'[c]]
  /\ facts' = facts \cup contribution'[c]

Next == \E c \in Campaign : Commit(c)

Spec == Init /\ [][Next]_vars

(* The index is the union of the contributions: nothing else gets in, and  *)
(* nothing a campaign contributed is ever lost.                            *)
IndexIsUnion == facts = UNION {contribution[c] : c \in Campaign}
=============================================================================
