----------------------------- MODULE MCMinimize -----------------------------
(* Small campaign specifications: fields of one to three bits and of bytes.*)
EXTENDS Minimize

MCMaxSkip == 20
MCConfirmations == {0, 3}
MCNeeds == 0..8

Campaign(targets, offset, samples, mutations) ==
  [targets |-> targets, offset |-> offset, samples |-> samples, mutations |-> mutations]

(* Windows anywhere in the enumeration of a field and of a field of bytes, *)
(* whose draws may be empty; of fields of bytes only; of two fields.       *)
Windows ==
  {Campaign(<<1, 0>>, offset, samples, mutations) :
     offset \in 0..6, samples \in 1..3, mutations \in 0..2}
  \cup {Campaign(<<0>>, offset, 2, 1) : offset \in 0..2}
  \cup {Campaign(<<1, 1>>, offset, 2, 3) : offset \in {4, 6}}

(* Cases worth minimizing: two large values, three intents.                *)
Deep == {Campaign(<<3, 1>>, 10, 1, 2), Campaign(<<1, 1, 1>>, 9, 1, 3)}

Refused == {Campaign(<<>>, 0, 1, 1), Campaign(<<1>>, 0, 0, 1), Campaign(<<1>>, 21, 1, 1)}

MCSpecs == Windows \cup Deep \cup Refused
=============================================================================
