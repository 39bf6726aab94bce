--------------------------- MODULE WriteOnceStore ---------------------------
(***************************************************************************)
(* What a content-addressed corpus promises: an entry is created whole, by *)
(* one producer whose manifest stays, and is never replaced or removed.    *)
(* Only a power loss may take back an entry that is not yet durable.       *)
(* Publish.tla, which models publish() of erofs-lab, implements it.        *)
(***************************************************************************)
CONSTANTS
  Hash,      \* names of the entries
  Producer,  \* who may create one
  Nobody     \* the producer of an entry that does not exist

VARIABLES
  producer,  \* producer[h]: the producer of entry h, or Nobody
  durable    \* the entries a power loss cannot take back

Init ==
  /\ producer = [h \in Hash |-> Nobody]
  /\ durable = {}

Put(h, p) ==
  /\ producer[h] = Nobody
  /\ producer' = [producer EXCEPT ![h] = p]
  /\ UNCHANGED durable

Settle ==
  /\ durable' = {h \in Hash : producer[h] # Nobody}
  /\ UNCHANGED producer

(* What survives a power loss is durable.                                  *)
Survive(kept) ==
  /\ durable \subseteq kept
  /\ producer' = [h \in Hash |-> IF h \in kept THEN producer[h] ELSE Nobody]
  /\ durable' = {h \in kept : producer[h] # Nobody}

Next ==
  \/ \E h \in Hash, p \in Producer : Put(h, p)
  \/ Settle
  \/ \E kept \in SUBSET Hash : Survive(kept)

Spec == Init /\ [][Next]_<<producer, durable>>
=============================================================================
