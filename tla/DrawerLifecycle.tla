--------------------------- MODULE DrawerLifecycle ---------------------------
(***************************************************************************)
(* What the store promises about one workspace's drawers, without stores,  *)
(* handlers or a worker: a drawer is absent, filed but not yet searchable  *)
(* ("pending", the importer's "indexing N in background"), or searchable   *)
(* ("indexed").  A searchable drawer never falls back to pending and never *)
(* loses its vector.  Nothing is promised of an id once a delete_drawer    *)
(* has begun on it ("erased"): it races with whatever files the id again.  *)
(***************************************************************************)
CONSTANT Id
VARIABLE stage

Init == stage = [i \in Id |-> "absent"]

(* add_drawer and diary_write return only when the drawer is searchable.   *)
File(i) == stage[i] # "erased" /\ stage' = [stage EXCEPT ![i] = "indexed"]

Erase(i) == stage' = [stage EXCEPT ![i] = "erased"]

(* An import files rows at once; what is already there keeps its stage.    *)
Absorb(batch) ==
    stage' = [i \in Id |-> IF i \in batch /\ stage[i] = "absent"
                           THEN "pending" ELSE stage[i]]

(* The background worker makes a batch of pending drawers searchable.      *)
Embed(batch) ==
    stage' = [i \in Id |-> IF i \in batch /\ stage[i] = "pending"
                           THEN "indexed" ELSE stage[i]]

Next == \/ \E i \in Id : File(i) \/ Erase(i)
        \/ \E batch \in SUBSET Id : Absorb(batch) \/ Embed(batch)

Spec == Init /\ [][Next]_stage
=============================================================================
