----------------------- MODULE MCDurableOperationStore -----------------------
(* Instances of the durable operation store for model checking. *)
EXTENDS DurableOperationStore, TLC

CONSTANTS o1, o2, r1, r2

StoreSymmetry == Permutations({o1, o2}) \cup Permutations({r1, r2})
=============================================================================
