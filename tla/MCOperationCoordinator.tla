------------------------ MODULE MCOperationCoordinator ------------------------
(* Instances of the operation coordinator for model checking. *)
EXTENDS OperationCoordinator, TLC

CONSTANTS p1, p2, p3

ProcSymmetry == Permutations(Procs)
=============================================================================
