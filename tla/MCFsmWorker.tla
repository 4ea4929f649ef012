---------------------------- MODULE MCFsmWorker ----------------------------
(* Instances of FsmWorker for TLC. *)
EXTENDS FsmWorker, TLC

(* Slots are interchangeable (safety run). *)
Symmetry == Permutations(Calls)

=============================================================================
