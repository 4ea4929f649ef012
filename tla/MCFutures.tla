----------------------------- MODULE MCFutures -----------------------------
(* Instances of Futures for TLC. *)
EXTENDS Futures, TLC

(* Addresses, clients and workers are interchangeable (safety runs). *)
Symmetry == Permutations(Clients) \cup Permutations(Workers)
              \cup Permutations(Slots) \cup Permutations(Bufs)

=============================================================================
