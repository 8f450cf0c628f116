-------------------------- MODULE MCReviewIndexing --------------------------
(* Instances of ReviewIndexing for TLC. *)
EXTENDS ReviewIndexing, TLC

Symmetry == Permutations(Worker) \cup Permutations(Job) \cup Permutations(Client)

=============================================================================
