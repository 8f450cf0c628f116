----------------------------- MODULE MCClaimFlow -----------------------------
(* Two users with three claims between them: a claim, the next claim of the *)
(* same user after the first is closed, and a rival.                        *)
EXTENDS ClaimFlow

Symmetry == Permutations(Client) \cup Permutations(Claim) \cup Permutations(User)

=============================================================================
