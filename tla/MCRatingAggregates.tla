------------------------- MODULE MCRatingAggregates -------------------------
(* The requests are alike; so are the reviews when no critic wrote one.     *)
EXTENDS RatingAggregates, TLC

Symmetry == Permutations(Client)
AnyReview == Permutations(Client) \cup Permutations(Review)

(* A restaurant without reviews yet: what is written is created. *)
NewSpec == Init /\ (\A r \in Review : dishOf[r] = NoDish) /\ [][Next]_vars

=============================================================================
