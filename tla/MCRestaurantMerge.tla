--------------------------- MODULE MCRestaurantMerge ---------------------------
(* Three restaurants, so that a merge can meet the next one of its target   *)
(* and the slug of a merged restaurant can be taken again.                  *)
EXTENDS RestaurantMerge

(* Bound: no restaurant is deleted yet, every dish is at one and no two at  *)
(* the same, one other row, one link, not to who has the slug.              *)
FewRows ==
  /\ slug \in [Restaurant -> Slug]
  /\ link \in [Slug -> Restaurant \cup {None}]
  /\ Cardinality({x \in Slug : link[x] # None}) = 1
  /\ \A x \in Slug : link[x] # None => slug[link[x]] # x
  /\ at \in [Dish -> Restaurant]
  /\ \A r \in Restaurant : Cardinality(DishesOf(r)) <= 1
  /\ below \in [Row -> Restaurant \cup {None}]
  /\ Cardinality({x \in Row : below[x] # None}) = 1

SmallInit == FewRows /\ Init
SmallSpec == SmallInit /\ [][Next]_vars

Symmetry ==
  Permutations(Client) \cup Permutations(Restaurant) \cup Permutations(Slug)
    \cup Permutations(Dish) \cup Permutations(Name) \cup Permutations(Single)

=============================================================================
