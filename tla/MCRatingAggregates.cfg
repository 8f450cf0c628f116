SPECIFICATION Spec
CONSTANTS
  Client = {c1, c2}
  Review = {r1, r2}
  Critic = {r2}
  Dish = {d1, d2}
  Restaurant = Restaurant
  Score = {1, 2}
  NoReview = NoReview
  NoDish = NoDish
  MaxRequests = 2
CHECK_DEADLOCK FALSE
SYMMETRY Symmetry
INVARIANTS AggregatesTypeOK DriftHasCause DeadlockHasCause
PROPERTIES MergeKeepsReviews
