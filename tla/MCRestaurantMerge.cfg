SPECIFICATION SmallSpec
CONSTANTS
  Client = {c1, c2}
  Restaurant = {ra, rb, rc}
  Slug = {x, y, z}
  Dish = {d1, d2}
  Name = {n1, n2}
  Review = {v1}
  Single = {m1, m2}
  Plain = {}
  Left = {}
  None = None
  MaxRequests = 2
SYMMETRY Symmetry
CHECK_DEADLOCK FALSE
INVARIANTS MergeTypeOK OneOrderNoDeadlock
PROPERTIES LinksFollow NothingLost
