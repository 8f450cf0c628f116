SPECIFICATION HouseSpec
CONSTANTS
  Turn = {q1, q2}
  Talk = {k1}
  Booking = {b1}
  NoTalk = NoTalk
  Kept = Kept
  MaxIterations = 2
  MaxCalls = 2
  SharedCalls = 1
  HistoryTurns = 4
  GuardRows = 4
  MaxRows = 4
  SharedRows = 1
  Plate = {q1, q2}
  House = {r1, r2}
  Mine = r1
  Gone = Gone
  Dish = {d1, d2}
  Recall = {j1, j2}
  Runner = {q1, q2}
  Tip = {q1, q2}
  NoDish = NoDish
  Place = {g1}
  Spot = {r1, r2}
  None = None
  Poster = {q1, q2}
  Venue = {v1}
  Category = {k1, k2}
  Otros = Otros
  NoCategory = NoCategory
  Task = {q1, q2}
  Meal = {m1}
  Name = {n1, n2}
  Site = {g1, g2}
  Field = {f1, f2}
  Nothing = Nothing
  Job = {q1, q2}
  Photo = {f1, f2, f3}
  PhotoCap = 1
  Unlocked = Unlocked
  Seat = {q1, q2}
  Course = {q1, q2}
  Eatery = {r1, r2}
  Root = {k1, k2}
  NoRoot = NoRoot
  MapLimit = 3
  Opinion = {1, 2}
  Words = {w1, w2}
  Blank = Blank
  Dubbing = {d1, d2}
  Label = {"positive", "negative"}
  Score = {"low", "high"}
  TheDish = TheDish
  Unset = Unset
  Loop = {q1, q2}
SYMMETRY Symmetry
CHECK_DEADLOCK FALSE
INVARIANTS HouseTypeOK PromptsArePaired EnrichmentHolds SignalsHold
PROPERTIES TurnsHold AnswersHold RecalledOnce CatalogueHolds DeskHolds DiscoveryHolds
