SPECIFICATION CommunitySpec
CONSTANTS
  Client = {q1, q2}
  Session = {s1, s2}
  PasswordLink = {p1, p2}
  VerifyLink = {v1, v2}
  NoRow = NoRow
  Person = {a, b}
  Nobody = Nobody
  Viewer = {a}
  Caller = {q1, q2}
  Member = {a, b}
  Author = a
  Note = {n1, n2}
  Top = Top
  Hand = {q1, q2}
  Threshold = 1
  Item = {i1, i2, i3}
  Limit = 1
  Ahead = 1
  MaxTime = 2
  Slot = {q1, q2}
  Word = {w}
  Thing = {x, y}
  Cap = 1
  Fan = {a, b}
  Owner = a
  Press = {q1, q2}
SYMMETRY Symmetry
CHECK_DEADLOCK FALSE
INVARIANT PostsMissNothing
