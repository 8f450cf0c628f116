SPECIFICATION SmoothSpec
CONSTANTS
  Worker = {w1}
  Job = {j1, j2, j3}
  Key = {r1}
  MaxAttempts = 2
  NoJob = NoJob
  NoKey = NoKey
  Client = {c1, c2}
  NoReview = NoReview
  MaxVersion = 3
CHECK_DEADLOCK FALSE
INVARIANTS NoEditIsDropped
