SPECIFICATION Spec
CONSTANTS
  Client = {q1, q2}
  Claim = {c1, c2, c3}
  User = {u1, u2}
  Nobody = Nobody
  NoClaim = NoClaim
SYMMETRY Symmetry
CHECK_DEADLOCK FALSE
INVARIANTS ClaimTypeOK UniqueClaims OwnerHasClaim DeadlockNeedsClick
