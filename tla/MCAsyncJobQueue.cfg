SPECIFICATION FairSpec
CONSTANTS
  Worker = {w1, w2}
  Job = {j1, j2}
  Key = {k1, k2}
  MaxAttempts = 2
  NoJob = NoJob
  NoKey = NoKey
INVARIANTS TypeOK OnePendingPerKey ExclusiveClaim HeldIsRunning AttemptBudget
PROPERTIES SettledForGood ImplementsLedger PendingIsPickedUp
