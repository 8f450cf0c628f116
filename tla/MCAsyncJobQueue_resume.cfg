SPECIFICATION RestartSpec
CONSTANTS
  Worker = {w1}
  Job = {j1}
  Key = {k1}
  MaxAttempts = 2
  NoJob = NoJob
  NoKey = NoKey
PROPERTY RunningIsResumed
