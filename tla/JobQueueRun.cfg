SPECIFICATION JobFairSpec
CONSTANTS
  Caller = {c1}
  Worker = {w1, w2}
  JobKey = {NoJobKey, k}
  NoJobKey = NoJobKey
  Priority = {1, 2}
  MaxJobAttempts = 2
  MaxJobs = 2
  MaxJobRetries = 2
INVARIANTS OneWorkerPerJob JobCopyIsCurrent
PROPERTIES CompletedForGood EveryJobSettles
CHECK_DEADLOCK FALSE
