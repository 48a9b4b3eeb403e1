CONSTANTS
  Jobs = {j1}
  Workers = {w1, w2}
  Hooks <- MCNoHooks
  Subjects = {"s"}
  MaxAttempts = 2
  Policies = {"latest_wins"}
  NoJob = NoJob
SPECIFICATION Unattended
PROPERTIES FailedIsRetried
CHECK_DEADLOCK FALSE
