CONSTANTS
  w1 = w1
  w2 = w2
  r1 = r1
  r2 = r2
  e1 = e1
  e2 = e2
  Workers = {w1}
  Recipients = {r1}
  Fickle = {}
  Orders = {}
  Template = FALSE
  Official = FALSE
  ExtIds = {e1}
  MaxAttempts = 2
  MaxDeferrals = 2
  SlowTicks = FALSE
  Failures = FALSE
  NoRecipient = NoRecipient
  NoKey = NoKey
  NoReq = NoReq
  NoExt = NoExt
SPECIFICATION Spec
INVARIANT FailedSendIsRetried
CHECK_DEADLOCK FALSE
