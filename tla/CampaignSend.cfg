CONSTANTS
  w1 = w1
  w2 = w2
  r1 = r1
  r2 = r2
  e1 = e1
  e2 = e2
  Workers = {w1, w2}
  Recipients = {r1}
  Fickle = {r1}
  Orders = {}
  Template = FALSE
  Official = FALSE
  ExtIds = {}
  MaxAttempts = 2
  MaxDeferrals = 2
  SlowTicks = TRUE
  Failures = TRUE
  NoRecipient = NoRecipient
  NoKey = NoKey
  NoReq = NoReq
  NoExt = NoExt
SPECIFICATION Spec
INVARIANTS SentMeansAccepted MessagedAtMostOnce OptOutIsHonoured
CHECK_DEADLOCK FALSE
SYMMETRY Symmetry
