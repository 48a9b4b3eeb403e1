CONSTANTS
  w1 = w1
  w2 = w2
  r1 = r1
  r2 = r2
  e1 = e1
  e2 = e2
  Workers = {w1, w2}
  Recipients = {r1, r2}
  Fickle = {}
  Orders = {"running", "cancelled"}
  Template = FALSE
  Official = FALSE
  ExtIds = {}
  MaxAttempts = 2
  MaxDeferrals = 2
  SlowTicks = FALSE
  Failures = TRUE
  NoRecipient = NoRecipient
  NoKey = NoKey
  NoReq = NoReq
  NoExt = NoExt
SPECIFICATION Spec
INVARIANTS CompletedLeavesNobody OneTickPerRecipient
PROPERTIES SettledIsFinal
CHECK_DEADLOCK FALSE
SYMMETRY Symmetry
