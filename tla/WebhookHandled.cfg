CONSTANTS
  w1 = w1
  w2 = w2
  in = in
  out = out
  Workers = {w1, w2}
  Messages <- MCMessages
  Events <- MCInbound
  Scenarios <- MCInboundOnly
  Sources = {"meta_whatsapp"}
  MaxAttempts = 2
  Batch = 2
  MaxCrashes = 1
  NoEvent = NoEvent
SPECIFICATION MCSpec
INVARIANTS ProcessedIsHandled
CHECK_DEADLOCK FALSE
