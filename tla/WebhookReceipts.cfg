CONSTANTS
  w1 = w1
  w2 = w2
  in = in
  out = out
  Workers = {w1, w2}
  Messages <- MCMessages
  Events <- MCEvents
  Scenarios <- MCScenarios
  Sources = {"meta_whatsapp", "ycloud_whatsapp"}
  MaxAttempts = 2
  Batch = 2
  MaxCrashes = 1
  NoEvent = NoEvent
SPECIFICATION MCFairSpec
INVARIANTS ReceiptsAreTrue HandledAtMostOnce ThrowingHandlerIsRepeated
PROPERTIES StatusNeverRegresses CallsAreTakenUp RetriesEnd
CHECK_DEADLOCK FALSE
