CONSTANTS
  Phones <- MCPhones
  Actors = {a1, a2}
  Limit = 2
  NoPhone = NoPhone
  Templates <- MCTemplates
  PageOf <- MCPageOf
  LastPage = 2
  MaxPages = 2
  Workers = {w1, w2}
  NoTask = NoTask
  Requests = {r1, r2}
  RateLimit = 2
  Attachments <- MCAttachments
  Cleaners = {w1, w2}
  MediumOf <- MCMediumOf
  PhoneOf <- MCPhoneOf
  MaxDeleteAttempts = 2
  NoAttachment = NoAttachment
  Executions = {r1, r2}
  BusinessEvents = {e1}
  NoBusiness = NoBusiness
SPECIFICATION Spec
PROPERTY AsksByIntent
INVARIANTS OffMeansOff CatalogueIsExact SucceedsOnce CleanupIsTrue OnlyWhenOn
CHECK_DEADLOCK FALSE
