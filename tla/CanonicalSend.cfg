CONSTANTS
  c1 = c1
  c2 = c2
  k1 = k1
  k2 = k2
  text = text
  template = template
  e1 = e1
  e2 = e2
  Callers <- MCCallers
  Keys <- MCKeys
  Requests <- MCRequests
  TemplateRequests <- MCTemplateRequests
  ExtIds <- MCExtIds
  OfficialRequests <- MCOfficialRequests
  NoKey = NoKey
  NoReq = NoReq
  NoExt = NoExt
SPECIFICATION Spec
INVARIANTS AtMostOneProviderCall MessageBacked SuccessMeansSent
PROPERTIES AttemptMovesOnward ImplementsAtMostOnceSend
SYMMETRY Symmetry
