CONSTANTS
  c1 = c1
  c2 = c2
  k1 = k1
  k2 = k2
  text = text
  template = template
  e1 = e1
  e2 = e2
  Callers = {c1}
  Keys = {k1}
  Requests = {template}
  TemplateRequests = {template}
  ExtIds <- MCExtIds
  OfficialRequests = {template}
  NoKey = NoKey
  NoReq = NoReq
  NoExt = NoExt
SPECIFICATION Spec
INVARIANT StoredWithProviderId
