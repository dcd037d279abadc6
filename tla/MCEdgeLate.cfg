CONSTANTS
  body = body
  c1 = c1
  c2 = c2
  Requests = {c1, c2}
  Frames = 2
  Keys = {1, 2}
  Inputs = {body}
  Body = body
  Transacted = {1, 2}
  Ageing = {1, 2}
  NoInput = NoInput
  NoRequest = NoRequest
  Limbo = Limbo
  Calls <- SampleCalls
  CredentialBound = 2
  MaxFaults = 3
SPECIFICATION Spec
CHECK_DEADLOCK FALSE
INVARIANTS
  RecordedOnce
