\* Two rejects and a clean push, two failures, one click; no overlap, lookups answer.
SPECIFICATION Spec
CONSTANTS
  r1 = r1
  r2 = r2
  c1 = c1
  Rejects = {r1, r2}
  Cleans = {c1}
  Webhook = FALSE
  MaxTries = 1
  Overlap = FALSE
  LookupsFail = FALSE
  MaxFaults = 2
  MaxClicks = 1
INVARIANTS Durable OneComment
SYMMETRY Perms
CHECK_DEADLOCK FALSE
