\* Two rejects, no failure at all; the file operations overlap.
SPECIFICATION Spec
CONSTANTS
  r1 = r1
  r2 = r2
  c1 = c1
  Rejects = {r1, r2}
  Cleans = {}
  Webhook = FALSE
  MaxTries = 2
  Overlap = TRUE
  LookupsFail = FALSE
  MaxFaults = 0
  MaxClicks = 0
INVARIANTS Durable
CHECK_DEADLOCK FALSE
