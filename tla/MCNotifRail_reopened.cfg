\* A reject and the clean push that follows it, no failure.
SPECIFICATION Spec
CONSTANTS
  r1 = r1
  r2 = r2
  c1 = c1
  Rejects = {r1}
  Cleans = {c1}
  Webhook = FALSE
  MaxTries = 2
  Overlap = FALSE
  LookupsFail = FALSE
  MaxFaults = 0
  MaxClicks = 0
INVARIANTS AcceptedClosesLoop
CHECK_DEADLOCK FALSE
