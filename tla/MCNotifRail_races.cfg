\* A reject and a clean push, two failures, one click; the file operations overlap.
SPECIFICATION FairSpec
CONSTANTS
  r1 = r1
  r2 = r2
  c1 = c1
  Rejects = {r1}
  Cleans = {c1}
  Webhook = TRUE
  MaxTries = 2
  Overlap = TRUE
  LookupsFail = TRUE
  MaxFaults = 2
  MaxClicks = 1
PROPERTIES LoopEndsResolved Drains
CHECK_DEADLOCK FALSE
