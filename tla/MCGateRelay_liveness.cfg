\* One branch that is moved, forced and deleted by two pushes, one failure.
SPECIFICATION FairSpec
CONSTANTS
  p1 = p1
  p2 = p2
  v1 = v1
  v2 = v2
  x1 = x1
  main = main
  dev = dev
  tag = tag
  none = none
  keep = keep
  backstop = backstop
  Pushes = {p1, p2}
  Heads = {main}
  Tags = {}
  Revs = {v1, v2, x1}
  Bad = {}
  Ancestry <- Fork
  Gated = {main}
  DeleteProtected = {}
  Modes = {"enforce"}
  Wanted <- LinePushes
  Seed <- MainSeeded
  NoRev = none
  Keep = keep
  Backstop = backstop
  MaxFaults = 1
PROPERTIES PushEnds Converges
