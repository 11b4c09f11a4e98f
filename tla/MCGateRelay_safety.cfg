\* Two concurrent pushes over a protected gated branch and a feature branch, one failure.
SPECIFICATION Spec
SYMMETRY Perms
CONSTANTS
  p1 = p1
  p2 = p2
  v1 = v1
  v2 = v2
  x1 = x1
  main = main
  dev = dev
  tag = tag
  none = none
  keep = keep
  backstop = backstop
  Pushes = {p1, p2}
  Heads = {main, dev}
  Tags = {}
  Revs = {v1, v2, x1}
  Bad = {x1}
  Ancestry <- Fork
  Gated = {main}
  DeleteProtected = {main}
  Modes = {"enforce", "observe"}
  Wanted <- BranchPushes
  Seed <- BothSeeded
  NoRev = none
  Keep = keep
  Backstop = backstop
  MaxFaults = 1
INVARIANTS NoBypass
PROPERTIES MirrorSpec
