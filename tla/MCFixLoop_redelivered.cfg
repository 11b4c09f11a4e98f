\* Is a repeated finding always the finding of two different pushes?
SPECIFICATION Spec
CONSTANTS
  botA = botA
  botB = botB
  human = human
  gateBot = gateBot
  none = none
  f1 = f1
  Handles = {botA, botB, human, gateBot}
  NoHandle = none
  Fingerprints = {f1}
  Configs <- AllConfigs
  MaxPushes = 2
  MaxEdits = 0
  MaxFaults = 1
INVARIANTS SameFindingMeansTwoPushes
CHECK_DEADLOCK FALSE
