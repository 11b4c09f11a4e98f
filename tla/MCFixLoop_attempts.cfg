\* Four pushes with one failure and one edit, reset or clean push, for every kind
\* of loop configuration.
SPECIFICATION Spec
CONSTANTS
  botA = botA
  botB = botB
  human = human
  gateBot = gateBot
  none = none
  f1 = f1
  Handles = {botA, botB, human, gateBot}
  NoHandle = none
  Fingerprints = {f1}
  Configs <- AllConfigs
  MaxPushes = 4
  MaxEdits = 1
  MaxFaults = 1
INVARIANTS EveryBotTried CountPaidFor
CHECK_DEADLOCK FALSE
