SPECIFICATION GatePolicySpec
CONSTANTS
    Savers = {"s1"}
    Forms = {"observe"}
    GatePushes = {"p1"}
    MaxSaves = 1
    MaxSaveFaults = 0
INVARIANT EveryRelayChecked
CHECK_DEADLOCK FALSE
