CONSTANTS
 Capacity = 2
 MaxFan = 2
 MaxPeers = 2
CHECK_DEADLOCK FALSE
SPECIFICATION Spec
PROPERTY LoopReturns
