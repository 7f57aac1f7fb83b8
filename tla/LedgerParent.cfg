CONSTANTS
 N = 2
 MaxView = 2
 Tx <- Transactions
 MaxTxGas = 3
 ConfigLimit = 4
 DefaultLimit = 4
 InitialBaseFee = 16
 MaxSends = 2
 MaxCrashes = 1
CHECK_DEADLOCK FALSE
SPECIFICATION Spec
INVARIANT RootOfChain
