CONSTANTS
 N = 2
 MaxView = 2
 Tx <- Transactions
 MaxTxGas = 3
 ConfigLimit = 6
 DefaultLimit = 3
 InitialBaseFee = 16
 MaxSends = 2
 MaxCrashes = 1
ACTION_CONSTRAINT PaymentFirst
CHECK_DEADLOCK FALSE
SPECIFICATION Spec
INVARIANTS TypeOK SpentOnce CommittedAtMostOnce NothingDropped FeeBounded
PROPERTY SelectionGreedy
