SPECIFICATION Spec
CONSTANTS
    a = a
    b = b
    Validator <- MCValidator
    GenesisCommittee <- MCGenesisCommittee
    Rich = a
    Word = 8
    GenesisStake = 3
    MinStake = 2
    EquivocationSlash = 1
    LivenessPenalty = 1
    MaxScore = 1
    Delay = 1
    Amount = {0, 2}
    MaxView = 4
    MaxTxs = 1
    MaxFailures = 1
INVARIANTS TypeOK SeatsDistinct PendingFunded
PROPERTIES WriteBackKeepsSeats FundsNeverGrow
CHECK_DEADLOCK FALSE
