SPECIFICATION FairSpec
CONSTANTS
    Total = 2
    MaxWithdrawals = 3
    MaxFaults = 2
INVARIANTS TypeOK ExposureIsOwned NothingLeftBehind TransferIsTracked GivenUpHadTrouble
PROPERTIES CreditedHasArrived ArrivedIsCredited
