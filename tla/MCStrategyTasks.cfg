SPECIFICATION FairSpec
CONSTANTS
    known = known
    unknown = unknown
    symbol = symbol
    Tasks <- MCTasks
    SymbolOf <- MCSymbolOf
    Recoverable = {known}
    MaxVersion <- MCMaxVersion
    MaxFaults = 1
INVARIANTS TypeOK FileIsCurrent FinishedStaysFinished
PROPERTIES SavesKeepNewest ActiveFileStays CancelledLeaves EveryTaskIsStepped StopReturns
