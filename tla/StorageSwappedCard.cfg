SPECIFICATION HistorySpec
CONSTANTS
    BringUpAttempts = 3
    BringUpDelays <- MCDelays
    RetryInterval = 1
    ReleaseAttempts = 2
    SettleTime = 2
    ClockMod = 6
    MaxLag = 1
    EpochMod = 3
    f1 = f1
    Failing <- MCFailing
    NoCard = NoCard
    Good = {}
    Blank = {}
PROPERTIES
    EveryCardGetsAllItsAttempts
