SPECIFICATION FairSpec
CONSTANTS
    BringUpAttempts = 2
    BringUpDelays <- MCShortDelays
    RetryInterval = 1
    ReleaseAttempts = 2
    SettleTime = 1
    ClockMod = 4
    MaxLag = 1
    EpochMod = 3
    g1 = g1
    b1 = b1
    f1 = f1
    Good <- MCGood
    Blank <- MCBlank
    Failing <- MCFailing
    NoCard = NoCard
INVARIANTS
    MountedExactlyWhenLocalReady
    SwappedCardIsLatched
    PowerCutIsSafe
PROPERTIES
    EpochMarksEveryLoss
    FaultyIsLeftAlone
    ImplementsContract
    GoodCardBecomesUsable
    RemovalIsNoticed
    ReleaseFinishes
