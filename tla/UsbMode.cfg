SPECIFICATION FairSpec
CONSTANTS
    EpochMod = 2
    ClockMod = 4
    Debounce = 2
    MaxPass = 1
INVARIANTS
    OwnerFollowsPolicy
PROPERTIES
    EjectEndsItsOwnLend
    CableIsDebounced
    DemoOncePerReadiness
    CardComesBack
