SPECIFICATION FairSpec
CONSTANTS
    StableSamples = 2
    MaxSamples = 3
    MaxPolls = 2
    MaxBlocks = 3
INVARIANTS
    RemovalIsLatched
    NothingLeftBehind
    SuccessIsComplete
    StreamsAreEnded
    AddressingMatchesCard
PROPERTIES
    InterruptedNeverSucceeds
    QuietAfterRemoval
    ImplementsCardDriver
    OperationReturns
