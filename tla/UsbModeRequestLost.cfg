SPECIFICATION Spec
CONSTANTS
    EpochMod = 2
    ClockMod = 4
    Debounce = 2
    MaxPass = 1
PROPERTY
    RequestIsTaken
