SPECIFICATION MscSpec
CONSTANT EpochMod = 6
INVARIANTS
    WithheldWhileAway
    PresentedWhenTold
    SenseTellsLastFailure
PROPERTIES
    DataOnlyFromToldMedium
