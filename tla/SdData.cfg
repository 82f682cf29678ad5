SPECIFICATION Spec
CONSTANTS
    Messages <- MCMessages
    Starts <- MCStarts
    Burst <- MCBurst
INVARIANTS
    DamageIsCaught
    CrcIsRemainder
    CapacityIsExact
